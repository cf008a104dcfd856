--------------------------- MODULE RpcFetch_proofs ---------------------------
(***************************************************************************)
(* Proofs about RpcFetch: whatever the program does with its calls, it     *)
(* makes and drops them as RetryService allows, so that its guarantee      *)
(* holds of every fetch; what is fetched belongs together and is what was  *)
(* asked for; and what fails has a cause.                                  *)
(***************************************************************************)
EXTENDS RpcFetch, BlockInterval_proofs, SequenceTheorems

-------------------------------------------------------------------------------
(* The retrying service on its own, for any set of calls, made and dropped *)
(* at any time, and any number of retries.                                 *)

(* The policy of a call counts its requests but the first, and the call    *)
(* sleeps only while the policy has retries left.                          *)
Counted(f) ==
  /\ f.attempts = f.retries + 1
  /\ f.state = "backoff" => f.retries < MaxRetries
  /\ f.state = "failed" => f.retries = MaxRetries

RetryInv == RetryTypeOK /\ \A c \in InFlight : Counted(futures[c])

-------------------------------------------------------------------------------
(* A step that changes one call in flight keeps the invariant if what it   *)
(* makes of the call is counted.                                           *)
LEMMA OneCall ==
  ASSUME RetryInv, NEW c \in InFlight, NEW f \in Future, Counted(f),
         futures' = [futures EXCEPT ![c] = f]
  PROVE  RetryInv'
<1>1. DOMAIN futures' = InFlight
  BY DEF InFlight
<1>2. \A d \in InFlight : futures'[d] = IF d = c THEN f ELSE futures[d]
  BY DEF InFlight
<1>3. \A d \in InFlight : futures[d] \in Future /\ Counted(futures[d])
  BY DEF RetryInv, RetryTypeOK
<1>4. \A d \in InFlight : futures'[d] \in Future /\ Counted(futures'[d])
  BY <1>2, <1>3
<1>5. futures' \in [InFlight -> Future]
  BY <1>1, <1>4 DEF RetryInv, RetryTypeOK
<1> QED
  BY <1>1, <1>4, <1>5 DEF RetryInv, RetryTypeOK, InFlight

LEMMA RetryInitially == RetryInit => RetryInv
<1> SUFFICES ASSUME RetryInit PROVE RetryInv
  OBVIOUS
<1>1. InFlight = {} /\ futures \in [InFlight -> Future]
  BY DEF RetryInit, InFlight
<1> QED
  BY <1>1 DEF RetryInv, RetryTypeOK

(* Calls begin with a fresh policy, whatever the others have used up. *)
LEMMA RenewKeeps ==
  ASSUME RetryInv, NEW started \in SUBSET Calls, NEW dropped \in SUBSET Calls,
         Renew(started, dropped)
  PROVE  RetryInv'
<1> DEFINE fresh == [state |-> "sent", attempts |-> 1, retries |-> 0]
<1> USE MaxRetriesAssumption
<1>1. fresh \in Future /\ Counted(fresh)
  BY DEF Future, Counted
<1>2. /\ DOMAIN futures' = (InFlight \ dropped) \cup started
      /\ \A c \in DOMAIN futures' : futures'[c] = IF c \in started THEN fresh ELSE futures[c]
  BY DEF Renew
<1>3. \A c \in DOMAIN futures' : futures'[c] \in Future /\ Counted(futures'[c])
  BY <1>1, <1>2 DEF RetryInv, RetryTypeOK
<1>4. futures' = [c \in DOMAIN futures' |-> futures'[c]]
  BY DEF Renew
<1>5. futures' \in [DOMAIN futures' -> Future]
  BY <1>3, <1>4
<1>6. DOMAIN futures' \subseteq Calls
  BY <1>2 DEF RetryInv, RetryTypeOK
<1> QED
  BY <1>3, <1>5, <1>6 DEF RetryInv, RetryTypeOK, InFlight

LEMMA RetryStep ==
  ASSUME RetryInv, [RetryNext]_futures
  PROVE  RetryInv'
<1> USE MaxRetriesAssumption
<1>0. \A c \in InFlight : futures[c] \in Future /\ Counted(futures[c])
  BY DEF RetryInv, RetryTypeOK
<1>1. ASSUME NEW c \in Calls, Answer(c) PROVE RetryInv'
  <2> DEFINE f == [futures[c] EXCEPT !.state = "answered"]
  <2>1. c \in InFlight /\ futures' = [futures EXCEPT ![c] = f]
    BY <1>1 DEF Answer, IsInState
  <2>2. f \in Future /\ Counted(f)
    BY <1>0, <2>1 DEF Future, Counted
  <2> QED
    BY <2>1, <2>2, OneCall
<1>2. ASSUME NEW c \in Calls, TransportFails(c) PROVE RetryInv'
  <2> DEFINE f == [futures[c] EXCEPT !.state =
                     IF futures[c].retries < MaxRetries THEN "backoff" ELSE "failed"]
  <2>1. c \in InFlight /\ futures' = [futures EXCEPT ![c] = f]
    BY <1>2 DEF TransportFails, IsInState
  <2>2. f \in Future /\ Counted(f)
    BY <1>0, <2>1 DEF Future, Counted
  <2> QED
    BY <2>1, <2>2, OneCall
<1>3. ASSUME NEW c \in Calls, Resend(c) PROVE RetryInv'
  <2> DEFINE f == [state |-> "sent", retries |-> futures[c].retries + 1,
                   attempts |-> futures[c].attempts + 1]
  <2>1. c \in InFlight /\ futures[c].state = "backoff" /\ futures' = [futures EXCEPT ![c] = f]
    BY <1>3 DEF Resend, IsInState
  <2>2. f \in Future /\ Counted(f)
    BY <1>0, <2>1 DEF Future, Counted
  <2> QED
    BY <2>1, <2>2, OneCall
<1>4. ASSUME UNCHANGED futures PROVE RetryInv'
  BY <1>4 DEF RetryInv, RetryTypeOK, InFlight, Counted
<1> QED
  BY <1>1, <1>2, <1>3, <1>4, RenewKeeps DEF RetryNext

(* However many calls share the service, and whichever are dropped: the    *)
(* policy of each counts its own requests, and no other's.                 *)
THEOREM RetryInvariance == RetrySpec => []RetryInv
  BY RetryInitially, RetryStep, PTL DEF RetrySpec

LEMMA InvTries == RetryInv => EveryCallHasItsTries
<1> SUFFICES ASSUME RetryInv, NEW c \in InFlight
             PROVE  /\ futures[c].attempts <= MaxRetries + 1
                    /\ futures[c].state = "failed" => futures[c].attempts = MaxRetries + 1
  BY DEF EveryCallHasItsTries
<1>1. futures[c] \in Future /\ Counted(futures[c])
  BY DEF RetryInv, RetryTypeOK
<1> QED
  BY <1>1, MaxRetriesAssumption DEF Future, Counted

(* A call is sent at most max_retries + 1 times, and fails only after the  *)
(* last (rpc/src/retry.rs, RetryPolicy::retry).                            *)
THEOREM Tries == RetrySpec => []EveryCallHasItsTries
  BY InvTries, RetryInvariance, PTL

-------------------------------------------------------------------------------
(* The service under a fetch. *)

Stages == trace \in TraceStage /\ other \in OtherStage

FetchInv == RetryInv /\ Stages

(* What every step does: it keeps the invariant, and is a step of the      *)
(* service.                                                                *)
Uses == FetchInv' /\ [RetryNext]_futures

-------------------------------------------------------------------------------
(* What is awaited at a stage are calls. *)
LEMMA AwaitedCalls ==
  ASSUME NEW stage \in TraceStage \cup OtherStage
  PROVE  Awaited(stage) \subseteq Calls
<1>1. TxCalls \subseteq Calls /\ ProofCalls \subseteq Calls
  BY CallsAssumption
<1>2. Headers \subseteq Calls
  BY CallsAssumption DEF Headers
<1>3. \A name \in {"traces", "witness", "block", "prev", "target", "chainId"} :
        <<name, 0>> \in Calls
  BY CallsAssumption
<1> QED
  BY <1>1, <1>2, <1>3 DEF Awaited, TraceStage, OtherStage

(* Calls are made, and dropped, at a stage. *)
LEMMA RenewStages ==
  ASSUME FetchInv, NEW started \in SUBSET Calls, NEW dropped \in SUBSET Calls,
         Renew(started, dropped), Stages'
  PROVE  Uses
  BY RenewKeeps DEF FetchInv, Uses, RetryNext

LEMMA InFlightCalls == FetchInv => InFlight \in SUBSET Calls
  BY DEF FetchInv, RetryInv, RetryTypeOK

LEMMA ReturnKeeps ==
  ASSUME FetchInv, NEW result, Return(result)
  PROVE  Uses
<1>1. Renew({}, InFlight) /\ Stages'
  BY DEF Return, Stages, TraceStage, OtherStage
<1> QED
  BY <1>1, RenewStages, InFlightCalls

LEMMA AskKeeps ==
  ASSUME FetchInv, NEW i, NEW number, AskForCheckpoint(i, number)
  PROVE  Uses
<1>1. Renew({<<"checkpoint", 0>>}, {}) /\ Stages'
  BY DEF AskForCheckpoint, FetchInv, Stages, work
<1>2. {<<"checkpoint", 0>>} \in SUBSET Calls
  BY CallsAssumption
<1> QED
  BY <1>1, <1>2, RenewStages

(* A step of the service itself. *)
LEMMA ServiceKeeps ==
  ASSUME FetchInv, NEW c \in InFlight, Service(c)
  PROVE  Uses
<1>1. c \in Calls
  BY InFlightCalls
<1>2. Answer(c) \/ TransportFails(c) \/ Resend(c)
  BY DEF Service, NodeAnswers, NodeRefuses, ConnectionFails, RetryLater
<1>3. RetryInv'
  BY <1>1, <1>2, RetryStep DEF RetryNext, FetchInv
<1>4. UNCHANGED work
  BY DEF Service, NodeAnswers, NodeRefuses, ConnectionFails, RetryLater
<1>5. RetryNext
  BY <1>1, <1>2 DEF RetryNext
<1> QED
  BY <1>3, <1>4, <1>5 DEF FetchInv, Stages, work, Uses

LEMMA FetchInitially == Init => FetchInv
  BY RetryInitially DEF Init, FetchInv, Stages, TraceStage, OtherStage

LEMMA FetchStep ==
  ASSUME FetchInv, [Next]_vars
  PROVE  Uses
<1>a. Stages
  BY DEF FetchInv
<1>b. <<"tip", 0>> \in Calls
  BY CallsAssumption
<1>1. CASE StartLeader
  <2>1. (\E result : Return(result)) \/ (\E i, number : AskForCheckpoint(i, number))
    BY <1>1 DEF StartLeader
  <2> QED
    BY <2>1, ReturnKeeps, AskKeeps
<1>2. CASE StartFetch
  <2>1. (\E result : Return(result)) \/ (\E i, number : AskForCheckpoint(i, number))
    BY <1>2 DEF StartFetch
  <2> QED
    BY <2>1, ReturnKeeps, AskKeeps
<1>3. CASE StartFollow
  <2>1. \/ \E result : Return(result)
        \/ Renew({<<"tip", 0>>}, {}) /\ UNCHANGED <<trace, other>>
    BY <1>3 DEF StartFollow
  <2>2. ASSUME Renew({<<"tip", 0>>}, {}), UNCHANGED <<trace, other>> PROVE Uses
    BY <1>a, <1>b, <2>2, RenewStages DEF Stages
  <2> QED
    BY <2>1, <2>2, ReturnKeeps
<1>4. CASE OpenStream
  <2>1. \/ \E result : Return(result)
        \/ Renew({}, InFlight) /\ UNCHANGED <<trace, other>>
    BY <1>4 DEF OpenStream
  <2>2. ASSUME Renew({}, InFlight), UNCHANGED <<trace, other>> PROVE Uses
    BY <1>a, <2>2, RenewStages, InFlightCalls DEF Stages
  <2> QED
    BY <2>1, <2>2, ReturnKeeps
<1>5. CASE NextBlock
  <2>1. trace' \in TraceStage /\ other' \in OtherStage
    BY <1>5 DEF NextBlock, TraceStage, OtherStage
  <2>2. at' = at
    BY <1>5 DEF NextBlock
  <2>3. Renew(Awaited(trace') \cup Awaited(other'), {})
    BY <1>5 DEF NextBlock
  <2>4. Awaited(trace') \cup Awaited(other') \in SUBSET Calls
    BY <2>1, AwaitedCalls
  <2> QED
    BY <2>1, <2>3, <2>4, RenewStages DEF Stages
<1>6. CASE Exhausted
  BY <1>6, ReturnKeeps DEF Exhausted
<1>7. CASE AwaitTrace
  <2>1. CASE \E result : Return(result)
    BY <2>1, ReturnKeeps
  <2>2. CASE ~ \E result : Return(result)
    <3>1. /\ trace' = TraceAfter(trace)
          /\ other' \in {"target", other}
          /\ Renew(Awaited(trace') \cup (IF other' # other THEN Awaited(other') ELSE {}),
                   Awaited(trace))
      BY <1>7, <2>2 DEF AwaitTrace
    <3>2. trace' \in TraceStage /\ other' \in OtherStage
      BY <1>a, <3>1 DEF TraceAfter, Stages, TraceStage, OtherStage
    <3>3. Awaited(trace') \subseteq Calls /\ Awaited(other') \subseteq Calls
          /\ Awaited(trace) \subseteq Calls
      BY <1>a, <3>2, AwaitedCalls DEF Stages
    <3> QED
      BY <3>1, <3>2, <3>3, RenewStages DEF Stages
  <2> QED
    BY <2>1, <2>2
<1>8. CASE AwaitOther
  <2>1. \/ \E result : Return(result)
        \/ other' = OtherAfter(other) /\ trace' = trace /\ Renew(Awaited(other'), Awaited(other))
    BY <1>8 DEF AwaitOther
  <2>2. ASSUME other' = OtherAfter(other), trace' = trace, Renew(Awaited(other'), Awaited(other))
        PROVE  Uses
    <3>1. other' \in OtherStage
      BY <2>2 DEF OtherAfter, OtherStage
    <3>2. Awaited(other') \in SUBSET Calls /\ Awaited(other) \in SUBSET Calls
      BY <1>a, <3>1, AwaitedCalls DEF Stages
    <3> QED
      BY <1>a, <2>2, <3>1, <3>2, RenewStages DEF Stages
  <2> QED
    BY <2>1, <2>2, ReturnKeeps
<1>9. CASE Assemble
  <2>1. Renew({}, InFlight) /\ trace' = "none" /\ other' = "none"
    BY <1>9 DEF Assemble
  <2> QED
    BY <2>1, RenewStages, InFlightCalls DEF Stages, TraceStage, OtherStage
<1>10. CASE Poll
  <2>1. Renew({<<"tip", 0>>}, {}) /\ UNCHANGED <<trace, other>>
    BY <1>10 DEF Poll
  <2> QED
    BY <1>a, <1>b, <2>1, RenewStages DEF Stages
<1>11. CASE \E c \in InFlight : Fail(c)
  BY <1>11, ReturnKeeps DEF Fail
<1>12. CASE \E c \in InFlight : Service(c)
  BY <1>12, ServiceKeeps
<1>13. CASE TxUnsupported
  BY <1>13, ReturnKeeps DEF TxUnsupported
<1>14. CASE Grow \/ (\E h \in 1 .. MaxHeight : Reorg(h)) \/ UNCHANGED vars
  <2>1. UNCHANGED <<futures, trace, other>>
    BY <1>14 DEF Grow, Reorg, vars, work
  <2>2. RetryInv'
    BY <2>1, RetryStep DEF FetchInv
  <2> QED
    BY <1>a, <2>1, <2>2 DEF FetchInv, Stages, Uses
<1> QED
  BY <1>1, <1>2, <1>3, <1>4, <1>5, <1>6, <1>7, <1>8, <1>9, <1>10, <1>11, <1>12, <1>13, <1>14
     DEF Next, Work, Run

THEOREM FetchInvariance == Spec => []FetchInv
<1>1. FetchInv /\ [Next]_vars => FetchInv'
  BY FetchStep DEF Uses
<1> QED
  BY <1>1, FetchInitially, PTL DEF Spec

(* Every program uses the service as RetrySpec describes it: each of its   *)
(* steps makes, drops or moves calls as the service does, or leaves them   *)
(* alone (rpc/src/retry.rs:119-134).                                       *)
THEOREM FetchUsesService == Spec => RetrySpec
<1>1. Init => RetryInit
  BY DEF Init
<1>2. FetchInv /\ [Next]_vars => [RetryNext]_futures
  BY FetchStep DEF Uses
<1> QED
  BY <1>1, <1>2, FetchInvariance, PTL DEF Spec, RetrySpec

(* Therefore what the service promises holds of every fetch: every call    *)
(* that fails has been sent max_retries + 1 times, and none is sent more   *)
(* often (RetryPolicy::retry).                                             *)
THEOREM FetchTries == Spec => []EveryCallHasItsTries
  BY FetchUsesService, Tries, PTL

-------------------------------------------------------------------------------
(* Hashes *)

Hashes == Seq(0 .. MaxReorgs)

LEMMA Prefix ==
  ASSUME NEW S, NEW s \in Seq(S), NEW n \in 0 .. Len(s)
  PROVE  /\ SubSeq(s, 1, n) \in Seq(S) /\ Len(SubSeq(s, 1, n)) = n
         /\ SubSeq(s, 1, n) = [i \in 1 .. n |-> s[i]]
<1>1. \A i \in 1 .. n : s[i] \in S
  BY ElementOfSeq
<1>2. SubSeq(s, 1, n) = [i \in 1 .. n |-> s[i]]
  OBVIOUS
<1> QED
  BY <1>1, <1>2

LEMMA HashTyped ==
  ASSUME NEW c \in Hashes, NEW h \in Nat, h < Len(c)
  PROVE  /\ HashAt(c, h) \in Hashes /\ Len(HashAt(c, h)) = h + 1 /\ HashAt(c, h) # Zero
         /\ Parent(HashAt(c, h)) = SubSeq(c, 1, h)
<1> DEFINE hash == HashAt(c, h)
<1>1. h + 1 \in 0 .. Len(c) /\ h \in 0 .. Len(c) /\ h \in 0 .. h + 1
  BY DEF Hashes
<1>2. hash \in Hashes /\ Len(hash) = h + 1 /\ hash = [i \in 1 .. h + 1 |-> c[i]]
  BY <1>1, Prefix DEF HashAt, Hashes
<1>3. hash # Zero
  BY <1>2 DEF Zero
<1> HIDE DEF hash
<1>4. Parent(hash) = SubSeq(c, 1, h)
  <2>1. Parent(hash) = SubSeq(hash, 1, h)
    BY <1>2 DEF Parent, Front
  <2>2. SubSeq(hash, 1, h) = [i \in 1 .. h |-> hash[i]] /\ SubSeq(c, 1, h) = [i \in 1 .. h |-> c[i]]
    BY <1>1, <1>2, Prefix DEF Hashes
  <2>3. \A i \in 1 .. h : hash[i] = c[i]
    BY <1>2
  <2> QED
    BY <2>1, <2>2, <2>3
<1> QED
  BY <1>2, <1>3, <1>4 DEF hash

(* The hash of an ancestor, of a block that is on the chain.               *)
LEMMA AncestorHash ==
  ASSUME NEW c \in Hashes, NEW n \in Nat, n < Len(c), NEW m \in Nat, m <= n
  PROVE  HashAt(HashAt(c, n), m) = HashAt(c, m)
<1> DEFINE hash == HashAt(c, n)
<1>1. n + 1 \in 0 .. Len(c) /\ m + 1 \in 0 .. Len(c) /\ m + 1 \in 0 .. n + 1
  BY DEF Hashes
<1>2. hash \in Hashes /\ Len(hash) = n + 1 /\ hash = [i \in 1 .. n + 1 |-> c[i]]
  BY <1>1, Prefix DEF HashAt, Hashes
<1> HIDE DEF hash
<1>3. HashAt(hash, m) = [i \in 1 .. m + 1 |-> hash[i]]
  BY <1>1, <1>2, Prefix DEF HashAt, Hashes
<1>4. HashAt(c, m) = [i \in 1 .. m + 1 |-> c[i]]
  BY <1>1, Prefix DEF HashAt, Hashes
<1>5. \A i \in 1 .. m + 1 : hash[i] = c[i]
  BY <1>1, <1>2
<1> QED
  BY <1>3, <1>4, <1>5 DEF hash

LEMMA ParentTyped ==
  ASSUME NEW hash \in Hashes, hash # Zero
  PROVE  Parent(hash) \in Hashes /\ Len(Parent(hash)) = Len(hash) - 1
<1>1. Len(hash) \in Nat \ {0}
  BY DEF Hashes, Zero
<1>2. Len(hash) - 1 \in 0 .. Len(hash)
  BY <1>1
<1> QED
  BY <1>2, Prefix DEF Parent, Front, Hashes

-------------------------------------------------------------------------------
(* The calls of a fetch.  Every call belongs to one stage; the stages that *)
(* are awaited now, and those of this block that are over.                 *)

StageOf(c) ==
  CASE c[1] \in {"receipt", "read", "diff"} -> "txs"
    [] c[1] \in {"proof", "nextProof"}      -> "proofs"
    [] c[1] = "header"                      -> "headers"
    [] OTHER                                -> c[1]

AllStages == TraceStage \cup OtherStage \cup {"checkpoint", "tip"}

LEMMA StageIs ==
  ASSUME NEW s \in AllStages, NEW c \in Awaited(s)
  PROVE  StageOf(c) = s /\ c \in Calls
<1>1. CASE s \in {"none", "done"}
  BY <1>1 DEF Awaited
<1>2. CASE s = "txs"
  <2>1. c \in TxCalls
    BY <1>2 DEF Awaited
  <2>2. c \in Calls
    BY <2>1, CallsAssumption
  <2>3. c[1] \in {"receipt", "read", "diff"}
    BY <2>1 DEF TxCalls
  <2> QED
    BY <1>2, <2>2, <2>3 DEF StageOf
<1>3. CASE s = "proofs"
  <2>1. c \in ProofCalls
    BY <1>3 DEF Awaited
  <2>2. c \in Calls
    BY <2>1, CallsAssumption
  <2>3. c[1] \in {"proof", "nextProof"}
    BY <2>1 DEF ProofCalls
  <2> QED
    BY <1>3, <2>2, <2>3 DEF StageOf
<1>4. CASE s = "headers"
  <2>1. PICK k \in 1 .. Window : c = <<"header", k>>
    BY <1>4 DEF Awaited, Headers
  <2>2. c \in Calls
    BY <2>1, CallsAssumption
  <2> QED
    BY <1>4, <2>1, <2>2 DEF StageOf
<1>5. CASE s \in {"traces", "witness", "block", "prev", "target", "chainId", "checkpoint", "tip"}
  <2>1. c = <<s, 0>>
    BY <1>5 DEF Awaited
  <2>2. c \in Calls
    BY <1>5, <2>1, CallsAssumption
  <2> QED
    BY <1>5, <2>1, <2>2 DEF StageOf
<1> QED
  BY <1>1, <1>2, <1>3, <1>4, <1>5 DEF AllStages, TraceStage, OtherStage

Current ==
  CASE phase = "checkpoint" -> {"checkpoint"}
    [] phase = "poll"       -> {"tip"}
    [] phase = "fetch"      -> {trace, other} \ {"none", "done"}
    [] OTHER                -> {}

PassedTrace ==
  CASE trace = "witness" -> {"traces"}
    [] trace = "txs"     -> {"block"}
    [] trace = "prev"    -> {"block", "txs"}
    [] trace = "proofs"  -> {"block", "txs", "prev"}
    [] trace = "done"    -> IF rpc = "jerigon" THEN {"traces", "witness"}
                            ELSE {"block", "txs", "prev", "proofs"}
    [] OTHER             -> {}

PassedOther ==
  CASE other = "chainId" -> {"target"}
    [] other = "headers" -> {"target", "chainId"}
    [] other = "done"    -> {"target", "chainId", "headers"}
    [] OTHER             -> {}

Passed == IF phase = "fetch" THEN PassedTrace \cup PassedOther ELSE {}

(* Which lane is at which stage, for the two kinds of nodes. *)
Lanes ==
  phase = "fetch" =>
    /\ rpc = "jerigon" => /\ trace \in {"traces", "witness", "done"}
                          /\ trace # "done" => other = "none"
    /\ rpc = "native"  => trace \in {"block", "txs", "prev", "proofs", "done"}

(* What is in flight is awaited, and what is over was answered well. *)
Calling ==
  /\ \A c \in InFlight :
       /\ StageOf(c) \in Current /\ c \in Awaited(StageOf(c))
       /\ futures[c].state = "answered" => c \in DOMAIN got
  /\ \A c \in DOMAIN got : StageOf(c) \in Current \cup Passed /\ c \in Awaited(StageOf(c))
  /\ \A s \in Passed : \A c \in Awaited(s) : c \in DOMAIN got /\ got[c] # Zero

(* An answer that a block is made of is the hash of the number asked for,  *)
(* and of the node's present chain if that was not reorganised below since *)
(* the block before was complete.                                          *)
Numbered(c) == c[1] \notin {"checkpoint", "chainId", "tip"}

Chained(c) ==
  /\ Len(got[c]) = Asks(c) + 1 /\ Asks(c) < peak
  /\ Asks(c) < low => Asks(c) < Len(chain) /\ got[c] = HashAt(chain, Asks(c))

Contents ==
  \A c \in DOMAIN got :
    /\ got[c] \in Hashes
    /\ c = <<"tip", 0>> => Len(got[c]) <= peak
    /\ phase = "fetch" /\ Numbered(c) /\ got[c] # Zero => Chained(c)

(* Where the stream is. *)
Stream ==
  /\ phase \in {"parse", "checkpoint"} => yielded = <<>> /\ blocks = <<>>
  /\ phase = "checkpoint" => interval.kind \notin {"error", "panic"}
  /\ phase = "poll" => program = "follow"
  /\ phase \in {"checkpoint", "stream", "fetch"} => program = "prover_input"
  /\ program = "fetch" => arg \in FetchArgs
  /\ program = "follow" => blocks = <<>> /\ phase \notin {"checkpoint", "stream", "fetch"}
  /\ phase = "poll" => at = interval.from + Len(yielded)
  /\ phase \in {"stream", "fetch"} =>
       /\ interval.kind = "range" /\ interval.to = to /\ at = interval.from + Len(blocks)
       /\ at = interval.from \/ at <= to
       /\ Len(yielded) = Len(blocks) + (IF phase = "fetch" THEN 1 ELSE 0)
       /\ phase = "fetch" => at < to
       /\ \A i \in 1 .. Len(yielded) : yielded[i] + 1 = interval.from + i
  /\ Len(blocks) <= Len(yielded)
  /\ StreamIsInterval

(* The last block that was fetched is still on the chain, unless it was    *)
(* reorganised while it was fetched or since.                              *)
LastBlock ==
  \A i \in 1 .. Len(blocks) :
    i = Len(blocks) /\ yielded[i] < blocks[i].low /\ yielded[i] < low =>
      yielded[i] < Len(chain) /\ blocks[i].cur = HashAt(chain, yielded[i])

Fetched == HashesInPlace /\ OneChain /\ LastBlock

Block == [cur : Hashes, prev : [1 .. Window -> Hashes], trace : SUBSET Hashes, pre : SUBSET Hashes,
          low : 0 .. Top + 1]

FetchTypes ==
  /\ chain \in Hashes /\ Len(chain) \in 1 .. MaxHeight + 1
  /\ low \in 0 .. Top + 1 /\ forks \in 0 .. MaxReorgs
  /\ peak \in 1 .. MaxHeight + 1 /\ Len(chain) <= peak
  /\ program \in Programs \cup {"prover_input"} /\ arg \in Args \cup FetchArgs \cup {<<>>}
  /\ rpc \in {"jerigon", "native"}
  /\ Parsed(interval) /\ checkpoint \in 0 .. Top
  /\ phase \in {"parse", "checkpoint", "stream", "fetch", "poll"} \cup Returned
  /\ at \in 0 .. Top /\ to \in 0 .. Top /\ yielded \in Seq(0 .. Top)
  /\ blocks \in Seq(Block)
  /\ failures \in 0 .. MaxFaults /\ refusals \in 0 .. MaxFaults

RunInv ==
  /\ FetchInv
  /\ FetchTypes
  /\ Lanes
  /\ Calling
  /\ Contents
  /\ Stream
  /\ Fetched

-------------------------------------------------------------------------------
(* The chain of the node moves. *)

ChainMoves ==
  /\ chain' \in Hashes /\ Len(chain') \in 1 .. MaxHeight + 1
  /\ peak' \in 1 .. MaxHeight + 1 /\ Len(chain') <= peak' /\ peak <= peak'
  /\ low' \in 0 .. Top + 1 /\ low' <= low /\ forks' \in 0 .. MaxReorgs /\ forks <= forks'
  /\ \A n \in Nat : n < low' /\ n < Len(chain) =>
       n < Len(chain') /\ HashAt(chain', n) = HashAt(chain, n)
  /\ forks' = 0 => low' = low /\ Len(chain) <= Len(chain')

(* Hashes agree where the chains do. *)
LEMMA SameHash ==
  ASSUME NEW c \in Hashes, NEW d \in Hashes, NEW n \in Nat, n < Len(c), n < Len(d),
         \A i \in 1 .. n + 1 : c[i] = d[i]
  PROVE  HashAt(c, n) = HashAt(d, n)
<1>1. n + 1 \in 0 .. Len(c) /\ n + 1 \in 0 .. Len(d)
  BY DEF Hashes
<1>2. /\ HashAt(c, n) = [i \in 1 .. n + 1 |-> c[i]]
      /\ HashAt(d, n) = [i \in 1 .. n + 1 |-> d[i]]
  BY <1>1, Prefix DEF HashAt, Hashes
<1> QED
  BY <1>2

LEMMA GrowMoves ==
  ASSUME FetchTypes, Grow
  PROVE  ChainMoves
<1> DEFINE S == 0 .. MaxReorgs
<1>1. chain \in Seq(S) /\ Len(chain) \in 1 .. MaxHeight + 1 /\ MaxHeight \in Nat
  BY FetchAssumption, TopAssumption DEF FetchTypes, Hashes
<1>2. Last(chain) \in S
  <2> HIDE DEF S
  <2> QED
    BY <1>1, ElementOfSeq DEF Last
<1>3. /\ chain' = Append(chain, Last(chain)) /\ Len(chain) <= MaxHeight
      /\ low' = low /\ forks' = forks
      /\ peak' = IF Len(chain') > peak THEN Len(chain') ELSE peak
  BY DEF Grow
<1> HIDE DEF S
<1>4. /\ chain' \in Seq(S) /\ Len(chain') = Len(chain) + 1
      /\ \A i \in 1 .. Len(chain) : chain'[i] = chain[i]
  BY <1>1, <1>2, <1>3
<1>5. \A n \in Nat : n < Len(chain) => HashAt(chain', n) = HashAt(chain, n)
  BY <1>1, <1>4, SameHash DEF Hashes, S
<1>6. peak' \in 1 .. MaxHeight + 1 /\ Len(chain') <= peak' /\ peak <= peak'
  <2>1. peak \in 1 .. MaxHeight + 1 /\ Len(chain') \in 1 .. MaxHeight + 1
    BY <1>1, <1>3, <1>4 DEF FetchTypes
  <2> QED
    BY <1>1, <1>3, <2>1
<1>7. forks \in Nat /\ low \in Nat /\ Len(chain) < Len(chain')
  BY <1>1, <1>4, TopAssumption DEF FetchTypes
<1>8. \A n \in Nat : n < Len(chain) => n < Len(chain')
  BY <1>1, <1>4
<1> QED
  BY <1>1, <1>3, <1>4, <1>5, <1>6, <1>7, <1>8 DEF ChainMoves, FetchTypes, Hashes, S

LEMMA ReorgMoves ==
  ASSUME FetchTypes, NEW h \in 1 .. MaxHeight, Reorg(h)
  PROVE  ChainMoves
<1> DEFINE S == 0 .. MaxReorgs
<1>1. chain \in Seq(S) /\ Len(chain) \in 1 .. MaxHeight + 1 /\ MaxHeight \in Nat
  BY FetchAssumption, TopAssumption DEF FetchTypes, Hashes
<1>2. /\ forks' = forks + 1 /\ forks < MaxReorgs /\ low' = IF h < low THEN h ELSE low
      /\ h \in 1 .. Len(chain) - 1
      /\ peak' = IF Len(chain') > peak THEN Len(chain') ELSE peak
  BY DEF Reorg
<1>a. PICK length \in h .. MaxHeight + 1 :
        chain' = [i \in 1 .. length |-> IF i <= h THEN chain[i] ELSE forks']
  BY DEF Reorg
<1>b. length \in 1 .. MaxHeight + 1 /\ length \in Nat /\ h <= length
  BY <1>1, <1>a
<1>3. forks' \in S /\ low \in 0 .. Top + 1 /\ MaxHeight < Top
  BY <1>2, FetchAssumption, TopAssumption DEF FetchTypes
<1>4. \A i \in 1 .. Len(chain) : chain[i] \in S
  <2> HIDE DEF S
  <2> QED
    BY <1>1, ElementOfSeq
<1> HIDE DEF S
<1>5. chain' \in Seq(S) /\ Len(chain') = length
  <2>1. \A i \in 1 .. length : (IF i <= h THEN chain[i] ELSE forks') \in S
    BY <1>1, <1>2, <1>3, <1>4, <1>b
  <2> QED
    BY <1>a, <1>b, <2>1
<1>6. ASSUME NEW n \in Nat, n < low', n < Len(chain)
      PROVE  n < Len(chain') /\ HashAt(chain', n) = HashAt(chain, n)
  <2>1. n < h
    BY <1>2, <1>3, <1>6, TopAssumption
  <2>2. \A i \in 1 .. n + 1 : chain'[i] = chain[i]
    BY <1>a, <1>b, <1>6, <2>1
  <2>3. n < Len(chain')
    BY <1>5, <1>b, <1>6, <2>1
  <2> QED
    BY <1>1, <1>5, <1>6, <2>2, <2>3, SameHash DEF Hashes, S
<1>7. low' \in 0 .. Top + 1 /\ low' <= low
  BY <1>2, <1>3, TopAssumption
<1>8. peak' \in 1 .. MaxHeight + 1 /\ Len(chain') <= peak' /\ peak <= peak'
  <2>1. peak \in 1 .. MaxHeight + 1 /\ Len(chain') \in 1 .. MaxHeight + 1
    BY <1>b, <1>5 DEF FetchTypes
  <2> QED
    BY <1>1, <1>2, <2>1
<1>9. forks' \in 0 .. MaxReorgs /\ forks <= forks' /\ forks' # 0
  BY <1>2, FetchAssumption DEF FetchTypes
<1>10. Len(chain') \in 1 .. MaxHeight + 1
  BY <1>b, <1>5
<1> QED
  BY <1>5, <1>6, <1>7, <1>8, <1>9, <1>10 DEF ChainMoves, Hashes, S

-------------------------------------------------------------------------------
(* Every call asks for a number. *)
LEMMA AskedTyped ==
  ASSUME FetchTypes, NEW c, c \in Awaited(StageOf(c))
  PROVE  Asks(c) \in 0 .. Top
<1>1. at \in 0 .. Top /\ checkpoint \in 0 .. Top /\ Pred(at) \in 0 .. Top
  BY TopAssumption DEF FetchTypes, Pred
<1>2. CASE c[1] = "header"
  <2>1. StageOf(c) = "headers"
    BY <1>2 DEF StageOf
  <2>2. c \in Headers
    BY <2>1 DEF Awaited
  <2>3. PICK k \in 1 .. Window : k <= at + 1 /\ c = <<"header", k>>
    BY <2>2 DEF Headers
  <2>4. Asks(c) = at + 1 - k
    BY <2>3 DEF Asks
  <2> QED
    BY <1>1, <2>3, <2>4, FetchAssumption, TopAssumption
<1>3. CASE c[1] # "header"
  <2>1. Asks(c) \in {at, checkpoint, Pred(at)}
    BY <1>3 DEF Asks
  <2> QED
    BY <1>1, <2>1
<1> QED
  BY <1>2, <1>3

LEMMA ChainKeeps ==
  ASSUME RunInv, ChainMoves, UNCHANGED <<futures, start, phase, work, got, fault>>
  PROVE  RunInv'
<1>1. /\ futures' = futures /\ program' = program /\ arg' = arg /\ rpc' = rpc
      /\ interval' = interval /\ checkpoint' = checkpoint /\ phase' = phase
      /\ at' = at /\ to' = to /\ yielded' = yielded /\ trace' = trace /\ other' = other
      /\ blocks' = blocks /\ got' = got /\ failures' = failures /\ refusals' = refusals
  BY DEF start, work, fault
<1>2. FetchInv'
  <2>1. RetryInv'
    BY <1>1, RetryStep DEF RunInv, FetchInv
  <2> QED
    BY <1>1, <2>1 DEF RunInv, FetchInv, Stages
<1>3. FetchTypes'
  <2>1. FetchArgs' = FetchArgs
    BY DEF FetchArgs
  <2> QED
    BY <1>1, <2>1 DEF RunInv, FetchTypes, ChainMoves, Parsed
<1>4. Lanes'
  BY <1>1 DEF RunInv, Lanes
<1>5. Calling'
  <2>1. Current' = Current /\ Passed' = Passed /\ InFlight' = InFlight
    BY <1>1 DEF Current, Passed, PassedTrace, PassedOther, InFlight
  <2>2. Headers' = Headers
    BY <1>1 DEF Headers
  <2>3. \A s : Awaited(s)' = Awaited(s)
    BY <2>2 DEF Awaited
  <2> QED
    BY <1>1, <2>1, <2>2, <2>3 DEF RunInv, Calling, Awaited
<1>6. Contents'
  <2> SUFFICES ASSUME NEW c \in DOMAIN got
               PROVE  /\ got[c] \in Hashes
                      /\ c = <<"tip", 0>> => Len(got[c]) <= peak'
                      /\ phase = "fetch" /\ Numbered(c) /\ got[c] # Zero => Chained(c)'
    BY <1>1 DEF Contents
  <2>1. got[c] \in Hashes /\ (c = <<"tip", 0>> => Len(got[c]) <= peak)
    BY DEF RunInv, Contents
  <2>2. /\ Len(chain) \in Nat /\ Len(chain') \in Nat /\ Len(got[c]) \in Nat
        /\ peak \in Nat /\ peak' \in Nat /\ peak <= peak'
    BY <2>1 DEF RunInv, FetchTypes, ChainMoves, Hashes
  <2>3. ASSUME Chained(c) PROVE Chained(c)'
    <3>1. Asks(c)' = Asks(c)
      BY <1>1 DEF Asks
    <3>2. /\ Len(got[c]) = Asks(c) + 1 /\ Asks(c) < peak
          /\ Asks(c) < low => Asks(c) < Len(chain) /\ got[c] = HashAt(chain, Asks(c))
      BY <2>3 DEF Chained
    <3>3. Asks(c) \in Nat
      <4>1. c \in Awaited(StageOf(c)) /\ FetchTypes
        BY DEF RunInv, Calling
      <4> QED
        BY <4>1, AskedTyped, TopAssumption
    <3>4. low \in Nat /\ low' \in Nat /\ low' <= low
      BY TopAssumption DEF RunInv, FetchTypes, ChainMoves
    <3>5. ASSUME Asks(c) < low'
          PROVE  Asks(c) < Len(chain') /\ got[c] = HashAt(chain', Asks(c))
      <4>1. Asks(c) < low /\ Asks(c) < Len(chain) /\ got[c] = HashAt(chain, Asks(c))
        BY <3>2, <3>3, <3>4, <3>5
      <4> QED
        BY <3>3, <3>5, <4>1 DEF ChainMoves
    <3>6. Asks(c) < peak'
      BY <2>2, <3>2, <3>3
    <3> QED
      BY <1>1, <3>1, <3>2, <3>5, <3>6 DEF Chained
  <2> QED
    BY <2>1, <2>2, <2>3 DEF RunInv, Contents, ChainMoves
<1>7. Stream'
  <2>1. at \in Nat /\ peak \in Nat /\ peak' \in Nat /\ peak <= peak'
    BY TopAssumption DEF RunInv, FetchTypes, ChainMoves
  <2>2. StreamIsInterval'
    BY <1>1, <2>1 DEF RunInv, Stream, StreamIsInterval
  <2>3. FetchArgs' = FetchArgs
    BY DEF FetchArgs
  <2> QED
    BY <1>1, <2>2, <2>3 DEF RunInv, Stream
<1>8. Fetched'
  <2>1. HashesInPlace'
    BY <1>1 DEF RunInv, Fetched, HashesInPlace
  <2>2. OneChain'
    BY <1>1 DEF RunInv, Fetched, OneChain
  <2>3. ASSUME NEW i \in 1 .. Len(blocks), i = Len(blocks),
               yielded[i] < blocks[i].low, yielded[i] < low'
        PROVE  yielded[i] < Len(chain') /\ blocks[i].cur = HashAt(chain', yielded[i])
    <3>1. Len(blocks) <= Len(yielded) /\ yielded \in Seq(0 .. Top) /\ Len(blocks) \in Nat
          /\ low \in Nat /\ low' \in Nat /\ low' <= low
      BY TopAssumption DEF RunInv, Stream, FetchTypes, ChainMoves
    <3>2. i \in 1 .. Len(yielded)
      BY <3>1
    <3>3. yielded[i] \in 0 .. Top
      BY <3>1, <3>2, ElementOfSeq
    <3>4. yielded[i] \in Nat
      BY <3>3, TopAssumption
    <3>5. yielded[i] < low
      BY <2>3, <3>1, <3>4
    <3>6. yielded[i] < Len(chain) /\ blocks[i].cur = HashAt(chain, yielded[i])
      BY <2>3, <3>5 DEF RunInv, Fetched, LastBlock
    <3> QED
      BY <2>3, <3>4, <3>6 DEF ChainMoves
  <2>4. LastBlock'
    BY <1>1, <2>3 DEF LastBlock
  <2> QED
    BY <2>1, <2>2, <2>4 DEF Fetched
<1> QED
  BY <1>2, <1>3, <1>4, <1>5, <1>6, <1>7, <1>8 DEF RunInv

-------------------------------------------------------------------------------
(* The service and the node answer. *)

LEMMA OneAnswer ==
  ASSUME NEW c, NEW hash, Receive(c, hash)
  PROVE  /\ DOMAIN got' = DOMAIN got \cup {c}
         /\ got'[c] = hash
         /\ \A d \in DOMAIN got : d # c => got'[d] = got[d]
  BY DEF Receive

LEMMA ServiceFutures ==
  ASSUME NEW c \in InFlight, Service(c)
  PROVE  /\ InFlight' = InFlight
         /\ \A d \in InFlight : futures'[d].state = "answered" =>
              \/ d # c /\ futures[d].state = "answered"
              \/ d = c /\ (NodeAnswers(c) \/ NodeRefuses(c))
<1>1. CASE NodeAnswers(c) \/ NodeRefuses(c)
  BY <1>1 DEF NodeAnswers, NodeRefuses, Answer, InFlight
<1>2. CASE ConnectionFails(c)
  <2>1. futures' = [futures EXCEPT ![c].state =
                      IF futures[c].retries < MaxRetries THEN "backoff" ELSE "failed"]
    BY <1>2 DEF ConnectionFails, TransportFails
  <2>2. \A d \in InFlight : d # c => futures'[d] = futures[d]
    BY <2>1 DEF InFlight
  <2>3. DOMAIN futures' = DOMAIN futures
    BY <2>1
  <2>4. futures'[c] = [futures[c] EXCEPT !.state =
                         IF futures[c].retries < MaxRetries THEN "backoff" ELSE "failed"]
    BY <2>1 DEF InFlight
  <2>5. futures'[c].state # "answered"
    BY <1>2, <2>4 DEF ConnectionFails, TransportFails, IsInState
  <2> QED
    BY <2>2, <2>3, <2>5 DEF InFlight
<1>3. CASE RetryLater(c)
  <2>1. /\ DOMAIN futures' = DOMAIN futures
        /\ futures'[c].state = "sent"
        /\ \A d \in InFlight : d # c => futures'[d] = futures[d]
    BY <1>3 DEF RetryLater, Resend, InFlight
  <2> QED
    BY <2>1 DEF InFlight
<1> QED
  BY <1>1, <1>2, <1>3 DEF Service

(* Nothing in flight is over. *)
LEMMA CurrentNotPassed ==
  ASSUME FetchTypes, Lanes, FetchInv
  PROVE  /\ Current \cap Passed = {}
         /\ Current \subseteq AllStages /\ Passed \subseteq AllStages
<1>1. CASE phase # "fetch"
  <2>1. Passed = {} /\ Current \subseteq {"checkpoint", "tip"}
    BY <1>1 DEF Passed, Current
  <2> QED
    BY <2>1 DEF AllStages
<1>2. CASE phase = "fetch"
  <2>1. trace \in TraceStage /\ other \in OtherStage
    BY DEF FetchInv, Stages
  <2>2. /\ Current = {trace, other} \ {"none", "done"}
        /\ Passed = PassedTrace \cup PassedOther
    BY <1>2 DEF Current, Passed
  <2>3. Current \cap Passed = {}
    <3>1. (trace \notin PassedTrace /\ trace \notin PassedOther) \/ trace \in {"none", "done"}
      BY <2>1 DEF TraceStage, PassedTrace, PassedOther
    <3>2. (other \notin PassedOther /\ other \notin PassedTrace) \/ other \in {"none", "done"}
      BY <2>1 DEF OtherStage, PassedTrace, PassedOther
    <3> QED
      BY <2>2, <3>1, <3>2
  <2>4. PassedTrace \subseteq AllStages /\ PassedOther \subseteq AllStages
    BY DEF PassedTrace, PassedOther, AllStages, TraceStage, OtherStage
  <2> QED
    BY <2>1, <2>2, <2>3, <2>4 DEF AllStages
<1> QED
  BY <1>1, <1>2

(* What a call asks for, and what the node knows of it. *)
Asked(c) == IF Asks(c) < Len(chain) THEN HashAt(chain, Asks(c)) ELSE Zero

LEMMA KnownIs ==
  ASSUME NEW c
  PROVE  /\ c[1] = "tip" => Known(c) = {chain}
         /\ c[1] = "chainId" => Known(c) = {HashAt(chain, 0)}
         /\ c[1] \notin {"tip", "chainId"} => Known(c) \subseteq {Zero, Asked(c)}
         /\ c[1] \notin {"tip", "chainId"} /\ c \notin TxCalls => Known(c) = {Asked(c)}
         /\ c \in TxCalls /\ IsPrefix(got[<<"block", 0>>], chain) => Known(c) = {Asked(c)}
<1>1. c \in TxCalls => c[1] \notin {"tip", "chainId"}
  BY DEF TxCalls
<1>2. CASE c[1] = "tip"
  BY <1>1, <1>2 DEF Known
<1>3. CASE c[1] = "chainId"
  BY <1>1, <1>3 DEF Known
<1>4. CASE c[1] \notin {"tip", "chainId"} /\ c \in TxCalls
  BY <1>4 DEF Known, Asked
<1>5. CASE c[1] \notin {"tip", "chainId"} /\ c \notin TxCalls
  BY <1>5 DEF Known, Asked
<1> QED
  BY <1>1, <1>2, <1>3, <1>4, <1>5

(* What the node answers to a call in flight. *)
LEMMA GoodAnswer ==
  ASSUME RunInv, NEW c \in InFlight, NEW hash \in Known(c) \cup {Zero}
  PROVE  /\ hash \in Hashes
         /\ c = <<"tip", 0>> => Len(hash) <= peak
         /\ phase = "fetch" /\ Numbered(c) /\ hash # Zero =>
              /\ Len(hash) = Asks(c) + 1 /\ Asks(c) < peak /\ Asks(c) < Len(chain)
              /\ hash = HashAt(chain, Asks(c))
<1>1. /\ chain \in Hashes /\ Len(chain) \in Nat /\ Len(chain) > 0 /\ FetchTypes
      /\ at \in Nat /\ peak \in Nat /\ Len(chain) <= peak
  BY TopAssumption DEF RunInv, FetchTypes
<1>2. c \in Awaited(StageOf(c)) /\ StageOf(c) \in Current
  BY DEF RunInv, Calling
<1>3. Asks(c) \in Nat
  BY <1>1, <1>2, AskedTyped, TopAssumption
<1>4. Zero \in Hashes /\ Len(Zero) = 0
  BY DEF Zero, Hashes
<1>5. CASE hash = Zero
  <2>1. 0 <= peak
    BY <1>1
  <2> QED
    BY <1>4, <1>5, <2>1
<1>6. CASE c[1] = "tip" /\ hash \in Known(c)
  <2>1. Known(c) = {chain}
    BY <1>6, KnownIs
  <2>2. hash = chain
    BY <1>6, <2>1
  <2>3. ~Numbered(c)
    BY <1>6 DEF Numbered
  <2> QED
    BY <1>1, <2>2, <2>3
<1>7. CASE c[1] = "chainId" /\ hash \in Known(c)
  <2>1. Known(c) = {HashAt(chain, 0)}
    BY <1>7, KnownIs
  <2>2. hash = HashAt(chain, 0)
    BY <1>7, <2>1
  <2>3. ~Numbered(c) /\ c # <<"tip", 0>>
    BY <1>7 DEF Numbered
  <2> QED
    BY <1>1, <2>2, <2>3, HashTyped
<1>8. CASE c[1] \notin {"tip", "chainId"} /\ hash \in Known(c)
  <2>1. Known(c) \subseteq {Zero, Asked(c)}
    BY <1>8, KnownIs
  <2>2. hash \in {Zero, Asked(c)}
    BY <1>8, <2>1
  <2>3. CASE hash = HashAt(chain, Asks(c)) /\ Asks(c) < Len(chain)
    <3>1. hash \in Hashes /\ Len(hash) = Asks(c) + 1
      BY <1>1, <1>3, <2>3, HashTyped
    <3>2. Asks(c) < peak
      BY <1>1, <1>3, <2>3
    <3>3. c # <<"tip", 0>>
      BY <1>8
    <3> QED
      BY <2>3, <3>1, <3>2, <3>3
  <2> QED
    BY <1>5, <2>2, <2>3 DEF Asked
<1> QED
  BY <1>5, <1>6, <1>7, <1>8

LEMMA ServiceAll ==
  ASSUME RunInv, NEW c \in InFlight, Service(c)
  PROVE  RunInv'
<1>1. /\ UNCHANGED <<node, start, phase, work>>
      /\ \/ UNCHANGED got
         \/ /\ NodeAnswers(c) \/ NodeRefuses(c)
            /\ \E hash \in Known(c) \cup {Zero} : Receive(c, hash)
  BY DEF Service, NodeAnswers, NodeRefuses, ConnectionFails, RetryLater
<1>2. /\ chain' = chain /\ low' = low /\ peak' = peak /\ forks' = forks
      /\ program' = program /\ arg' = arg
      /\ rpc' = rpc /\ interval' = interval /\ checkpoint' = checkpoint /\ phase' = phase
      /\ at' = at /\ to' = to /\ yielded' = yielded /\ trace' = trace /\ other' = other
      /\ blocks' = blocks /\ FetchArgs' = FetchArgs
  BY <1>1 DEF node, start, work, FetchArgs
<1>3. InFlight' = InFlight
  BY ServiceFutures
<1>4. FetchInv'
  BY ServiceKeeps DEF Uses, RunInv
<1>5. failures' \in 0 .. MaxFaults /\ refusals' \in 0 .. MaxFaults
  <2>1. /\ failures \in 0 .. MaxFaults /\ refusals \in 0 .. MaxFaults /\ forks \in Nat
        /\ MaxFaults \in Nat
    BY FetchAssumption DEF RunInv, FetchTypes
  <2>2. \/ failures' = failures /\ refusals' = refusals
        \/ /\ forks + failures + refusals < MaxFaults
           /\ \/ failures' = failures + 1 /\ refusals' = refusals
              \/ failures' = failures /\ refusals' = refusals + 1
    BY DEF Service, NodeAnswers, NodeRefuses, ConnectionFails, RetryLater, fault
  <2> QED
    BY <2>1, <2>2
<1>6. FetchTypes'
  BY <1>2, <1>5 DEF RunInv, FetchTypes, Parsed
<1>7. Lanes' /\ Fetched'
  BY <1>2 DEF RunInv, Lanes, Fetched, HashesInPlace, OneChain, LastBlock
<1>8. Stream'
  BY <1>2 DEF RunInv, Stream, StreamIsInterval
<1>9. Current' = Current /\ Passed' = Passed /\ \A s : Awaited(s)' = Awaited(s)
  <2>1. Headers' = Headers
    BY <1>2 DEF Headers
  <2> QED
    BY <1>2, <2>1 DEF Current, Passed, PassedTrace, PassedOther, Awaited
<1>10. \A d : Chained(d) /\ got'[d] = got[d] => Chained(d)'
  <2>1. \A d : Asks(d)' = Asks(d)
    BY <1>2 DEF Asks
  <2> QED
    BY <1>2, <2>1 DEF Chained
<1>11. CASE UNCHANGED got
  <2>1. ~(NodeAnswers(c) \/ NodeRefuses(c)) \/ c \in DOMAIN got
    <3>1. ASSUME NodeAnswers(c) \/ NodeRefuses(c) PROVE c \in DOMAIN got
      <4>1. \E hash : Receive(c, hash)
        BY <3>1 DEF NodeAnswers, NodeRefuses
      <4> QED
        BY <1>11, <4>1, OneAnswer
    <3> QED
      BY <3>1
  <2>2. Calling'
    <3>1. \A d \in InFlight : futures'[d].state = "answered" => d \in DOMAIN got
      BY <2>1, ServiceFutures DEF RunInv, Calling
    <3> QED
      BY <1>3, <1>9, <1>11, <3>1 DEF RunInv, Calling, InFlight
  <2>3. Contents'
    BY <1>2, <1>10, <1>11 DEF RunInv, Contents
  <2> QED
    BY <1>4, <1>6, <1>7, <1>8, <2>2, <2>3 DEF RunInv
<1>12. CASE ~UNCHANGED got
  <2>1. PICK hash \in Known(c) \cup {Zero} : Receive(c, hash)
    BY <1>1, <1>12
  <2>2. /\ DOMAIN got' = DOMAIN got \cup {c}
        /\ got'[c] = hash
        /\ \A d \in DOMAIN got : d # c => got'[d] = got[d]
    BY <2>1, OneAnswer
  <2>3. StageOf(c) \in Current /\ c \in Awaited(StageOf(c))
    BY DEF RunInv, Calling
  <2>4. Calling'
    <3>1. \A d \in InFlight : futures'[d].state = "answered" => d \in DOMAIN got'
      BY <2>2, ServiceFutures DEF RunInv, Calling
    <3>2. ASSUME NEW s \in Passed, NEW d \in Awaited(s)
          PROVE  d \in DOMAIN got' /\ got'[d] # Zero
      <4>1. StageOf(d) = s /\ s \notin Current
        BY <3>2, CurrentNotPassed, StageIs DEF RunInv
      <4> QED
        BY <2>2, <2>3, <3>2, <4>1 DEF RunInv, Calling
    <3>3. \A d \in DOMAIN got' : StageOf(d) \in Current \cup Passed /\ d \in Awaited(StageOf(d))
      BY <2>2, <2>3 DEF RunInv, Calling
    <3> QED
      BY <1>3, <1>9, <3>1, <3>2, <3>3 DEF RunInv, Calling, InFlight
  <2>5. Contents'
    <3>1. ASSUME phase = "fetch", Numbered(c), hash # Zero PROVE Chained(c)'
      <4>1. /\ Len(hash) = Asks(c) + 1 /\ Asks(c) < peak /\ Asks(c) < Len(chain)
            /\ hash = HashAt(chain, Asks(c))
        BY <3>1, GoodAnswer
      <4>2. Asks(c)' = Asks(c)
        BY <1>2 DEF Asks
      <4> QED
        BY <1>2, <2>2, <4>1, <4>2 DEF Chained
    <3>2. hash \in Hashes /\ (c = <<"tip", 0>> => Len(hash) <= peak)
      BY GoodAnswer
    <3> QED
      BY <1>2, <1>10, <2>2, <3>1, <3>2 DEF RunInv, Contents
  <2> QED
    BY <1>4, <1>6, <1>7, <1>8, <2>4, <2>5 DEF RunInv
<1> QED
  BY <1>11, <1>12

-------------------------------------------------------------------------------
(* The steps of the programs. *)

LEMMA Renewed ==
  ASSUME NEW started, NEW dropped, Renew(started, dropped)
  PROVE  /\ InFlight' = (InFlight \ dropped) \cup started
         /\ \A c \in started : futures'[c].state # "answered"
         /\ \A c \in InFlight' : c \notin started => c \in InFlight /\ futures'[c] = futures[c]
  BY DEF Renew, InFlight

(* Where nothing is in flight and nothing was answered yet. *)
LEMMA Quiet ==
  ASSUME InFlight' = {}, DOMAIN got' = {}, Passed' = {}
  PROVE  Calling' /\ Contents'
<1>1. Calling'
  BY DEF Calling, InFlight
<1>2. Contents'
  BY DEF Contents
<1> QED
  BY <1>1, <1>2

LEMMA NothingAnswered == DOMAIN NoAnswers = {}
  BY DEF NoAnswers

(* The numbers that a range has streamed. *)
LEMMA RangeStreamed ==
  ASSUME RunInv, phase = "stream", at >= to
  PROVE  /\ Len(blocks) = Len(yielded)
         /\ \A i, j \in 1 .. Len(yielded) : i < j => yielded[i] < yielded[j]
         /\ {yielded[i] : i \in 1 .. Len(yielded)} = Named(interval)
<1> USE TopAssumption
<1> DEFINE l     == Len(yielded)
           first == interval.from
<1>1. /\ interval.kind = "range" /\ interval.to = to /\ at = first + Len(blocks)
      /\ at = first \/ at <= to
      /\ l = Len(blocks) + 0
      /\ \A i \in 1 .. l : yielded[i] + 1 = first + i
  BY DEF RunInv, Stream
<1>2. first \in Nat /\ to \in 0 .. Top /\ at \in Nat /\ l \in Nat /\ Len(blocks) \in Nat
  <2>1. yielded \in Seq(0 .. Top) /\ blocks \in Seq(Block)
    BY DEF RunInv, FetchTypes
  <2> QED
    BY <2>1 DEF RunInv, FetchTypes, Parsed, Interval
<1>3. \A i \in 1 .. l : yielded[i] \in Nat
  <2>1. yielded \in Seq(0 .. Top)
    BY DEF RunInv, FetchTypes
  <2>2. \A i \in 1 .. l : yielded[i] \in 0 .. Top
    BY <2>1, ElementOfSeq
  <2> QED
    BY <2>2
<1>4. Named(interval) = {n \in 0 .. Top : first <= n /\ n < to}
  BY <1>1 DEF Named
<1>5. Len(blocks) = l /\ at = first + l
  BY <1>1, <1>2
<1>6. \A i \in 1 .. l : yielded[i] \in Nat /\ yielded[i] + 1 = first + i
  BY <1>1, <1>3
<1>7. at = first \/ at <= to
  BY <1>1
<1> HIDE DEF l, first
<1>8. ASSUME NEW i \in 1 .. l, NEW j \in 1 .. l, i < j PROVE yielded[i] < yielded[j]
  <2>1. /\ yielded[i] \in Nat /\ yielded[i] + 1 = first + i
        /\ yielded[j] \in Nat /\ yielded[j] + 1 = first + j
    BY <1>6
  <2> QED
    BY <1>2, <1>8, <2>1
<1>9. ASSUME NEW n \in 0 .. Top, first <= n, n < to PROVE \E i \in 1 .. l : yielded[i] = n
  <2> DEFINE i == n + 1 - first
  <2>1. i \in 1 .. l
    BY <1>2, <1>5, <1>7, <1>9
  <2>2. yielded[i] \in Nat /\ yielded[i] + 1 = first + i
    BY <1>6, <2>1
  <2>3. yielded[i] = n
    BY <1>2, <1>9, <2>2
  <2> QED
    BY <2>1, <2>3
<1>10. ASSUME NEW i \in 1 .. l
       PROVE  yielded[i] \in 0 .. Top /\ first <= yielded[i] /\ yielded[i] < to
  <2>1. yielded[i] \in Nat /\ yielded[i] + 1 = first + i
    BY <1>6
  <2>2. i \in Nat /\ 1 <= i /\ i <= l
    BY <1>2
  <2>3. at <= to
    BY <1>2, <1>5, <1>7, <2>2
  <2> QED
    BY <1>2, <1>5, <2>1, <2>2, <2>3
<1>11. {yielded[i] : i \in 1 .. l} = Named(interval)
  BY <1>4, <1>9, <1>10
<1> QED
  BY <1>5, <1>8, <1>11 DEF l

LEMMA ReturnAll ==
  ASSUME RunInv, NEW result \in Returned, Return(result), phase \notin Returned,
         result = "ok" => phase = "stream" /\ at >= to
  PROVE  RunInv'
<1>1. /\ chain' = chain /\ low' = low /\ peak' = peak /\ forks' = forks
      /\ program' = program /\ arg' = arg
      /\ rpc' = rpc /\ interval' = interval /\ checkpoint' = checkpoint /\ phase' = result
      /\ at' = at /\ to' = to /\ yielded' = yielded /\ blocks' = blocks
      /\ failures' = failures /\ refusals' = refusals /\ FetchArgs' = FetchArgs
  BY DEF Return, node, start, fault, FetchArgs
<1>2. result \notin {"parse", "checkpoint", "stream", "fetch", "poll"}
  BY DEF Returned
<1>3. FetchInv'
  BY ReturnKeeps DEF Uses, RunInv
<1>4. FetchTypes'
  BY <1>1 DEF RunInv, FetchTypes, Parsed
<1>5. Lanes' /\ Fetched'
  BY <1>1, <1>2 DEF RunInv, Lanes, Fetched, HashesInPlace, OneChain, LastBlock
<1>6. Calling' /\ Contents'
  <2>1. InFlight' = {}
    BY Renewed DEF Return
  <2>2. DOMAIN got' = {}
    BY NothingAnswered DEF Return
  <2>3. Passed' = {}
    BY <1>1, <1>2 DEF Passed
  <2> QED
    BY <2>1, <2>2, <2>3, Quiet
<1>7. Stream'
  <2>1. StreamIsInterval'
    <3>1. result = "ok" =>
            /\ Len(blocks) = Len(yielded)
            /\ \A i, j \in 1 .. Len(yielded) : i < j => yielded[i] < yielded[j]
            /\ {yielded[i] : i \in 1 .. Len(yielded)} = Named(interval)
      BY RangeStreamed
    <3>2. program = "follow" =>
            /\ \A i \in 1 .. Len(yielded) : yielded[i] = interval.from + i
            /\ yielded # <<>> => at < peak
      <4>1. CASE phase = "parse"
        <5>1. yielded = <<>>
          BY <4>1 DEF RunInv, Stream
        <5>2. 1 .. Len(yielded) = {}
          BY <5>1
        <5> QED
          BY <5>1, <5>2
      <4>2. CASE phase # "parse"
        BY <4>2 DEF RunInv, Stream, StreamIsInterval
      <4> QED
        BY <4>1, <4>2
    <3>3. Named(interval)' = Named(interval)
      BY <1>1 DEF Named
    <3> QED
      BY <1>1, <3>1, <3>2, <3>3 DEF StreamIsInterval
  <2> QED
    BY <1>1, <1>2, <2>1 DEF RunInv, Stream
<1> QED
  BY <1>3, <1>4, <1>5, <1>6, <1>7 DEF RunInv

(* A fetch of an interval that was parsed begins with its checkpoint. *)
LEMMA AskAll ==
  ASSUME RunInv, phase = "parse", NEW i, Parsed(i), i.kind \notin {"error", "panic"},
         NEW number \in 0 .. Top, AskForCheckpoint(i, number)
  PROVE  RunInv'
<1>1. /\ chain' = chain /\ low' = low /\ peak' = peak /\ forks' = forks
      /\ program' = "prover_input" /\ arg' = <<>> /\ rpc' \in {"jerigon", "native"}
      /\ interval' = i /\ checkpoint' = number
      /\ phase' = "checkpoint" /\ at' = at /\ to' = to /\ yielded' = yielded /\ blocks' = blocks
      /\ got' = got /\ failures' = failures /\ refusals' = refusals
  BY DEF AskForCheckpoint, node, work, fault
<1>2. FetchInv'
  BY AskKeeps DEF Uses, RunInv
<1>3. FetchTypes'
  BY <1>1 DEF RunInv, FetchTypes, Parsed
<1>4. Lanes' /\ Fetched'
  BY <1>1 DEF RunInv, Lanes, Fetched, HashesInPlace, OneChain, LastBlock
<1>5. Stream'
  <2>1. yielded = <<>> /\ blocks = <<>>
    BY DEF RunInv, Stream
  <2>2. Len(yielded) = 0 /\ Len(blocks) = 0
    BY <2>1
  <2> QED
    BY <1>1, <2>1, <2>2 DEF Stream, StreamIsInterval
<1>6. InFlight = {} /\ DOMAIN got = {}
  <2>1. Current = {} /\ Passed = {}
    BY DEF Current, Passed
  <2> QED
    BY <2>1 DEF RunInv, Calling
<1>7. Calling'
  <2>1. Renew({<<"checkpoint", 0>>}, {})
    BY DEF AskForCheckpoint
  <2>2. Current' = {"checkpoint"} /\ Passed' = {}
    BY <1>1 DEF Current, Passed
  <2>3. InFlight' = {<<"checkpoint", 0>>}
    BY <1>6, <2>1, Renewed
  <2>4. futures'[<<"checkpoint", 0>>].state # "answered"
    BY <2>1, Renewed
  <2>5. StageOf(<<"checkpoint", 0>>) = "checkpoint"
    BY DEF StageOf
  <2>6. Awaited("checkpoint")' = {<<"checkpoint", 0>>}
    BY DEF Awaited
  <2> QED
    BY <1>1, <1>6, <2>2, <2>3, <2>4, <2>5, <2>6 DEF Calling, Awaited, InFlight
<1>8. Contents'
  BY <1>1, <1>6 DEF Contents
<1> QED
  BY <1>2, <1>3, <1>4, <1>5, <1>7, <1>8 DEF RunInv

LEMMA OpenAll ==
  ASSUME RunInv, NEW checked, phase = "checkpoint",
         NEW s, s = BoundedStream(interval, checked), s \notin {Error, Panic},
         interval' = s, at' = s.from, to' = s.to, phase' = "stream", checkpoint' = 0,
         Renew({}, InFlight), got' = NoAnswers,
         UNCHANGED <<node, program, arg, rpc, yielded, trace, other, blocks, fault>>
  PROVE  RunInv'
<1>1. /\ chain' = chain /\ low' = low /\ peak' = peak /\ forks' = forks
      /\ program' = program /\ arg' = arg /\ FetchArgs' = FetchArgs /\ rpc' = rpc /\ yielded' = yielded /\ trace' = trace /\ other' = other /\ blocks' = blocks
      /\ failures' = failures /\ refusals' = refusals
  BY DEF node, fault, FetchArgs
<1>2. s \in Interval /\ s.kind = "range"
  <2>1. Parsed(interval) /\ interval.kind \notin {"error", "panic"}
    BY DEF RunInv, FetchTypes, Stream
  <2> QED
    BY <2>1, BoundedTyped
<1>3. FetchInv'
  <2>1. Stages'
    BY <1>1 DEF RunInv, FetchInv, Stages
  <2> QED
    BY <2>1, RenewStages, InFlightCalls DEF Uses, RunInv
<1>4. FetchTypes'
  <2>1. s.from \in 0 .. Top /\ s.to \in 0 .. Top /\ Parsed(s)
    BY <1>2 DEF Interval, Parsed
  <2>2. Parsed(interval)'
    BY <2>1 DEF Parsed
  <2> QED
    BY <1>1, <2>1, <2>2, TopAssumption DEF RunInv, FetchTypes
<1>5. yielded = <<>> /\ blocks = <<>> /\ Len(yielded) = 0 /\ Len(blocks) = 0
  <2>1. yielded = <<>> /\ blocks = <<>>
    BY DEF RunInv, Stream
  <2> QED
    BY <2>1
<1>6. Lanes' /\ Fetched'
  BY <1>1, <1>5 DEF RunInv, Lanes, Fetched, HashesInPlace, OneChain, LastBlock
<1>7. Calling' /\ Contents'
  <2>1. InFlight' = {} /\ DOMAIN got' = {} /\ Passed' = {}
    BY Renewed, NothingAnswered DEF Passed
  <2> QED
    BY <2>1, Quiet
<1>8. Stream'
  <2>1. program = "prover_input"
    BY DEF RunInv, Stream
  <2>2. s.from + 0 = s.from
    BY <1>2 DEF Interval
  <2> QED
    BY <1>1, <1>2, <1>5, <2>1, <2>2 DEF Stream, StreamIsInterval
<1> QED
  BY <1>3, <1>4, <1>6, <1>7, <1>8 DEF RunInv

(* One more number is produced. *)
LEMMA NextAll ==
  ASSUME RunInv, NextBlock
  PROVE  RunInv'
<1>1. /\ chain' = chain /\ low' = low /\ peak' = peak /\ forks' = forks
      /\ program' = program /\ arg' = arg /\ FetchArgs' = FetchArgs /\ rpc' = rpc /\ interval' = interval /\ checkpoint' = checkpoint /\ phase' = "fetch"
      /\ at' = at /\ to' = to /\ yielded' = Append(yielded, at) /\ blocks' = blocks
      /\ got' = got /\ failures' = failures /\ refusals' = refusals
      /\ phase = "stream" /\ at < to
      /\ trace' = IF rpc = "jerigon" THEN "traces" ELSE "block"
      /\ other' = IF rpc = "jerigon" THEN "none" ELSE "target"
      /\ Renew(Awaited(trace') \cup Awaited(other'), {})
  BY DEF NextBlock, node, start, fault, FetchArgs
<1>2. /\ yielded \in Seq(0 .. Top) /\ at \in 0 .. Top /\ rpc \in {"jerigon", "native"}
      /\ Len(yielded) \in Nat
  BY DEF RunInv, FetchTypes
<1>3. /\ yielded' \in Seq(0 .. Top) /\ Len(yielded') = Len(yielded) + 1
      /\ \A i \in 1 .. Len(yielded) : yielded'[i] = yielded[i]
      /\ yielded'[Len(yielded) + 1] = at
  <2> DEFINE S == 0 .. Top
  <2>1. yielded \in Seq(S) /\ at \in S
    BY <1>2
  <2> HIDE DEF S
  <2>2. Append(yielded, at) \in Seq(S) /\ Len(Append(yielded, at)) = Len(yielded) + 1
        /\ (\A i \in 1 .. Len(yielded) : Append(yielded, at)[i] = yielded[i])
        /\ Append(yielded, at)[Len(yielded) + 1] = at
    BY <2>1
  <2> QED
    BY <1>1, <2>2 DEF S
<1>4. trace' \in TraceStage /\ other' \in OtherStage
  BY <1>1 DEF TraceStage, OtherStage
<1>5. FetchInv'
  <2>1. Awaited(trace') \cup Awaited(other') \in SUBSET Calls
    BY <1>4, AwaitedCalls
  <2> QED
    BY <1>1, <1>4, <2>1, RenewStages DEF Uses, RunInv, Stages
<1>6. FetchTypes'
  BY <1>1, <1>3 DEF RunInv, FetchTypes, Parsed
<1>7. Lanes'
  BY <1>1, <1>2 DEF Lanes
<1>8. Len(blocks) = Len(yielded)
  BY <1>1 DEF RunInv, Stream
<1>9. Fetched'
  <2>1. \A i \in 1 .. Len(blocks) : yielded'[i] = yielded[i]
    BY <1>3, <1>8
  <2>2. LastBlock'
    BY <1>1, <2>1 DEF RunInv, Fetched, LastBlock
  <2>3. HashesInPlace'
    BY <1>1, <2>1 DEF RunInv, Fetched, HashesInPlace
  <2>4. OneChain'
    BY <1>1, <2>1 DEF RunInv, Fetched, OneChain
  <2> QED
    BY <1>1, <2>2, <2>3, <2>4 DEF Fetched
<1>10. InFlight = {} /\ DOMAIN got = {}
  <2>1. Current = {} /\ Passed = {}
    BY <1>1 DEF Current, Passed
  <2> QED
    BY <2>1 DEF RunInv, Calling
<1>11. Calling'
  <2>1. Current' = {trace', other'} \ {"none", "done"} /\ Passed' = {}
    BY <1>1 DEF Current, Passed, PassedTrace, PassedOther
  <2>2. InFlight' = Awaited(trace') \cup Awaited(other')
    BY <1>1, <1>10, Renewed
  <2>3. ASSUME NEW c \in InFlight'
        PROVE  StageOf(c) \in Current' /\ c \in Awaited(StageOf(c)) /\ futures'[c].state # "answered"
    <3>1. futures'[c].state # "answered"
      BY <1>1, <2>2, <2>3, Renewed
    <3>2. PICK s \in {trace', other'} : c \in Awaited(s)
      BY <2>2
    <3>3. s \in AllStages /\ s \notin {"none", "done"}
      BY <1>4, <3>2 DEF AllStages, Awaited
    <3> QED
      BY <2>1, <3>1, <3>2, <3>3, StageIs
  <2>4. \A s : Awaited(s)' = Awaited(s)
    <3>1. Headers' = Headers
      BY <1>1 DEF Headers
    <3> QED
      BY <3>1 DEF Awaited
  <2> QED
    BY <1>1, <1>10, <2>1, <2>3, <2>4 DEF Calling, InFlight
<1>12. Contents'
  BY <1>1, <1>10 DEF Contents
<1>13. Stream'
  <2>1. /\ interval.kind = "range" /\ interval.to = to /\ at = interval.from + Len(blocks)
        /\ at = interval.from \/ at <= to
        /\ \A i \in 1 .. Len(yielded) : yielded[i] + 1 = interval.from + i
        /\ program = "prover_input"
    BY <1>1 DEF RunInv, Stream
  <2>2. interval.from \in Nat
    BY DEF RunInv, FetchTypes, Parsed, Interval
  <2>3. \A i \in 1 .. Len(yielded') : yielded'[i] + 1 = interval.from + i
    <3>1. at + 1 = interval.from + (Len(yielded) + 1)
      BY <1>2, <1>8, <2>1, <2>2
    <3>2. \A i \in 1 .. Len(yielded') : i \in 1 .. Len(yielded) \/ i = Len(yielded) + 1
      BY <1>2, <1>3
    <3> QED
      BY <1>3, <2>1, <3>1, <3>2
  <2>4. Len(blocks) <= Len(yielded') /\ Len(yielded') = Len(blocks) + 1
    BY <1>2, <1>3, <1>8
  <2> QED
    BY <1>1, <2>1, <2>3, <2>4 DEF Stream, StreamIsInterval
<1> QED
  BY <1>5, <1>6, <1>7, <1>9, <1>11, <1>12, <1>13 DEF RunInv

(* A stage of a block is over: all its calls were answered well, and those *)
(* of the next stage are made.                                             *)
LEMMA StageOver ==
  ASSUME RunInv, phase = "fetch", NEW over \in Current, NEW started \in SUBSET Calls,
         \A c \in Awaited(over) : Good(c),
         Renew(started, Awaited(over)),
         UNCHANGED <<node, start, phase, at, to, yielded, got, blocks, fault>>,
         FetchInv', Lanes',
         Passed' = Passed \cup {over}, Current \subseteq Current' \cup {over},
         \A c \in started : StageOf(c) \in Current' /\ c \in Awaited(StageOf(c))
  PROVE  RunInv'
<1>1. /\ chain' = chain /\ low' = low /\ peak' = peak /\ forks' = forks
      /\ program' = program /\ arg' = arg /\ FetchArgs' = FetchArgs /\ rpc' = rpc /\ interval' = interval /\ checkpoint' = checkpoint /\ phase' = phase
      /\ at' = at /\ to' = to /\ yielded' = yielded /\ blocks' = blocks
      /\ got' = got /\ failures' = failures /\ refusals' = refusals
  BY DEF node, start, fault, FetchArgs
<1>2. FetchTypes'
  BY <1>1 DEF RunInv, FetchTypes, Parsed
<1>3. Fetched' /\ Stream'
  <2>1. Fetched'
    BY <1>1 DEF RunInv, Fetched, HashesInPlace, OneChain, LastBlock
  <2>2. Stream'
    BY <1>1 DEF RunInv, Stream, StreamIsInterval
  <2> QED
    BY <2>1, <2>2
<1>4. Contents'
  <2>1. \A c : Chained(c)' <=> Chained(c)
    <3>1. \A c : Asks(c)' = Asks(c)
      BY <1>1 DEF Asks
    <3> QED
      BY <1>1, <3>1 DEF Chained
  <2> QED
    BY <1>1, <2>1 DEF RunInv, Contents
<1>5. \A s : Awaited(s)' = Awaited(s)
  <2>1. Headers' = Headers
    BY <1>1 DEF Headers
  <2> QED
    BY <2>1 DEF Awaited
<1>6. over \in AllStages
  BY CurrentNotPassed DEF RunInv
<1>7. ASSUME NEW c \in InFlight'
      PROVE  /\ StageOf(c) \in Current' /\ c \in Awaited(StageOf(c))
             /\ futures'[c].state = "answered" => c \in DOMAIN got
  <2>1. CASE c \in started
    BY <2>1, Renewed
  <2>2. CASE c \notin started
    <3>1. c \in InFlight /\ futures'[c] = futures[c] /\ c \notin Awaited(over)
      BY <2>2, <1>7, Renewed
    <3>2. StageOf(c) \in Current /\ c \in Awaited(StageOf(c))
      BY <3>1 DEF RunInv, Calling
    <3>3. StageOf(c) # over
      BY <3>1, <3>2
    <3> QED
      BY <3>1, <3>2, <3>3 DEF RunInv, Calling
  <2> QED
    BY <2>1, <2>2
<1>8. \A c \in DOMAIN got : StageOf(c) \in Current' \cup Passed' /\ c \in Awaited(StageOf(c))
  BY DEF RunInv, Calling
<1>9. \A c \in Awaited(over) : c \in DOMAIN got /\ got[c] # Zero
  BY DEF RunInv, Calling, Good, IsInState
<1>10. Calling'
  <2>1. \A s \in Passed' : \A c \in Awaited(s) : c \in DOMAIN got /\ got[c] # Zero
    BY <1>9 DEF RunInv, Calling
  <2> QED
    BY <1>1, <1>5, <1>7, <1>8, <2>1 DEF Calling, InFlight
<1> QED
  BY <1>2, <1>3, <1>4, <1>10 DEF RunInv

LEMMA AwaitTraceAll ==
  ASSUME RunInv, phase = "fetch", trace \notin {"none", "done"},
         \A c \in Awaited(trace) : Good(c),
         trace' = TraceAfter(trace),
         other' = (IF rpc = "jerigon" /\ trace' = "done" THEN "target" ELSE other),
         Renew(Awaited(trace') \cup (IF other' # other THEN Awaited(other') ELSE {}),
               Awaited(trace)),
         UNCHANGED <<node, start, phase, at, to, yielded, got, blocks, fault>>
  PROVE  RunInv'
<1> DEFINE started == Awaited(trace') \cup (IF other' # other THEN Awaited(other') ELSE {})
<1>1. trace \in TraceStage /\ other \in OtherStage
  BY DEF RunInv, FetchInv, Stages
<1>2. trace' \in TraceStage /\ other' \in OtherStage
  BY <1>1 DEF TraceAfter, TraceStage, OtherStage
<1>3. started \subseteq Calls /\ Awaited(trace) \subseteq Calls
  BY <1>1, <1>2, AwaitedCalls
<1>4. FetchInv'
  BY <1>2, <1>3, RenewStages DEF Uses, RunInv, Stages
<1>5. rpc' = rpc /\ phase' = phase /\ rpc \in {"jerigon", "native"}
  BY DEF start, RunInv, FetchTypes
<1>6. /\ rpc = "jerigon" => trace \in {"traces", "witness"} /\ other = "none"
      /\ rpc = "native" => trace \in {"block", "txs", "prev", "proofs"}
  BY DEF RunInv, Lanes
<1>7. Lanes'
  BY <1>5, <1>6 DEF Lanes, TraceAfter
<1>8. Current = {trace, other} \ {"none", "done"} /\ Current' = {trace', other'} \ {"none", "done"}
  BY <1>5 DEF Current
<1>9. trace \in Current /\ Current \subseteq Current' \cup {trace}
  BY <1>5, <1>6, <1>8
<1>10. Passed' = Passed \cup {trace}
  <2>1. Passed = PassedTrace \cup PassedOther /\ Passed' = PassedTrace' \cup PassedOther'
    BY <1>5 DEF Passed
  <2>2. PassedOther' = PassedOther
    BY <1>5, <1>6 DEF PassedOther
  <2>3. PassedTrace' = PassedTrace \cup {trace}
    BY <1>5, <1>6 DEF PassedTrace, TraceAfter
  <2> QED
    BY <2>1, <2>2, <2>3
<1>11. ASSUME NEW c \in started
       PROVE  StageOf(c) \in Current' /\ c \in Awaited(StageOf(c))
  <2>1. PICK s \in {trace', other'} : c \in Awaited(s)
    OBVIOUS
  <2>2. s \in AllStages /\ s \notin {"none", "done"}
    BY <1>2, <2>1 DEF AllStages, Awaited
  <2> QED
    BY <1>8, <2>1, <2>2, StageIs
<1> HIDE DEF started
<1>12. Renew(started, Awaited(trace))
  BY DEF started
<1> QED
  BY <1>3, <1>4, <1>7, <1>9, <1>10, <1>11, <1>12, StageOver

LEMMA AwaitOtherAll ==
  ASSUME RunInv, AwaitOther, ~Return("err")
  PROVE  RunInv'
<1>1. /\ phase = "fetch" /\ other \notin {"none", "done"}
      /\ \A c \in Awaited(other) : Good(c)
      /\ other' = OtherAfter(other) /\ trace' = trace
      /\ Renew(Awaited(other'), Awaited(other))
      /\ UNCHANGED <<node, start, phase, at, to, yielded, got, blocks, fault>>
  BY DEF AwaitOther
<1>2. trace \in TraceStage /\ other \in OtherStage
  BY DEF RunInv, FetchInv, Stages
<1>3. other' \in OtherStage /\ other' # "none"
  BY <1>1, <1>2 DEF OtherAfter, OtherStage
<1>4. Awaited(other') \subseteq Calls /\ Awaited(other) \subseteq Calls
  BY <1>2, <1>3, AwaitedCalls
<1>5. FetchInv'
  BY <1>1, <1>2, <1>3, <1>4, RenewStages DEF Uses, RunInv, Stages
<1>6. rpc' = rpc /\ phase' = phase
  BY <1>1 DEF start
<1>7. Lanes'
  BY <1>1, <1>6 DEF RunInv, Lanes
<1>8. Current = {trace, other} \ {"none", "done"} /\ Current' = {trace', other'} \ {"none", "done"}
  BY <1>1, <1>6 DEF Current
<1>9. Passed' = Passed \cup {other}
  <2>1. Passed = PassedTrace \cup PassedOther /\ Passed' = PassedTrace' \cup PassedOther'
    BY <1>1, <1>6 DEF Passed
  <2>2. PassedTrace' = PassedTrace
    BY <1>1, <1>6 DEF PassedTrace
  <2>3. PassedOther' = PassedOther \cup {other}
    BY <1>1, <1>2 DEF PassedOther, OtherAfter, OtherStage
  <2> QED
    BY <2>1, <2>2, <2>3
<1>10. ASSUME NEW c \in Awaited(other')
       PROVE  StageOf(c) \in Current' /\ c \in Awaited(StageOf(c))
  <2>1. other' \in AllStages /\ other' # "done"
    BY <1>3, <1>10 DEF AllStages, Awaited
  <2> QED
    BY <1>3, <1>8, <1>10, <2>1, StageIs
<1> QED
  BY <1>1, <1>4, <1>5, <1>7, <1>8, <1>9, <1>10, StageOver

(* When both lanes are done, everything was answered well, and nothing is  *)
(* in flight.                                                              *)
LEMMA Complete ==
  ASSUME RunInv, phase = "fetch", trace = "done", other = "done"
  PROVE  /\ InFlight = {}
         /\ \A c \in DOMAIN got : got[c] # Zero /\ (c[1] # "chainId" => Chained(c))
         /\ <<"target", 0>> \in DOMAIN got /\ Headers \subseteq DOMAIN got
         /\ <<"traces", 0>> \in DOMAIN got \/ <<"block", 0>> \in DOMAIN got
<1>1. Current = {} /\ Passed = PassedTrace \cup PassedOther
  BY DEF Current, Passed
<1>2. PassedOther = {"target", "chainId", "headers"}
  BY DEF PassedOther
<1>3. PassedTrace \in {{"traces", "witness"}, {"block", "txs", "prev", "proofs"}}
  BY DEF PassedTrace
<1>4. InFlight = {}
  BY <1>1 DEF RunInv, Calling
<1>5. ASSUME NEW c \in DOMAIN got
      PROVE  got[c] # Zero /\ (c[1] # "chainId" => Chained(c))
  <2>1. StageOf(c) \in Passed /\ c \in Awaited(StageOf(c))
    BY <1>1 DEF RunInv, Calling
  <2>2. got[c] # Zero
    BY <2>1 DEF RunInv, Calling
  <2>3. c[1] \notin {"checkpoint", "tip"}
    <3>1. StageOf(c) \notin {"checkpoint", "tip"}
      BY <1>1, <1>2, <1>3, <2>1
    <3> QED
      BY <3>1 DEF StageOf
  <2>4. c[1] # "chainId" => Numbered(c)
    BY <2>3 DEF Numbered
  <2> QED
    BY <2>2, <2>4 DEF RunInv, Contents
<1>6. \A s \in Passed : Awaited(s) \subseteq DOMAIN got
  BY DEF RunInv, Calling
<1>7. <<"target", 0>> \in DOMAIN got /\ Headers \subseteq DOMAIN got
  <2>1. <<"target", 0>> \in Awaited("target") /\ Awaited("headers") = Headers
    BY DEF Awaited
  <2> QED
    BY <1>1, <1>2, <1>6, <2>1
<1>8. <<"traces", 0>> \in DOMAIN got \/ <<"block", 0>> \in DOMAIN got
  <2>1. <<"traces", 0>> \in Awaited("traces") /\ <<"block", 0>> \in Awaited("block")
    BY DEF Awaited
  <2> QED
    BY <1>1, <1>3, <1>6, <2>1
<1> QED
  BY <1>4, <1>5, <1>7, <1>8

(* The previous hashes of a block, at their places. *)
LEMMA Previous ==
  ASSUME RunInv, phase = "fetch", trace = "done", other = "done", NEW k \in 1 .. Window
  PROVE  /\ PrevHashes[Window + 1 - k] \in Hashes
         /\ Len(PrevHashes[Window + 1 - k]) = IF k <= at THEN at + 1 - k ELSE 0
         /\ k <= at /\ at < low => PrevHashes[Window + 1 - k] = HashAt(chain, at - k)
<1> DEFINE c == <<"header", k>>
           hash == PrevHashes[Window + 1 - k]
<1>1. /\ chain \in Hashes /\ Len(chain) \in Nat /\ at \in Nat /\ Window \in Nat /\ low \in Nat
      /\ k \in Nat /\ k > 0
  BY TopAssumption, FetchAssumption DEF RunInv, FetchTypes, Hashes
<1>2. Window + 1 - k \in 1 .. Window /\ Slot(Window + 1 - k) = k
  BY <1>1 DEF Slot
<1>3. hash = IF c \in Headers THEN Parent(got[c]) ELSE Zero
  BY <1>2 DEF PrevHashes
<1>4. c \in Headers <=> k <= at + 1
  <2>1. c \in Headers => k <= at + 1
    <3> SUFFICES ASSUME c \in Headers PROVE k <= at + 1
      OBVIOUS
    <3>1. PICK j \in 1 .. Window : j <= at + 1 /\ c = <<"header", j>>
      BY DEF Headers
    <3>2. j = k
      BY <3>1
    <3> QED
      BY <3>1, <3>2
  <2> QED
    BY <2>1 DEF Headers
<1> HIDE DEF hash, c
<1>5. CASE k > at + 1
  <2>1. hash = Zero
    BY <1>1, <1>3, <1>4, <1>5
  <2>2. Zero \in Hashes /\ Len(Zero) = 0
    BY DEF Zero, Hashes
  <2> QED
    BY <1>1, <1>5, <2>1, <2>2 DEF hash
<1>6. CASE k <= at + 1
  <2>1. c \in DOMAIN got /\ c[1] # "chainId"
    BY <1>4, <1>6, Complete DEF c
  <2>2. got[c] # Zero /\ Chained(c) /\ got[c] \in Hashes
    BY <2>1, Complete DEF RunInv, Contents
  <2>3. Asks(c) = at + 1 - k
    BY DEF Asks, c
  <2> DEFINE h == at + 1 - k
  <2>4. h \in Nat
    BY <1>1, <1>6
  <2>5. Len(got[c]) = h + 1 /\ (h < low => h < Len(chain) /\ got[c] = HashAt(chain, h))
    BY <2>2, <2>3 DEF Chained
  <2> HIDE DEF h
  <2>6. hash = Parent(got[c])
    BY <1>3, <1>4, <1>6
  <2>7. hash \in Hashes /\ Len(hash) = h
    <3>1. hash \in Hashes /\ Len(hash) = Len(got[c]) - 1
      BY <2>2, <2>6, ParentTyped
    <3> QED
      BY <2>4, <2>5, <3>1
  <2>8. h < low => hash = SubSeq(chain, 1, h)
    BY <1>1, <2>4, <2>5, <2>6, HashTyped
  <2>9. k <= at /\ at < low => h < low /\ HashAt(chain, at - k) = SubSeq(chain, 1, h)
    <3>1. (at - k) + 1 = h
      BY <1>1 DEF h
    <3>2. h <= at
      BY <1>1 DEF h
    <3> QED
      BY <1>1, <2>4, <3>1, <3>2 DEF HashAt
  <2>10. Len(hash) = IF k <= at THEN at + 1 - k ELSE 0
    BY <1>1, <1>6, <2>7 DEF h
  <2> QED
    BY <2>7, <2>8, <2>9, <2>10 DEF hash
<1> QED
  BY <1>1, <1>5, <1>6

(* The hashes that a block's traces and its pre-state speak of. *)
LEMMA Spoken ==
  ASSUME RunInv, phase = "fetch", trace = "done", other = "done"
  PROVE  /\ Len(got[<<"target", 0>>]) = at + 1
         /\ at < low => at < Len(chain) /\ got[<<"target", 0>>] = HashAt(chain, at)
         /\ at < low => {got[c] : c \in DOMAIN got \cap Within} = {HashAt(chain, at)}
         /\ at < low => {got[c] : c \in DOMAIN got \cap Before} \subseteq {HashAt(chain, at - 1)}
<1>1. /\ Len(chain) \in 1 .. MaxHeight + 1 /\ MaxHeight \in Nat /\ MaxHeight < Top
      /\ peak \in 1 .. MaxHeight + 1 /\ at \in Nat /\ low \in Nat /\ Top \in Nat
  BY TopAssumption, FetchAssumption DEF RunInv, FetchTypes
<1>2. \A c \in DOMAIN got : c[1] # "chainId" => Chained(c)
  BY Complete
<1>3. /\ Len(got[<<"target", 0>>]) = at + 1
      /\ at < low => at < Len(chain) /\ got[<<"target", 0>>] = HashAt(chain, at)
  <2>1. Chained(<<"target", 0>>)
    BY <1>2, Complete
  <2>2. Asks(<<"target", 0>>) = at
    BY DEF Asks
  <2> QED
    BY <2>1, <2>2 DEF Chained
<1>4. ASSUME at < low, NEW c \in DOMAIN got, c \in Within
      PROVE  got[c] = HashAt(chain, at)
  <2>1. c[1] \in {"traces", "witness", "block", "receipt", "read", "diff", "nextProof"}
    BY <1>4 DEF Within, TxCalls
  <2>2. Asks(c) = at /\ Chained(c)
    BY <1>2, <2>1 DEF Asks
  <2> QED
    BY <1>4, <2>2 DEF Chained
<1>5. \E c \in DOMAIN got : c \in Within
  BY Complete DEF Within
<1>6. ASSUME at < low, NEW c \in DOMAIN got, c \in Before
      PROVE  got[c] = HashAt(chain, at - 1)
  <2>1. c[1] \in {"prev", "proof"}
    BY <1>6 DEF Before
  <2>2. Asks(c) = Pred(at) /\ Chained(c)
    BY <1>2, <2>1 DEF Asks
  <2>3. Pred(at) < peak
    BY <2>2 DEF Chained
  <2>4. Pred(at) = at - 1
    BY <1>1, <2>3 DEF Pred
  <2> QED
    BY <1>1, <1>6, <2>2, <2>4 DEF Chained
<1>7. at < low => {got[c] : c \in DOMAIN got \cap Within} = {HashAt(chain, at)}
  BY <1>4, <1>5
<1>8. at < low => {got[c] : c \in DOMAIN got \cap Before} \subseteq {HashAt(chain, at - 1)}
  BY <1>6
<1> QED
  BY <1>3, <1>7, <1>8

LEMMA AssembleAll ==
  ASSUME RunInv, Assemble
  PROVE  RunInv'
<1> DEFINE b == [cur   |-> got[<<"target", 0>>],
                 prev  |-> PrevHashes,
                 trace |-> {got[c] : c \in DOMAIN got \cap Within},
                 pre   |-> {got[c] : c \in DOMAIN got \cap Before},
                 low   |-> low]
<1>1. /\ chain' = chain /\ low' = Top + 1 /\ peak' = peak /\ forks' = forks
      /\ program' = program /\ arg' = arg /\ FetchArgs' = FetchArgs /\ rpc' = rpc /\ interval' = interval /\ checkpoint' = checkpoint /\ phase' = "stream"
      /\ at' = at + 1 /\ to' = to /\ yielded' = yielded /\ blocks' = Append(blocks, b)
      /\ got' = NoAnswers /\ failures' = failures /\ refusals' = refusals
      /\ phase = "fetch" /\ trace = "done" /\ other = "done"
      /\ trace' = "none" /\ other' = "none" /\ Renew({}, InFlight)
  BY DEF Assemble, start, fault, FetchArgs
<1>2. b \in Block
  <2>1. \A c \in DOMAIN got : got[c] \in Hashes
    BY DEF RunInv, Contents
  <2>2. got[<<"target", 0>>] \in Hashes
    BY <1>1, <2>1, Complete
  <2>3. PrevHashes \in [1 .. Window -> Hashes]
    <3>1. Window \in Nat
      BY FetchAssumption
    <3>2. ASSUME NEW i \in 1 .. Window PROVE PrevHashes[i] \in Hashes
      <4> DEFINE k == Window + 1 - i
      <4>1. k \in 1 .. Window /\ Window + 1 - k = i
        BY <3>1
      <4> HIDE DEF k
      <4> QED
        BY <1>1, <4>1, Previous
    <3> QED
      BY <3>2 DEF PrevHashes
  <2>4. low \in 0 .. Top + 1
    BY DEF RunInv, FetchTypes
  <2> QED
    BY <2>1, <2>2, <2>3, <2>4 DEF Block
<1>3. /\ b.low = low /\ b.cur = got[<<"target", 0>>] /\ b.prev = PrevHashes
      /\ b.trace = {got[c] : c \in DOMAIN got \cap Within}
      /\ b.pre = {got[c] : c \in DOMAIN got \cap Before}
  OBVIOUS
<1> HIDE DEF b
<1>4. /\ blocks' \in Seq(Block) /\ Len(blocks') = Len(blocks) + 1 /\ Len(blocks) \in Nat
      /\ \A i \in 1 .. Len(blocks) : blocks'[i] = blocks[i]
      /\ blocks'[Len(blocks) + 1] = b
  <2>1. blocks \in Seq(Block)
    BY DEF RunInv, FetchTypes
  <2> QED
    BY <1>1, <1>2, <2>1
<1>5. /\ interval.kind = "range" /\ interval.to = to /\ at = interval.from + Len(blocks)
      /\ Len(yielded) = Len(blocks) + 1 /\ at < to /\ program = "prover_input"
      /\ \A i \in 1 .. Len(yielded) : yielded[i] + 1 = interval.from + i
  BY <1>1 DEF RunInv, Stream
<1>6. /\ at \in Nat /\ to \in 0 .. Top /\ interval.from \in Nat /\ Top \in Nat
      /\ Len(chain) \in Nat /\ low \in Nat /\ chain \in Hashes
  BY TopAssumption DEF RunInv, FetchTypes, Parsed, Interval
<1>7. yielded[Len(yielded)] = at
  <2>1. Len(yielded) \in 1 .. Len(yielded)
    BY <1>4, <1>5
  <2>2. yielded[Len(yielded)] \in 0 .. Top
    BY <2>1, ElementOfSeq DEF RunInv, FetchTypes
  <2>3. yielded[Len(yielded)] + 1 = interval.from + Len(yielded)
    BY <1>5, <2>1
  <2> QED
    BY <1>4, <1>5, <1>6, <2>2, <2>3
<1>8. \A i \in 1 .. Len(blocks') : i \in 1 .. Len(blocks) \/ i = Len(yielded)
  BY <1>4, <1>5
<1>9. blocks'[Len(yielded)] = b
  BY <1>4, <1>5
<1>10. FetchInv'
  <2>1. Stages'
    BY <1>1 DEF Stages, TraceStage, OtherStage
  <2> QED
    BY <1>1, <2>1, RenewStages, InFlightCalls DEF Uses, RunInv
<1>11. FetchTypes'
  <2>1. at \in Nat /\ to \in 0 .. Top /\ at < to /\ Top \in Nat
    BY <1>5, <1>6
  <2>2. at + 1 \in 0 .. Top /\ Top + 1 \in 0 .. Top + 1
    BY <2>1
  <2> QED
    BY <1>1, <1>4, <2>2 DEF RunInv, FetchTypes, Parsed
<1>12. Lanes'
  BY <1>1 DEF Lanes
<1>13. Calling' /\ Contents'
  <2>1. InFlight' = {} /\ DOMAIN got' = {} /\ Passed' = {}
    BY <1>1, Renewed, NothingAnswered DEF Passed
  <2> QED
    BY <2>1, Quiet
<1>14. Stream'
  <2>1. at + 1 = interval.from + Len(blocks') /\ at + 1 <= to
        /\ Len(yielded) = Len(blocks') + 0 /\ Len(blocks') <= Len(yielded)
    <3> DEFINE l     == Len(blocks)
               more  == Len(blocks')
               count == Len(yielded)
               first == interval.from
    <3>1. /\ l \in Nat /\ more = l + 1 /\ count = l + 1 /\ at = first + l /\ first \in Nat
          /\ at < to /\ to \in 0 .. Top /\ Top \in Nat
      BY <1>4, <1>5, <1>6
    <3> HIDE DEF l, more, count, first
    <3>2. at + 1 = first + more /\ at + 1 <= to /\ count = more + 0 /\ more <= count
      BY <3>1
    <3> QED
      BY <3>2 DEF more, count, first
  <2> QED
    BY <1>1, <1>5, <2>1 DEF Stream, StreamIsInterval
<1>15. at < low =>
         /\ at < Len(chain) /\ b.cur = HashAt(chain, at)
         /\ \A k \in 1 .. Window : k <= at => b.prev[Window + 1 - k] = HashAt(chain, at - k)
         /\ b.trace = {HashAt(chain, at)}
         /\ b.pre \subseteq {HashAt(chain, at - 1)}
  BY <1>1, <1>3, Previous, Spoken
<1>16. HashesInPlace'
  <2>1. /\ Len(b.cur) = at + 1
        /\ \A k \in 1 .. Window : Len(b.prev[Window + 1 - k]) = IF k <= at THEN at + 1 - k ELSE 0
    BY <1>1, <1>3, Previous, Spoken
  <2> QED
    BY <1>1, <1>4, <1>7, <1>8, <1>9, <2>1 DEF RunInv, Fetched, HashesInPlace
<1>17. ASSUME at < low
       PROVE  /\ \A k \in 1 .. Window : k <= at => b.prev[Window + 1 - k] = HashAt(b.cur, at - k)
              /\ b.trace = {b.cur}
              /\ b.pre \subseteq {Parent(b.cur)}
  <2>1. at < Len(chain) /\ b.cur = HashAt(chain, at)
    BY <1>15, <1>17
  <2>2. Parent(b.cur) = HashAt(chain, at - 1)
    <3>1. Parent(b.cur) = SubSeq(chain, 1, at)
      BY <1>6, <2>1, HashTyped
    <3>2. (at - 1) + 1 = at
      BY <1>6
    <3> QED
      BY <3>1, <3>2 DEF HashAt
  <2>3. ASSUME NEW k \in 1 .. Window, k <= at
        PROVE  HashAt(b.cur, at - k) = HashAt(chain, at - k)
    <3>1. at - k \in Nat /\ at - k <= at
      BY <1>6, <2>3, FetchAssumption
    <3> QED
      BY <1>6, <2>1, <3>1, AncestorHash
  <2> QED
    BY <1>15, <1>17, <2>1, <2>2, <2>3
<1>18. ASSUME at < low, NEW i \in 1 .. Len(blocks), i = Len(blocks), at - 1 < blocks[i].low
       PROVE  Parent(b.cur) = blocks[i].cur
  <2>1. i \in 1 .. Len(yielded) /\ i + 1 = Len(yielded)
    BY <1>4, <1>5, <1>18
  <2>2. yielded[i] \in 0 .. Top
    BY <2>1, ElementOfSeq DEF RunInv, FetchTypes
  <2>3. yielded[i] + 1 = interval.from + i /\ at = interval.from + i
    BY <1>5, <1>18, <2>1
  <2>4. yielded[i] = at - 1 /\ at - 1 \in Nat
    <3> DEFINE y     == yielded[i]
               first == interval.from
    <3>1. y \in 0 .. Top /\ y + 1 = first + i /\ at = first + i /\ at \in Nat /\ Top \in Nat
      BY <1>6, <2>2, <2>3
    <3> HIDE DEF y, first
    <3>2. y = at - 1 /\ at - 1 \in Nat
      BY <3>1
    <3> QED
      BY <3>2 DEF y
  <2>5. blocks[i].cur = HashAt(chain, at - 1)
    <3>1. yielded[i] < blocks[i].low /\ yielded[i] < low
      BY <1>6, <1>18, <2>4
    <3> QED
      BY <1>18, <2>4, <3>1 DEF RunInv, Fetched, LastBlock
  <2>6. Parent(b.cur) = SubSeq(chain, 1, at)
    BY <1>6, <1>15, <1>18, HashTyped
  <2>7. (at - 1) + 1 = at
    BY <1>6
  <2> QED
    BY <2>5, <2>6, <2>7 DEF HashAt
<1>19. OneChain'
  <2> SUFFICES ASSUME NEW i \in 1 .. Len(blocks'), yielded[i] < blocks'[i].low
               PROVE  /\ \A k \in 1 .. Window : k <= yielded[i] =>
                            blocks'[i].prev[Window + 1 - k] = HashAt(blocks'[i].cur, yielded[i] - k)
                      /\ blocks'[i].trace = {blocks'[i].cur}
                      /\ blocks'[i].pre \subseteq {Parent(blocks'[i].cur)}
                      /\ i > 1 /\ yielded[i] - 1 < blocks'[i - 1].low =>
                           Parent(blocks'[i].cur) = blocks'[i - 1].cur
    BY <1>1 DEF OneChain
  <2>1. CASE i \in 1 .. Len(blocks)
    <3>1. blocks'[i] = blocks[i] /\ (i > 1 => blocks'[i - 1] = blocks[i - 1])
      BY <1>4, <2>1
    <3> QED
      BY <2>1, <3>1 DEF RunInv, Fetched, OneChain
  <2>2. CASE i = Len(yielded)
    <3>1. blocks'[i] = b /\ yielded[i] = at /\ at < low
      BY <1>3, <1>7, <1>9, <2>2
    <3>2. ASSUME i > 1, at - 1 < blocks'[i - 1].low PROVE Parent(b.cur) = blocks'[i - 1].cur
      <4>1. i - 1 = Len(blocks) /\ i - 1 \in 1 .. Len(blocks)
        BY <1>4, <1>5, <2>2, <3>2
      <4>2. blocks'[i - 1] = blocks[i - 1]
        BY <1>4, <4>1
      <4> QED
        BY <1>18, <3>1, <3>2, <4>1, <4>2
    <3> QED
      BY <1>17, <3>1, <3>2
  <2> QED
    BY <1>8, <2>1, <2>2
<1>20. LastBlock'
  <2> SUFFICES ASSUME NEW i \in 1 .. Len(blocks'), i = Len(blocks'), yielded[i] < blocks'[i].low
               PROVE  yielded[i] < Len(chain) /\ blocks'[i].cur = HashAt(chain, yielded[i])
    BY <1>1 DEF LastBlock
  <2>1. i = Len(yielded)
    BY <1>4, <1>5
  <2> QED
    BY <1>3, <1>7, <1>9, <1>15, <2>1
<1>21. Fetched'
  BY <1>16, <1>19, <1>20 DEF Fetched
<1> QED
  BY <1>10, <1>11, <1>12, <1>13, <1>14, <1>21 DEF RunInv

(* The stream that follows the chain starts, and asks for the tip. *)
LEMMA FollowAll ==
  ASSUME RunInv, phase = "parse", program = "follow", arg' = <<>>,
         NEW i, Parsed(i), i.kind = "follow",
         interval' = i, at' = i.from, phase' = "poll", Renew({<<"tip", 0>>}, {}),
         UNCHANGED <<node, program, rpc, checkpoint, to, yielded, trace, other, got, blocks, fault>>
  PROVE  RunInv'
<1>1. /\ chain' = chain /\ low' = low /\ peak' = peak /\ forks' = forks
      /\ program' = program /\ rpc' = rpc /\ checkpoint' = checkpoint /\ to' = to /\ yielded' = yielded
      /\ trace' = trace /\ other' = other /\ got' = got /\ blocks' = blocks
      /\ failures' = failures /\ refusals' = refusals
  BY DEF node, fault
<1>2. FetchInv'
  <2>1. Stages' /\ {<<"tip", 0>>} \in SUBSET Calls
    BY <1>1, CallsAssumption DEF RunInv, FetchInv, Stages
  <2> QED
    BY <2>1, RenewStages DEF Uses, RunInv
<1>3. i.from \in 0 .. Top
  BY DEF Parsed, Interval
<1>4. FetchTypes'
  <2>1. Parsed(interval)'
    BY DEF Parsed
  <2> QED
    BY <1>1, <1>3, <2>1 DEF RunInv, FetchTypes
<1>5. yielded = <<>> /\ blocks = <<>> /\ Len(yielded) = 0 /\ Len(blocks) = 0
  <2>1. yielded = <<>> /\ blocks = <<>>
    BY DEF RunInv, Stream
  <2> QED
    BY <2>1
<1>6. Lanes' /\ Fetched'
  BY <1>1 DEF Lanes, RunInv, Fetched, HashesInPlace, OneChain, LastBlock
<1>7. InFlight = {} /\ DOMAIN got = {}
  <2>1. Current = {} /\ Passed = {}
    BY DEF Current, Passed
  <2> QED
    BY <2>1 DEF RunInv, Calling
<1>8. Calling'
  <2>1. Current' = {"tip"} /\ Passed' = {}
    BY DEF Current, Passed
  <2>2. InFlight' = {<<"tip", 0>>}
    BY <1>7, Renewed
  <2>3. futures'[<<"tip", 0>>].state # "answered"
    BY Renewed
  <2>4. StageOf(<<"tip", 0>>) = "tip" /\ Awaited("tip")' = {<<"tip", 0>>}
    BY DEF StageOf, Awaited
  <2> QED
    BY <1>1, <1>7, <2>1, <2>2, <2>3, <2>4 DEF Calling, Awaited, InFlight
<1>9. Contents'
  BY <1>1, <1>7 DEF Contents
<1>10. Stream'
  <2>1. i.from = i.from + 0
    BY <1>3, TopAssumption
  <2>2. StreamIsInterval'
    BY <1>1, <1>5 DEF StreamIsInterval
  <2> QED
    BY <1>1, <1>5, <2>1, <2>2 DEF Stream
<1> QED
  BY <1>2, <1>4, <1>6, <1>8, <1>9, <1>10 DEF RunInv

(* The tip is there: the number is counted up, or the tip asked for again. *)
LEMMA PollAll ==
  ASSUME RunInv, Poll
  PROVE  RunInv'
<1> DEFINE tip == <<"tip", 0>>
<1>1. /\ chain' = chain /\ low' = low /\ peak' = peak /\ forks' = forks
      /\ program' = program /\ arg' = arg /\ FetchArgs' = FetchArgs /\ rpc' = rpc /\ interval' = interval /\ checkpoint' = checkpoint /\ phase' = phase
      /\ to' = to /\ trace' = trace /\ other' = other /\ blocks' = blocks
      /\ failures' = failures /\ refusals' = refusals
      /\ phase = "poll" /\ Good(tip)
      /\ at' = (IF at < Tip THEN at + 1 ELSE at)
      /\ yielded' = (IF at < Tip THEN Append(yielded, at') ELSE yielded)
      /\ got' = NoAnswers /\ Renew({tip}, {})
  BY DEF Poll, node, start, fault, FetchArgs
<1>2. /\ program = "follow" /\ blocks = <<>> /\ at = interval.from + Len(yielded)
      /\ Len(blocks) = 0
      /\ \A i \in 1 .. Len(yielded) : yielded[i] = interval.from + i
      /\ yielded # <<>> => at < peak
  <2>1. program = "follow" /\ blocks = <<>>
    BY <1>1 DEF RunInv, Stream
  <2>2. Len(blocks) = 0
    BY <2>1
  <2> QED
    BY <1>1, <2>1, <2>2 DEF RunInv, Stream, StreamIsInterval
<1>3. /\ at \in Nat /\ interval.from \in Nat /\ Top \in Nat /\ peak \in 1 .. MaxHeight + 1
      /\ MaxHeight \in Nat /\ MaxHeight < Top /\ yielded \in Seq(0 .. Top) /\ Len(yielded) \in Nat
      /\ at <= Top
  BY TopAssumption, FetchAssumption DEF RunInv, FetchTypes, Parsed, Interval
<1>4. Tip \in Int /\ Tip < peak
  <2>1. Current = {"tip"} /\ Passed = {}
    BY <1>1 DEF Current, Passed
  <2>2. tip \in InFlight /\ futures[tip].state = "answered"
    BY <1>1 DEF Good, IsInState
  <2>3. tip \in DOMAIN got
    BY <2>2 DEF RunInv, Calling
  <2>4. got[tip] \in Hashes /\ Len(got[tip]) <= peak
    BY <2>3 DEF RunInv, Contents
  <2>5. Len(got[tip]) \in Nat
    BY <2>4 DEF Hashes
  <2> QED
    BY <1>3, <2>4, <2>5 DEF Tip
<1>5. /\ at' \in 0 .. Top /\ yielded' \in Seq(0 .. Top) /\ at' = interval.from + Len(yielded')
      /\ \A i \in 1 .. Len(yielded') : yielded'[i] = interval.from + i
      /\ yielded' # <<>> => at' < peak
      /\ Len(yielded') \in Nat
  <2>1. CASE at < Tip
    <3>1. at + 1 \in 0 .. Top /\ at + 1 < peak
      BY <1>3, <1>4, <2>1
    <3>2. at' = at + 1 /\ yielded' = Append(yielded, at + 1)
      BY <1>1, <2>1
    <3> DEFINE S == 0 .. Top
               a == at + 1
    <3>3. yielded \in Seq(S) /\ a \in S /\ yielded' = Append(yielded, a)
      BY <1>3, <3>1, <3>2
    <3> HIDE DEF S, a
    <3>4. /\ yielded' \in Seq(S) /\ Len(yielded') = Len(yielded) + 1
          /\ \A i \in 1 .. Len(yielded) : yielded'[i] = yielded[i]
          /\ yielded'[Len(yielded) + 1] = a
      BY <3>3
    <3>5. \A i \in 1 .. Len(yielded') : i \in 1 .. Len(yielded) \/ i = Len(yielded) + 1
      BY <1>3, <3>4
    <3>6. a = interval.from + (Len(yielded) + 1)
      <4> DEFINE count == Len(yielded)
                 first == interval.from
      <4>1. at = first + count /\ at \in Nat /\ first \in Nat /\ count \in Nat
        BY <1>2, <1>3
      <4> HIDE DEF count, first
      <4>2. at + 1 = first + (count + 1)
        BY <4>1
      <4> QED
        BY <4>2 DEF a, count, first
    <3>7. \A i \in 1 .. Len(yielded') : yielded'[i] = interval.from + i
      BY <1>2, <3>4, <3>5, <3>6
    <3>8. Len(yielded') \in Nat
      BY <1>3, <3>4
    <3> QED
      BY <3>1, <3>2, <3>4, <3>6, <3>7, <3>8 DEF S, a
  <2>2. CASE ~(at < Tip)
    BY <1>1, <1>2, <1>3, <2>2
  <2> QED
    BY <2>1, <2>2
<1>6. FetchInv'
  <2>1. Stages' /\ {tip} \in SUBSET Calls
    BY <1>1, CallsAssumption DEF RunInv, FetchInv, Stages
  <2> QED
    BY <1>1, <2>1, RenewStages DEF Uses, RunInv
<1>7. FetchTypes'
  BY <1>1, <1>5 DEF RunInv, FetchTypes, Parsed
<1>8. Lanes' /\ Fetched'
  BY <1>1, <1>2 DEF Lanes, Fetched, HashesInPlace, OneChain, LastBlock
<1>9. Calling'
  <2>1. Current = {"tip"} /\ Current' = {"tip"} /\ Passed' = {}
    BY <1>1 DEF Current, Passed
  <2>2. StageOf(tip) = "tip" /\ Awaited("tip") = {tip} /\ Awaited("tip")' = {tip}
    BY DEF StageOf, Awaited
  <2>3. \A c \in InFlight : c = tip
    <3>1. \A c \in InFlight : c \in Awaited("tip")
      BY <2>1 DEF RunInv, Calling
    <3> QED
      BY <2>2, <3>1
  <2>4. InFlight' = {tip} /\ futures'[tip].state # "answered"
    BY <1>1, <2>3, Renewed
  <2>5. DOMAIN got' = {}
    BY <1>1, NothingAnswered
  <2> QED
    BY <2>1, <2>2, <2>4, <2>5 DEF Calling, Awaited, InFlight
<1>10. Contents'
  BY <1>1, NothingAnswered DEF Contents
<1>11. Stream'
  <2>1. StreamIsInterval'
    BY <1>1, <1>5 DEF StreamIsInterval
  <2>2. Len(blocks') <= Len(yielded')
    BY <1>1, <1>2, <1>5
  <2> QED
    BY <1>1, <1>2, <1>5, <2>1, <2>2 DEF Stream
<1> QED
  BY <1>6, <1>7, <1>8, <1>9, <1>10, <1>11 DEF RunInv

LEMMA RunInitially == Init => RunInv
<1> SUFFICES ASSUME Init PROVE RunInv
  OBVIOUS
<1>1. FetchInv
  BY FetchInitially
<1>2. /\ chain = [h \in 1 .. StartHeight + 1 |-> 0] /\ peak = StartHeight + 1
      /\ low = Top + 1 /\ forks = 0
      /\ program \in Programs /\ arg \in Args \cup FetchArgs /\ (program = "fetch" => arg \in FetchArgs)
      /\ rpc = "jerigon"
      /\ interval = Error /\ checkpoint = 0 /\ phase = "parse" /\ at = 0 /\ to = 0
      /\ yielded = <<>> /\ trace = "none" /\ other = "none" /\ got = NoAnswers /\ blocks = <<>>
      /\ failures = 0 /\ refusals = 0
  BY DEF Init
<1>3. FetchTypes
  <2>1. /\ StartHeight \in Nat /\ MaxHeight \in Nat /\ StartHeight <= MaxHeight
        /\ MaxReorgs \in Nat /\ MaxFaults \in Nat /\ Top \in Nat
    BY FetchAssumption, TopAssumption
  <2>2. chain \in Seq(0 .. MaxReorgs) /\ Len(chain) = StartHeight + 1
    <3> DEFINE S == 0 .. MaxReorgs
    <3>1. 0 \in S
      BY <2>1
    <3> HIDE DEF S
    <3>2. chain \in Seq(S) /\ Len(chain) = StartHeight + 1
      BY <1>2, <2>1, <3>1
    <3> QED
      BY <3>2 DEF S
  <2>3. Parsed(interval)
    BY <1>2, ErrorParsed
  <2>4. blocks \in Seq(Block) /\ yielded \in Seq(0 .. Top)
    BY <1>2
  <2> QED
    BY <1>2, <2>1, <2>2, <2>3, <2>4 DEF FetchTypes, Hashes
<1>4. Lanes
  BY <1>2 DEF Lanes
<1>5. InFlight = {} /\ DOMAIN got = {}
  BY <1>2, NothingAnswered DEF Init, RetryInit, InFlight
<1>6. Calling /\ Contents
  <2>1. Passed = {}
    BY <1>2 DEF Passed
  <2> QED
    BY <1>5, <2>1 DEF Calling, Contents
<1>7. Len(yielded) = 0 /\ Len(blocks) = 0
  BY <1>2
<1>8. Stream
  BY <1>2, <1>7 DEF Stream, StreamIsInterval, Returned
<1>9. Fetched
  BY <1>7 DEF Fetched, HashesInPlace, OneChain, LastBlock
<1> QED
  BY <1>1, <1>3, <1>4, <1>6, <1>8, <1>9 DEF RunInv

LEMMA ArgTyped ==
  ASSUME arg \in Args \cup FetchArgs \cup {<<>>}
  PROVE  arg \in Seq(Token)
<1>1. Args \subseteq Seq(Token)
  BY FetchAssumption
<1>2. <<>> \in Seq(Token)
  OBVIOUS
<1>3. FetchArgs \subseteq Seq(Token)
  <2>1. \A first, last \in Numbers : Num(first) \in Token /\ Num(last) \in Token
    BY FetchAssumption DEF Token
  <2>2. \A a, b \in Token : <<a, b>> \in Seq(Token)
    OBVIOUS
  <2> SUFFICES ASSUME NEW s \in FetchArgs PROVE s \in Seq(Token)
    OBVIOUS
  <2>3. PICK first \in Numbers, last \in Numbers : s = <<Num(first), Num(last)>>
    BY DEF FetchArgs
  <2> QED
    BY <2>1, <2>2, <2>3
<1> QED
  BY <1>1, <1>2, <1>3

(* The interval on the command line is parsed, and the leader calls        *)
(* prover_input, or the program ends.                                      *)
LEMMA LeaderAll ==
  ASSUME RunInv, StartLeader
  PROVE  RunInv'
<1>1. phase = "parse"
  BY DEF StartLeader
<1>2. phase \notin Returned
  BY <1>1 DEF Returned
<1>3. PICK checked \in BOOLEAN :
        LET i == NewInterval(arg, checked)
        IN \/ i = Error /\ Return("err")
           \/ i = Panic /\ Return("panic")
           \/ i \notin {Error, Panic} /\ \E number \in Numbers : AskForCheckpoint(i, number)
  BY DEF StartLeader
<1> DEFINE i == NewInterval(arg, checked)
<1>4. Parsed(i)
  BY ArgTyped, NewIntervalTyped DEF RunInv, FetchTypes
<1>5. \/ Return("err") \/ Return("panic")
      \/ i \notin {Error, Panic} /\ \E number \in Numbers : AskForCheckpoint(i, number)
  BY <1>3
<1> HIDE DEF i
<1>6. CASE Return("err") \/ Return("panic")
  BY <1>1, <1>2, <1>6, ReturnAll DEF Returned
<1>7. ASSUME i \notin {Error, Panic}, NEW number \in Numbers, AskForCheckpoint(i, number)
      PROVE  RunInv'
  <2>1. number \in 0 .. Top
    BY FetchAssumption
  <2>2. i.kind \notin {"error", "panic"}
    BY <1>4, <1>7 DEF Parsed
  <2> QED
    BY <1>1, <1>4, <1>7, <2>1, <2>2, AskAll
<1> QED
  BY <1>5, <1>6, <1>7

LEMMA FetcherAll ==
  ASSUME RunInv, StartFetch
  PROVE  RunInv'
<1>1. phase = "parse" /\ program = "fetch"
  BY DEF StartFetch
<1>2. phase \notin Returned
  BY <1>1 DEF Returned
<1>3. PICK first \in Numbers, last \in Numbers : arg = <<Num(first), Num(last)>>
  BY <1>1 DEF RunInv, Stream, FetchArgs
<1>4. arg[1].v = first /\ arg[2].v = last
  BY <1>3 DEF Num
<1>5. PICK checked \in BOOLEAN :
        LET i         == RangeToSucc(first, last, checked)
            overflows == i = Panic \/ (first = 0 /\ checked)
        IN \/ overflows /\ Return("panic")
           \/ ~overflows /\ \E number \in Numbers \cup {Pred(first)} : AskForCheckpoint(i, number)
  BY <1>4 DEF StartFetch
<1> DEFINE i == RangeToSucc(first, last, checked)
<1>6. first \in 0 .. Top /\ last \in 0 .. Top /\ Pred(first) \in 0 .. Top /\ Numbers \subseteq 0 .. Top
  BY FetchAssumption, TopAssumption DEF Pred
<1>7. i \in Interval /\ (i = Panic \/ i.kind = "range")
  BY <1>6, RangeTyped
<1>8. \/ Return("panic")
      \/ i # Panic /\ \E number \in Numbers \cup {Pred(first)} : AskForCheckpoint(i, number)
  BY <1>5
<1> HIDE DEF i
<1>9. CASE Return("panic")
  BY <1>1, <1>2, <1>9, ReturnAll DEF Returned
<1>10. ASSUME i # Panic, NEW number \in Numbers \cup {Pred(first)}, AskForCheckpoint(i, number)
       PROVE  RunInv'
  <2>1. number \in 0 .. Top
    BY <1>6
  <2>2. Parsed(i) /\ i.kind \notin {"error", "panic"}
    BY <1>7, <1>10 DEF Parsed
  <2> QED
    BY <1>1, <1>10, <2>1, <2>2, AskAll
<1> QED
  BY <1>8, <1>9, <1>10

LEMMA FollowerAll ==
  ASSUME RunInv, StartFollow
  PROVE  RunInv'
<1>1. phase = "parse" /\ program = "follow"
  BY DEF StartFollow
<1>2. phase \notin Returned
  BY <1>1 DEF Returned
<1>3. PICK checked \in BOOLEAN :
        LET i == NewInterval(arg, checked)
        IN \/ i.kind # "follow" /\ Return(IF i = Panic THEN "panic" ELSE "err")
           \/ /\ i.kind = "follow"
              /\ arg' = <<>> /\ interval' = i /\ at' = i.from
              /\ phase' = "poll"
              /\ Renew({<<"tip", 0>>}, {})
              /\ UNCHANGED <<node, program, rpc, checkpoint, to, yielded, trace, other, got, blocks,
                             fault>>
  BY DEF StartFollow
<1> DEFINE i == NewInterval(arg, checked)
<1>4. Parsed(i)
  BY ArgTyped, NewIntervalTyped DEF RunInv, FetchTypes
<1>5. \/ Return("err") \/ Return("panic")
      \/ /\ i.kind = "follow"
         /\ arg' = <<>> /\ interval' = i /\ at' = i.from /\ phase' = "poll" /\ Renew({<<"tip", 0>>}, {})
         /\ UNCHANGED <<node, program, rpc, checkpoint, to, yielded, trace, other, got, blocks,
                        fault>>
  BY <1>3
<1> HIDE DEF i
<1>6. CASE Return("err") \/ Return("panic")
  BY <1>1, <1>2, <1>6, ReturnAll DEF Returned
<1>7. CASE ~(Return("err") \/ Return("panic"))
  BY <1>1, <1>4, <1>5, <1>7, FollowAll
<1> QED
  BY <1>6, <1>7

LEMMA RunStep ==
  ASSUME RunInv, [Next]_vars
  PROVE  RunInv'
<1>a. "err" \in Returned /\ "panic" \in Returned /\ "ok" \in Returned
      /\ "err" # "ok" /\ "panic" # "ok"
      /\ "checkpoint" \notin Returned /\ "stream" \notin Returned /\ "fetch" \notin Returned
  BY DEF Returned
<1>1. CASE OpenStream
  <2>1. phase = "checkpoint"
    BY <1>1 DEF OpenStream
  <2>2. CASE Return("err") \/ Return("panic")
    BY <1>a, <2>1, <2>2, ReturnAll
  <2>3. CASE ~(Return("err") \/ Return("panic"))
    <3>1. PICK checked \in BOOLEAN :
            LET s == BoundedStream(interval, checked)
            IN /\ s \notin {Error, Panic}
               /\ interval' = s /\ at' = s.from /\ to' = s.to /\ phase' = "stream"
               /\ checkpoint' = 0
               /\ Renew({}, InFlight) /\ got' = NoAnswers
               /\ UNCHANGED <<node, program, arg, rpc, yielded, trace, other, blocks, fault>>
      BY <1>1, <2>3 DEF OpenStream
    <3> QED
      BY <2>1, <3>1, OpenAll
  <2> QED
    BY <2>2, <2>3
<1>2. CASE Exhausted
  BY <1>2, <1>a, ReturnAll DEF Exhausted
<1>3. CASE AwaitTrace
  <2>1. phase = "fetch"
    BY <1>3 DEF AwaitTrace
  <2>2. CASE Return("panic")
    BY <1>a, <2>1, <2>2, ReturnAll
  <2>3. CASE ~Return("panic")
    BY <1>3, <2>3, AwaitTraceAll DEF AwaitTrace
  <2> QED
    BY <2>2, <2>3
<1>4. CASE TxUnsupported
  BY <1>4, <1>a, ReturnAll DEF TxUnsupported
<1>5. CASE AwaitOther
  <2>1. phase = "fetch"
    BY <1>5 DEF AwaitOther
  <2>2. CASE Return("err")
    BY <1>a, <2>1, <2>2, ReturnAll
  <2> QED
    BY <1>5, <2>2, AwaitOtherAll
<1>6. CASE \E c \in InFlight : Fail(c)
  BY <1>6, <1>a, ReturnAll DEF Fail
<1>7. CASE Grow
  <2>1. ChainMoves
    BY <1>7, GrowMoves DEF RunInv
  <2> QED
    BY <1>7, <2>1, ChainKeeps DEF Grow
<1>8. CASE \E h \in 1 .. MaxHeight : Reorg(h)
  <2>1. PICK h \in 1 .. MaxHeight : Reorg(h)
    BY <1>8
  <2>2. ChainMoves
    BY <2>1, ReorgMoves DEF RunInv
  <2> QED
    BY <2>1, <2>2, ChainKeeps DEF Reorg
<1>9. CASE UNCHANGED vars
  <2>1. ChainMoves
    BY <1>9, TopAssumption DEF ChainMoves, vars, node, RunInv, FetchTypes
  <2> QED
    BY <1>9, <2>1, ChainKeeps DEF vars
<1> QED
  BY <1>1, <1>2, <1>3, <1>4, <1>5, <1>6, <1>7, <1>8, <1>9, LeaderAll, FetcherAll, FollowerAll,
     NextAll, AssembleAll, PollAll, ServiceAll
     DEF Next, Work, Run

(* The invariant: the stages of a fetch, the calls that belong to them,    *)
(* what their answers speak of, and where the stream is.                   *)
THEOREM RunInvariance == Spec => []RunInv
  BY RunInitially, RunStep, PTL DEF Spec

(* The program keeps to its stages and its types, whatever the node does.  *)
THEOREM FetchTypeOK == Spec => []TypeOK
<1>1. RunInv => TypeOK
  <2> SUFFICES ASSUME RunInv PROVE TypeOK
    OBVIOUS
  <2>1. RetryTypeOK /\ Stages /\ FetchTypes
    BY DEF RunInv, FetchInv, RetryInv
  <2>2. DOMAIN got \subseteq Calls
    <3>1. Current \subseteq AllStages /\ Passed \subseteq AllStages
      BY CurrentNotPassed DEF RunInv
    <3> QED
      BY <3>1, StageIs DEF RunInv, Calling
  <2>3. \A i \in 1 .. Len(blocks) : Len(blocks[i].prev) = Window
    <3> SUFFICES ASSUME NEW i \in 1 .. Len(blocks) PROVE Len(blocks[i].prev) = Window
      OBVIOUS
    <3>1. blocks[i] \in Block
      BY <2>1, ElementOfSeq DEF FetchTypes
    <3>2. blocks[i].prev \in [1 .. Window -> Hashes] /\ Window \in Nat
      BY <3>1, FetchAssumption DEF Block
    <3> QED
      BY <3>2
  <2> QED
    BY <2>1, <2>2, <2>3 DEF TypeOK, FetchTypes, Stages, Parsed, Hashes
<1> QED
  BY <1>1, RunInvariance, PTL

(* Up to 256 headers are requested at once and written right to left: in   *)
(* whatever order the node answers, however often a call is retried, and   *)
(* wherever the chain is reorganised, every hash of a fetched block is at  *)
(* its place (rpc/src/lib.rs:111).                                         *)
THEOREM HashesPlaced == Spec => []HashesInPlace
<1>1. RunInv => HashesInPlace
  BY DEF RunInv, Fetched
<1> QED
  BY <1>1, RunInvariance, PTL

(* The parts of a block, asked for by number in separate calls, speak of   *)
(* one chain, and a block is the child of the block before it, unless the  *)
(* node reorganised the block or its parent while it was fetched; what the *)
(* chain does above them, or did before, does not matter                   *)
(* (rpc/src/lib.rs:51).                                                    *)
THEOREM ChainIsOne == Spec => []OneChain
<1>1. RunInv => OneChain
  BY DEF RunInv, Fetched
<1> QED
  BY <1>1, RunInvariance, PTL

(* A program that succeeds has fetched the blocks of its interval, each    *)
(* once and in order, and the stream that follows the chain skips none,    *)
(* repeats none, and produces none that the node never had, also when the  *)
(* chain becomes shorter (block_interval.rs, into_bounded_stream and       *)
(* into_unbounded_stream).                                                 *)
THEOREM Streams == Spec => []StreamIsInterval
<1>1. RunInv => StreamIsInterval
  BY DEF RunInv, Stream
<1> QED
  BY <1>1, RunInvariance, PTL

-------------------------------------------------------------------------------
(* Errors.  Something was lost: refused, reorganised away, not there when  *)
(* the program started, or before genesis.                                 *)

Lost ==
  \/ refusals > 0 \/ forks > 0
  \/ phase = "checkpoint" /\ checkpoint > StartHeight
  \/ phase = "fetch" /\ (at > StartHeight \/ (rpc = "native" /\ at = 0))

(* Every try of a call but the one that is out has failed. *)
Tried(c) ==
  /\ futures[c].attempts <= failures + 1
  /\ futures[c].state \in {"backoff", "failed"} => futures[c].attempts <= failures

(* A chain that was never reorganised has only grown. *)
Grown == forks = 0 => StartHeight < Len(chain) /\ low = Top + 1

CauseInv ==
  /\ Grown
  /\ \A c \in InFlight : Tried(c)
  /\ \A c \in DOMAIN got : got[c] = Zero => Lost
  /\ ErrorHasCause

ErrorCause ==
  \/ refusals > 0 \/ failures > MaxRetries \/ forks > 0
  \/ program = "leader" /\ Documented(arg) = "none"
  \/ program = "follow" /\ Documented(arg) # "follow"
  \/ program = "prover_input" /\ Fruitless

PanicCause ==
  \/ program = "fetch" /\ (arg[1] = Num(0) \/ arg[2] = Num(Top))
  \/ program \in {"leader", "follow"} /\ \E k \in 1 .. Len(arg) : arg[k] = Num(Top)
  \/ program = "prover_input" /\ interval.kind = "single" /\ interval.from = Top
  \/ program = "prover_input" /\ BeyondNative

LEMMA Causes == ErrorHasCause <=> (phase = "err" => ErrorCause) /\ (phase = "panic" => PanicCause)
  BY DEF ErrorHasCause, ErrorCause, PanicCause

(* A block is being fetched. *)
LEMMA Fetching ==
  ASSUME RunInv, phase = "fetch"
  PROVE  program = "prover_input" /\ yielded # <<>>
<1>1. program = "prover_input"
  BY DEF RunInv, Stream
<1>2. Len(yielded) = Len(blocks) + 1
  BY DEF RunInv, Stream
<1>3. blocks \in Seq(Block)
  BY DEF RunInv, FetchTypes
<1>4. Len(blocks) \in Nat
  BY <1>3
<1>5. Len(yielded) # 0
  BY <1>2, <1>4
<1> QED
  BY <1>1, <1>5

(* What was lost is a cause. *)
LEMMA LostIsCause ==
  ASSUME RunInv, Lost
  PROVE  ErrorCause
<1>1. CASE refusals > 0 \/ forks > 0
  BY <1>1 DEF ErrorCause
<1>2. CASE phase = "checkpoint" /\ checkpoint > StartHeight
  <2>1. program = "prover_input"
    BY <1>2 DEF RunInv, Stream
  <2> QED
    BY <1>2, <2>1 DEF ErrorCause, Fruitless
<1>3. CASE phase = "fetch" /\ (at > StartHeight \/ (rpc = "native" /\ at = 0))
  BY <1>3, Fetching DEF ErrorCause, Fruitless, BeyondNative
<1> QED
  BY <1>1, <1>2, <1>3 DEF Lost

(* A node that knows nothing of what it is asked for. *)
LEMMA Unknown ==
  ASSUME RunInv, CauseInv, NEW c \in InFlight, Zero \in Known(c)
  PROVE  Lost
<1>1. /\ chain \in Hashes /\ Len(chain) \in Nat /\ Len(chain) > 0 /\ FetchTypes
      /\ at \in Nat /\ at <= Top /\ Top \in Nat /\ StartHeight \in Nat /\ forks \in Nat
  BY TopAssumption, FetchAssumption DEF RunInv, FetchTypes
<1>2. c \in Awaited(StageOf(c)) /\ StageOf(c) \in Current
  BY DEF RunInv, Calling
<1>3. Asks(c) \in Nat
  BY <1>1, <1>2, AskedTyped
<1>4. chain # Zero /\ HashAt(chain, 0) # Zero
  BY <1>1, HashTyped DEF Zero
<1>5. c[1] \notin {"tip", "chainId"}
  BY <1>4, KnownIs
<1>6. CASE forks # 0
  BY <1>1, <1>6 DEF Lost
<1>7. CASE forks = 0 /\ c \in TxCalls
  <2>0. StartHeight < Len(chain) /\ low = Top + 1 /\ at < low
    BY <1>1, <1>7 DEF CauseInv, Grown
  <2>1. c[1] \in {"receipt", "read", "diff"}
    BY <1>7 DEF TxCalls
  <2>2. StageOf(c) = "txs" /\ Asks(c) = at
    BY <2>1 DEF StageOf, Asks
  <2>3. phase = "fetch" /\ trace = "txs"
    BY <1>2, <2>2 DEF Current, RunInv, FetchInv, Stages, OtherStage
  <2>4. "block" \in Passed /\ <<"block", 0>> \in Awaited("block")
    BY <2>3 DEF Passed, PassedTrace, Awaited
  <2>5. <<"block", 0>> \in DOMAIN got /\ got[<<"block", 0>>] # Zero
    BY <2>4 DEF RunInv, Calling
  <2>6. Chained(<<"block", 0>>)
    BY <2>3, <2>5 DEF RunInv, Contents, Numbered
  <2>7. at < Len(chain) /\ got[<<"block", 0>>] = HashAt(chain, at)
    BY <2>0, <2>6 DEF Chained, Asks
  <2>8. HashAt(chain, at) # Zero
    BY <1>1, <2>7, HashTyped
  <2>9. IsPrefix(HashAt(chain, at), chain)
    <3>1. Len(HashAt(chain, at)) = at + 1 /\ HashAt(chain, at) \in Hashes
      BY <1>1, <2>7, HashTyped
    <3>2. at + 1 \in 0 .. Len(chain) /\ at + 1 \in 0 .. at + 1
      BY <1>1, <2>7
    <3>3. SubSeq(HashAt(chain, at), 1, at + 1) = SubSeq(chain, 1, at + 1)
      <4> DEFINE hash == HashAt(chain, at)
      <4>1. hash \in Seq(0 .. MaxReorgs) /\ Len(hash) = at + 1 /\ chain \in Seq(0 .. MaxReorgs)
        BY <1>1, <3>1 DEF Hashes
      <4>2. hash = SubSeq(chain, 1, at + 1)
        BY DEF HashAt
      <4> HIDE DEF hash
      <4>3. SubSeq(hash, 1, at + 1) = [i \in 1 .. at + 1 |-> hash[i]]
        BY <3>2, <4>1, Prefix
      <4>4. SubSeq(chain, 1, at + 1) = [i \in 1 .. at + 1 |-> chain[i]]
        BY <3>2, <4>1, Prefix
      <4>5. \A i \in 1 .. at + 1 : hash[i] = chain[i]
        BY <4>2, <4>4
      <4> QED
        BY <4>3, <4>4, <4>5 DEF hash
    <3> QED
      BY <3>1, <3>2, <3>3 DEF IsPrefix
  <2>10. Known(c) = {Asked(c)}
    BY <1>7, <2>7, <2>9, KnownIs
  <2>11. Asked(c) = HashAt(chain, at)
    BY <2>2, <2>7 DEF Asked
  <2> QED
    BY <2>8, <2>10, <2>11
<1>8. CASE forks = 0 /\ c \notin TxCalls
  <2>0. StartHeight < Len(chain)
    BY <1>8 DEF CauseInv, Grown
  <2>1. Zero = Asked(c)
    BY <1>5, <1>8, KnownIs
  <2>2. Asks(c) > StartHeight
    <3>1. ~(Asks(c) < Len(chain))
      BY <1>1, <1>3, <2>1, HashTyped DEF Asked
    <3> QED
      BY <1>1, <1>3, <2>0, <3>1
  <2>3. CASE c[1] = "checkpoint"
    <3>1. Asks(c) = checkpoint /\ StageOf(c) = "checkpoint"
      BY <2>3 DEF Asks, StageOf
    <3>2. phase = "checkpoint"
      BY <1>2, <3>1 DEF Current, RunInv, FetchInv, Stages, TraceStage, OtherStage
    <3> QED
      BY <2>2, <3>1, <3>2 DEF Lost
  <2>4. CASE c[1] # "checkpoint"
    <3>1. StageOf(c) \notin {"tip", "checkpoint"}
      BY <1>5, <2>4 DEF StageOf
    <3>2. phase = "fetch" /\ StageOf(c) \in {trace, other}
      BY <1>2, <3>1 DEF Current
    <3>3. CASE c[1] \in {"prev", "proof"} /\ at = 0
      <4>1. StageOf(c) \in {"prev", "proofs"}
        BY <3>3 DEF StageOf
      <4>2. trace \in {"prev", "proofs"}
        BY <3>2, <4>1 DEF RunInv, FetchInv, Stages, OtherStage
      <4>3. rpc = "native"
        BY <1>1, <3>2, <4>2 DEF RunInv, Lanes, FetchTypes
      <4> QED
        BY <3>2, <3>3, <4>3 DEF Lost
    <3>4. CASE ~(c[1] \in {"prev", "proof"} /\ at = 0)
      <4>1. Asks(c) <= at
        <5>1. CASE c[1] = "header"
          <6>1. StageOf(c) = "headers"
            BY <5>1 DEF StageOf
          <6>2. PICK k \in 1 .. Window : k <= at + 1 /\ c = <<"header", k>>
            BY <1>2, <6>1 DEF Awaited, Headers
          <6>3. Asks(c) = at + 1 - k
            BY <6>2 DEF Asks
          <6> QED
            BY <1>1, <6>2, <6>3, FetchAssumption
        <5>2. CASE c[1] # "header"
          <6>1. Asks(c) \in {at, Pred(at)} /\ (Asks(c) = at \/ at # 0)
            BY <2>4, <3>4, <5>2 DEF Asks
          <6> QED
            BY <1>1, <6>1 DEF Pred
        <5> QED
          BY <5>1, <5>2
      <4>2. at > StartHeight
        BY <1>1, <1>3, <2>2, <4>1
      <4> QED
        BY <3>2, <4>2 DEF Lost
    <3> QED
      BY <3>3, <3>4
  <2> QED
    BY <2>3, <2>4
<1> QED
  BY <1>6, <1>7, <1>8

(* Steps that end the program, with the cause of an error. *)
LEMMA ReturnCause ==
  ASSUME CauseInv, NEW result \in Returned, Return(result),
         result = "err" => ErrorCause, result = "panic" => PanicCause
  PROVE  CauseInv'
<1>1. /\ chain' = chain /\ low' = low /\ forks' = forks /\ program' = program /\ arg' = arg
      /\ rpc' = rpc /\ interval' = interval /\ checkpoint' = checkpoint /\ phase' = result
      /\ at' = at /\ yielded' = yielded /\ refusals' = refusals /\ failures' = failures
  BY DEF Return, node, start, fault
<1>2. InFlight' = {} /\ DOMAIN got' = {}
  BY Renewed, NothingAnswered DEF Return
<1>3. (\E t \in Txs : ~Supported(t))' <=> (\E t \in Txs : ~Supported(t))
  BY <1>1 DEF Supported
<1>4. (BeyondNative' <=> BeyondNative) /\ (Fruitless' <=> Fruitless)
  BY <1>1, <1>3 DEF BeyondNative, Fruitless
<1>5. (ErrorCause' <=> ErrorCause) /\ (PanicCause' <=> PanicCause)
  BY <1>1, <1>4 DEF ErrorCause, PanicCause
<1>6. ErrorHasCause'
  <2>1. (phase' = "err" => ErrorCause') /\ (phase' = "panic" => PanicCause')
    BY <1>1, <1>5
  <2> QED
    BY <2>1 DEF ErrorHasCause, ErrorCause, PanicCause
<1>7. Grown'
  BY <1>1 DEF CauseInv, Grown
<1> QED
  BY <1>2, <1>6, <1>7 DEF CauseInv, InFlight

(* Steps of a program that goes on: it makes new calls, and either it asks *)
(* for the same block still or it has forgotten the answers.               *)
LEMMA OnCause ==
  ASSUME CauseInv, NEW started, NEW dropped, Renew(started, dropped),
         UNCHANGED <<chain, forks, fault>>, phase' \notin Returned,
         low' = low \/ low' = Top + 1,
         DOMAIN got' = {} \/ (got' = got /\ UNCHANGED <<start, phase, at>>),
         failures \in Nat
  PROVE  CauseInv'
<1>1. chain' = chain /\ forks' = forks /\ refusals' = refusals /\ failures' = failures
  BY DEF fault
<1>2. \A c \in InFlight' : Tried(c)'
  <2> SUFFICES ASSUME NEW c \in InFlight' PROVE Tried(c)'
    OBVIOUS
  <2>1. CASE c \in started
    <3>1. futures'[c] = [state |-> "sent", attempts |-> 1, retries |-> 0]
      BY <2>1 DEF Renew
    <3>2. 1 <= failures + 1
      OBVIOUS
    <3> QED
      BY <1>1, <3>1, <3>2 DEF Tried
  <2>2. CASE c \notin started
    <3>1. c \in InFlight /\ futures'[c] = futures[c]
      BY <2>2, Renewed
    <3> QED
      BY <1>1, <3>1 DEF CauseInv, Tried
  <2> QED
    BY <2>1, <2>2
<1>3. \A c \in DOMAIN got' : got'[c] = Zero => Lost'
  <2>1. CASE DOMAIN got' = {}
    BY <2>1
  <2>2. CASE got' = got /\ UNCHANGED <<start, phase, at>>
    <3>1. Lost' <=> Lost
      BY <1>1, <2>2 DEF Lost, start
    <3> QED
      BY <2>2, <3>1 DEF CauseInv
  <2> QED
    BY <2>1, <2>2
<1>4. ErrorHasCause'
  BY DEF ErrorHasCause, Returned
<1>5. Grown'
  BY <1>1 DEF CauseInv, Grown
<1> QED
  BY <1>2, <1>3, <1>4, <1>5 DEF CauseInv, InFlight

LEMMA ServiceCause ==
  ASSUME RunInv, CauseInv, NEW c \in InFlight, Service(c)
  PROVE  CauseInv'
<1>1. /\ UNCHANGED <<node, start, phase, work>>
      /\ \/ UNCHANGED got
         \/ \E hash \in Known(c) : Receive(c, hash)
         \/ refusals' = refusals + 1
  BY DEF Service, NodeAnswers, NodeRefuses, ConnectionFails, RetryLater
<1>2. /\ chain' = chain /\ low' = low /\ forks' = forks /\ rpc' = rpc /\ at' = at
      /\ checkpoint' = checkpoint /\ phase' = phase
  BY <1>1 DEF node, start, work
<1>3. /\ failures \in Nat /\ refusals \in Nat
      /\ failures' \in {failures, failures + 1} /\ refusals' \in {refusals, refusals + 1}
  BY DEF Service, NodeAnswers, NodeRefuses, ConnectionFails, RetryLater, RunInv, FetchTypes, fault
<1>4. Lost => Lost'
  BY <1>2, <1>3 DEF Lost
<1>5. \A d \in InFlight' : Tried(d)'
  <2> SUFFICES ASSUME NEW d \in InFlight' PROVE Tried(d)'
    OBVIOUS
  <2>1. d \in InFlight
    BY ServiceFutures
  <2>2. Tried(d) /\ futures[d].attempts \in Nat /\ futures[d] \in Future
    <3>1. futures[d] \in Future
      BY <2>1 DEF RunInv, FetchInv, RetryInv, RetryTypeOK
    <3>2. futures[d].attempts \in Nat
      BY <3>1, MaxRetriesAssumption DEF Future
    <3> QED
      BY <2>1, <3>1, <3>2 DEF CauseInv
  <2>3. CASE d # c
    <3>1. futures'[d] = futures[d]
      BY <2>1, <2>3
         DEF Service, NodeAnswers, NodeRefuses, ConnectionFails, RetryLater, Answer,
             TransportFails, Resend, InFlight
    <3> QED
      BY <1>3, <2>2, <3>1 DEF Tried
  <2>4. CASE d = c /\ (NodeAnswers(c) \/ NodeRefuses(c))
    <3>1. Answer(c)
      BY <2>4 DEF NodeAnswers, NodeRefuses
    <3>2. futures'[c] = [futures[c] EXCEPT !.state = "answered"]
      BY <3>1 DEF Answer, InFlight
    <3>3. futures'[c].state = "answered" /\ futures'[c].attempts = futures[c].attempts
      BY <2>2, <2>4, <3>2 DEF Future
    <3> QED
      BY <1>3, <2>2, <2>4, <3>3 DEF Tried
  <2>5. CASE d = c /\ ConnectionFails(c)
    <3>1. TransportFails(c) /\ failures' = failures + 1
      BY <2>5 DEF ConnectionFails
    <3>2. futures'[c] = [futures[c] EXCEPT !.state =
                           IF futures[c].retries < MaxRetries THEN "backoff" ELSE "failed"]
      BY <3>1 DEF TransportFails, InFlight
    <3>3. futures'[c].attempts = futures[c].attempts
      BY <2>2, <2>5, <3>2 DEF Future
    <3> QED
      BY <1>3, <2>2, <2>5, <3>1, <3>3 DEF Tried
  <2>6. CASE d = c /\ RetryLater(c)
    <3>1. Resend(c) /\ failures' = failures
      BY <2>6 DEF RetryLater, fault
    <3>2. futures'[c].attempts = futures[c].attempts + 1 /\ futures'[c].state = "sent"
      BY <3>1 DEF Resend, InFlight
    <3>3. futures[c].attempts <= failures
      BY <2>2, <2>6, <3>1 DEF Resend, IsInState, Tried
    <3> QED
      BY <1>3, <2>2, <2>6, <3>1, <3>2, <3>3 DEF Tried
  <2> QED
    BY <2>3, <2>4, <2>5, <2>6 DEF Service
<1>6. ASSUME NEW d \in DOMAIN got', got'[d] = Zero PROVE Lost'
  <2>1. CASE UNCHANGED got
    BY <1>4, <1>6, <2>1 DEF CauseInv
  <2>2. CASE \E hash \in Known(c) : Receive(c, hash)
    <3>1. PICK hash \in Known(c) : Receive(c, hash)
      BY <2>2
    <3>2. /\ DOMAIN got' = DOMAIN got \cup {c}
          /\ got'[c] = hash
          /\ \A e \in DOMAIN got : e # c => got'[e] = got[e]
      BY <3>1, OneAnswer
    <3>3. CASE d = c
      BY <1>4, <1>6, <3>2, <3>3, Unknown
    <3>4. CASE d # c
      BY <1>4, <1>6, <3>2, <3>4 DEF CauseInv
    <3> QED
      BY <3>3, <3>4
  <2>3. CASE refusals' = refusals + 1
    BY <1>3, <2>3 DEF Lost
  <2> QED
    BY <1>1, <2>1, <2>2, <2>3
<1>7. ErrorHasCause'
  <2>1. phase # "err" /\ phase # "panic"
    <3>1. StageOf(c) \in Current
      BY DEF RunInv, Calling
    <3> QED
      BY <3>1 DEF Current
  <2> QED
    BY <1>2, <2>1 DEF ErrorHasCause
<1>8. Grown'
  BY <1>2 DEF CauseInv, Grown
<1> QED
  BY <1>5, <1>6, <1>7, <1>8 DEF CauseInv, InFlight

(* The chain moves while a program speaks to the node. *)
LEMMA ChainCause ==
  ASSUME RunInv, CauseInv, ChainMoves, Speaking,
         UNCHANGED <<futures, start, phase, work, got, fault>>
  PROVE  CauseInv'
<1>1. /\ futures' = futures /\ rpc' = rpc /\ checkpoint' = checkpoint /\ at' = at
      /\ phase' = phase /\ got' = got /\ failures' = failures /\ refusals' = refusals
  BY DEF start, work, fault
<1>2. /\ Len(chain) \in Nat /\ Len(chain') \in Nat /\ forks \in Nat /\ forks' \in Nat
      /\ forks <= forks' /\ StartHeight \in Nat
      /\ forks' = 0 => low' = low /\ Len(chain) <= Len(chain')
  BY FetchAssumption DEF RunInv, FetchTypes, ChainMoves
<1>3. Lost => Lost'
  BY <1>1, <1>2 DEF Lost
<1>4. Grown'
  <2>1. forks' = 0 => forks = 0
    BY <1>2
  <2> QED
    BY <1>2, <2>1 DEF CauseInv, Grown
<1>5. ErrorHasCause'
  BY <1>1 DEF ErrorHasCause, Speaking, Returned
<1> QED
  BY <1>1, <1>3, <1>4, <1>5 DEF CauseInv, InFlight, Tried

LEMMA StutterCause ==
  ASSUME CauseInv, UNCHANGED vars
  PROVE  CauseInv'
<1>1. /\ futures' = futures /\ chain' = chain /\ low' = low /\ forks' = forks
      /\ program' = program /\ arg' = arg /\ rpc' = rpc /\ interval' = interval
      /\ checkpoint' = checkpoint /\ phase' = phase /\ at' = at /\ yielded' = yielded
      /\ got' = got /\ failures' = failures /\ refusals' = refusals
  BY DEF vars, node, start, work, fault
<1>2. (\E t \in Txs : ~Supported(t))' <=> (\E t \in Txs : ~Supported(t))
  BY <1>1 DEF Supported
<1>3. (BeyondNative' <=> BeyondNative) /\ (Fruitless' <=> Fruitless)
  BY <1>1, <1>2 DEF BeyondNative, Fruitless
<1>4. ErrorHasCause' <=> ErrorHasCause
  BY <1>1, <1>3 DEF ErrorHasCause
<1>5. Grown' /\ (Lost' <=> Lost)
  BY <1>1 DEF CauseInv, Grown, Lost
<1> QED
  BY <1>1, <1>4, <1>5 DEF CauseInv, InFlight, Tried

LEMMA CauseInitially == Init => CauseInv
<1> SUFFICES ASSUME Init PROVE CauseInv
  OBVIOUS
<1>1. /\ chain = [h \in 1 .. StartHeight + 1 |-> 0] /\ StartHeight \in Nat
      /\ phase = "parse" /\ low = Top + 1
  BY FetchAssumption DEF Init
<1>2. Len(chain) = StartHeight + 1
  BY <1>1
<1>3. InFlight = {} /\ DOMAIN got = {}
  BY NothingAnswered DEF Init, RetryInit, InFlight
<1>4. Grown
  BY <1>1, <1>2 DEF Grown
<1> QED
  BY <1>1, <1>3, <1>4 DEF CauseInv, ErrorHasCause

(* Before the first call, and between two blocks, nothing was answered. *)
LEMMA NothingAsked ==
  ASSUME RunInv, phase \in {"parse", "stream"}
  PROVE  DOMAIN got = {}
<1>1. Current = {} /\ Passed = {}
  BY DEF Current, Passed
<1> QED
  BY <1>1 DEF RunInv, Calling

LEMMA AskCause ==
  ASSUME RunInv, CauseInv, phase = "parse", NEW i, NEW number, AskForCheckpoint(i, number)
  PROVE  CauseInv'
<1>1. /\ Renew({<<"checkpoint", 0>>}, {}) /\ UNCHANGED <<chain, low, forks, fault>>
      /\ phase' = "checkpoint" /\ got' = got
  BY DEF AskForCheckpoint, node
<1>2. DOMAIN got' = {} /\ phase' \notin Returned
  BY <1>1, NothingAsked DEF Returned
<1>3. failures \in Nat
  BY DEF RunInv, FetchTypes
<1> QED
  BY <1>1, <1>2, <1>3, OnCause

(* The error of a call: the node knew nothing or refused, or the transport *)
(* failed once more than there are retries.                                *)
LEMMA BadCause ==
  ASSUME RunInv, CauseInv, NEW c, Bad(c)
  PROVE  ErrorCause
<1>1. CASE IsInState(c, "failed")
  <2>1. c \in InFlight /\ futures[c].state = "failed"
    BY <1>1 DEF IsInState
  <2>2. futures[c].attempts = MaxRetries + 1
    BY <2>1, InvTries DEF RunInv, FetchInv, EveryCallHasItsTries
  <2>3. futures[c].attempts <= failures
    BY <2>1 DEF CauseInv, Tried
  <2>4. failures \in Nat /\ MaxRetries \in Nat
    BY MaxRetriesAssumption DEF RunInv, FetchTypes
  <2> QED
    BY <2>2, <2>3, <2>4 DEF ErrorCause
<1>2. CASE IsInState(c, "answered") /\ got[c] = Zero
  <2>1. c \in DOMAIN got
    BY <1>2 DEF RunInv, Calling, IsInState
  <2>2. Lost
    BY <1>2, <2>1 DEF CauseInv
  <2> QED
    BY <2>2, LostIsCause
<1> QED
  BY <1>1, <1>2 DEF Bad

(* An interval that cannot be streamed. *)
LEMMA StreamCause ==
  ASSUME RunInv, phase = "checkpoint", NEW checked
  PROVE  /\ BoundedStream(interval, checked) = Error => interval.kind \in {"hash", "follow"}
         /\ BoundedStream(interval, checked) = Panic =>
              interval.kind = "single" /\ interval.from = Top
<1>1. interval.kind \in {"hash", "single", "range", "follow"} /\ interval.from \in 0 .. Top
  BY DEF RunInv, Stream, FetchTypes, Parsed, Interval
<1>2. CASE interval.kind = "single"
  <2>1. BoundedStream(interval, checked) = RangeToSucc(interval.from, interval.from, checked)
    BY <1>2 DEF BoundedStream
  <2>2. RangeToSucc(interval.from, interval.from, checked) = Panic => interval.from = Top
    BY DEF RangeToSucc, RangeTo, Panic, Overflows
  <2>3. RangeToSucc(interval.from, interval.from, checked) # Error
    BY DEF RangeToSucc, RangeTo, Panic, Error
  <2> QED
    BY <1>2, <2>1, <2>2, <2>3
<1>3. CASE interval.kind = "range"
  <2>1. BoundedStream(interval, checked) = interval
    BY <1>3 DEF BoundedStream
  <2> QED
    BY <1>3, <2>1 DEF Error, Panic
<1>4. CASE interval.kind \in {"hash", "follow"}
  <2>1. BoundedStream(interval, checked) = Error
    BY <1>4 DEF BoundedStream
  <2> QED
    BY <1>4, <2>1 DEF Error, Panic
<1> QED
  BY <1>1, <1>2, <1>3, <1>4

(* The errors and panics of the command line. *)
LEMMA LeaderCause ==
  ASSUME RunInv, CauseInv, StartLeader
  PROVE  CauseInv'
<1>1. phase = "parse" /\ program = "leader" /\ arg \in Seq(Token) /\ failures \in Nat
  BY ArgTyped DEF StartLeader, RunInv, FetchTypes
<1>2. PICK checked \in BOOLEAN :
        LET i == NewInterval(arg, checked)
        IN \/ i = Error /\ Return("err")
           \/ i = Panic /\ Return("panic")
           \/ i \notin {Error, Panic} /\ \E number \in Numbers : AskForCheckpoint(i, number)
  BY DEF StartLeader
<1>3. CASE NewInterval(arg, checked) = Error /\ Return("err")
  <2>1. ErrorCause
    BY <1>1, <1>3, ErrorUndocumented DEF ErrorCause
  <2> QED
    BY <1>3, <2>1, ReturnCause DEF Returned
<1>4. CASE NewInterval(arg, checked) = Panic /\ Return("panic")
  <2>1. PanicCause
    BY <1>1, <1>4, PanicAtTop DEF PanicCause
  <2> QED
    BY <1>4, <2>1, ReturnCause DEF Returned
<1>5. CASE \E i, number : AskForCheckpoint(i, number)
  BY <1>1, <1>5, AskCause
<1> QED
  BY <1>2, <1>3, <1>4, <1>5

LEMMA FetcherCause ==
  ASSUME RunInv, CauseInv, StartFetch
  PROVE  CauseInv'
<1>1. phase = "parse" /\ program = "fetch"
  BY DEF StartFetch
<1>2. PICK first \in Numbers, last \in Numbers : arg = <<Num(first), Num(last)>>
  BY <1>1 DEF RunInv, Stream, FetchArgs
<1>3. arg[1].v = first /\ arg[2].v = last /\ arg[1] = Num(first) /\ arg[2] = Num(last)
  BY <1>2 DEF Num
<1>4. PICK checked \in BOOLEAN :
        LET i         == RangeToSucc(first, last, checked)
            overflows == i = Panic \/ (first = 0 /\ checked)
        IN \/ overflows /\ Return("panic")
           \/ ~overflows /\ \E number \in Numbers \cup {Pred(first)} : AskForCheckpoint(i, number)
  BY <1>3 DEF StartFetch
<1>5. CASE /\ RangeToSucc(first, last, checked) = Panic \/ (first = 0 /\ checked)
           /\ Return("panic")
  <2>1. RangeToSucc(first, last, checked) = Panic => last = Top
    BY DEF RangeToSucc, RangeTo, Panic, Overflows
  <2>2. arg[1] = Num(0) \/ arg[2] = Num(Top)
    BY <1>3, <1>5, <2>1
  <2>3. PanicCause
    BY <1>1, <2>2 DEF PanicCause
  <2> QED
    BY <1>5, <2>3, ReturnCause DEF Returned
<1>6. CASE \E i, number : AskForCheckpoint(i, number)
  BY <1>1, <1>6, AskCause
<1> QED
  BY <1>4, <1>5, <1>6

LEMMA FollowerCause ==
  ASSUME RunInv, CauseInv, StartFollow
  PROVE  CauseInv'
<1>1. phase = "parse" /\ program = "follow" /\ arg \in Seq(Token) /\ failures \in Nat
  BY ArgTyped DEF StartFollow, RunInv, FetchTypes
<1>2. PICK checked \in BOOLEAN :
        LET i == NewInterval(arg, checked)
        IN \/ i.kind # "follow" /\ Return(IF i = Panic THEN "panic" ELSE "err")
           \/ /\ phase' = "poll" /\ Renew({<<"tip", 0>>}, {}) /\ UNCHANGED <<node, fault>>
              /\ got' = got
  BY DEF StartFollow
<1>3. CASE NewInterval(arg, checked) = Panic /\ Return("panic")
  <2>1. PanicCause
    BY <1>1, <1>3, PanicAtTop DEF PanicCause
  <2> QED
    BY <1>3, <2>1, ReturnCause DEF Returned
<1>4. CASE NewInterval(arg, checked).kind # "follow" /\ Return("err")
  <2>1. Documented(arg) # "follow"
    <3>1. AsDocumented(arg, NewInterval(arg, checked), checked)
      BY <1>1, ParserAsDocumented
    <3>2. FollowFrom(arg[1].v).kind = "follow"
      BY DEF FollowFrom
    <3> QED
      BY <1>4, <3>1, <3>2 DEF AsDocumented
  <2>2. ErrorCause
    BY <1>1, <2>1 DEF ErrorCause
  <2> QED
    BY <1>4, <2>2, ReturnCause DEF Returned
<1>5. CASE /\ phase' = "poll" /\ Renew({<<"tip", 0>>}, {}) /\ UNCHANGED <<node, fault>>
           /\ got' = got
  <2>1. DOMAIN got = {}
    BY <1>1, NothingAsked
  <2>2. UNCHANGED <<chain, low, forks, fault>> /\ phase' \notin Returned
    BY <1>5 DEF node, Returned
  <2> QED
    BY <1>1, <1>5, <2>1, <2>2, OnCause
<1> QED
  BY <1>2, <1>3, <1>4, <1>5

LEMMA CauseStep ==
  ASSUME RunInv, CauseInv, [Next]_vars
  PROVE  CauseInv'
<1>a. failures \in Nat
  BY DEF RunInv, FetchTypes
<1>b. "err" \in Returned /\ "panic" \in Returned /\ "ok" \in Returned
      /\ "stream" \notin Returned /\ "fetch" \notin Returned /\ "poll" \notin Returned
      /\ "err" # "panic" /\ "ok" \notin {"err", "panic"}
  BY DEF Returned
<1>c. ASSUME phase = "fetch" PROVE program = "prover_input" /\ yielded # <<>>
  BY <1>c, Fetching
<1>1. CASE OpenStream
  <2>1. PICK checked \in BOOLEAN :
          LET s == BoundedStream(interval, checked)
          IN \/ s = Error /\ Return("err")
             \/ s = Panic /\ Return("panic")
             \/ /\ phase' = "stream" /\ Renew({}, InFlight) /\ got' = NoAnswers
                /\ UNCHANGED <<node, fault>>
    BY <1>1 DEF OpenStream
  <2>2. phase = "checkpoint"
    BY <1>1 DEF OpenStream
  <2>3. program = "prover_input"
    BY <2>2 DEF RunInv, Stream
  <2>4. CASE BoundedStream(interval, checked) = Error /\ Return("err")
    <3>1. ErrorCause
      BY <2>2, <2>3, <2>4, StreamCause DEF ErrorCause, Fruitless
    <3> QED
      BY <1>b, <2>4, <3>1, ReturnCause
  <2>5. CASE BoundedStream(interval, checked) = Panic /\ Return("panic")
    <3>1. PanicCause
      BY <2>2, <2>3, <2>5, StreamCause DEF PanicCause
    <3> QED
      BY <1>b, <2>5, <3>1, ReturnCause
  <2>6. CASE /\ phase' = "stream" /\ Renew({}, InFlight) /\ got' = NoAnswers
             /\ UNCHANGED <<node, fault>>
    <3>1. DOMAIN got' = {} /\ phase' \notin Returned /\ UNCHANGED <<chain, low, forks, fault>>
      BY <1>b, <2>6, NothingAnswered DEF node
    <3> QED
      BY <1>a, <2>6, <3>1, OnCause
  <2> QED
    BY <2>1, <2>4, <2>5, <2>6
<1>2. CASE NextBlock
  <2>1. /\ phase' = "fetch" /\ Renew(Awaited(trace') \cup Awaited(other'), {})
        /\ UNCHANGED <<chain, low, forks, fault>> /\ got' = got /\ phase = "stream"
    BY <1>2 DEF NextBlock, node
  <2>2. DOMAIN got = {}
    BY <2>1, NothingAsked
  <2> QED
    BY <1>a, <1>b, <2>1, <2>2, OnCause
<1>3. CASE Exhausted
  BY <1>3, <1>b, ReturnCause DEF Exhausted
<1>4. CASE AwaitTrace
  <2>1. phase = "fetch" /\ trace # "none"
    BY <1>4 DEF AwaitTrace
  <2>2. CASE TraceAfter(trace) = "prev" /\ at = 0 /\ Return("panic")
    <3>1. trace = "txs"
      BY <2>2 DEF TraceAfter
    <3>2. rpc = "native"
      BY <2>1, <3>1 DEF RunInv, Lanes, FetchTypes
    <3>3. PanicCause
      BY <1>c, <2>1, <2>2, <3>2 DEF PanicCause, BeyondNative
    <3> QED
      BY <1>b, <2>2, <3>3, ReturnCause
  <2>3. CASE ~(TraceAfter(trace) = "prev" /\ at = 0 /\ Return("panic"))
    <3>1. /\ \E started : Renew(started, Awaited(trace))
          /\ UNCHANGED <<node, start, phase, at, to, yielded, got, blocks, fault>>
      BY <1>4, <2>3 DEF AwaitTrace
    <3>2. phase' \notin Returned /\ UNCHANGED <<chain, low, forks, fault>>
      BY <1>b, <2>1, <3>1 DEF node
    <3> QED
      BY <1>a, <3>1, <3>2, OnCause
  <2> QED
    BY <2>2, <2>3
<1>5. CASE TxUnsupported
  <2>1. phase = "fetch" /\ trace = "txs" /\ (\E t \in Txs : ~Supported(t))
        /\ (Return("panic") \/ Return("err"))
    BY <1>5 DEF TxUnsupported
  <2>2. rpc = "native"
    BY <2>1 DEF RunInv, Lanes, FetchTypes
  <2>3. BeyondNative /\ program = "prover_input"
    BY <1>c, <2>1, <2>2 DEF BeyondNative
  <2>4. ErrorCause /\ PanicCause
    BY <2>3 DEF ErrorCause, PanicCause, Fruitless
  <2> QED
    BY <1>b, <2>1, <2>4, ReturnCause
<1>6. CASE AwaitOther
  <2>1. phase = "fetch"
    BY <1>6 DEF AwaitOther
  <2>2. CASE at \in Lacking /\ Return("err")
    <3>1. ErrorCause
      BY <1>c, <2>1, <2>2 DEF ErrorCause, Fruitless
    <3> QED
      BY <1>b, <2>2, <3>1, ReturnCause
  <2>3. CASE ~(at \in Lacking /\ Return("err"))
    <3>1. /\ Renew(Awaited(other'), Awaited(other))
          /\ UNCHANGED <<node, start, phase, at, to, yielded, trace, got, blocks, fault>>
      BY <1>6, <2>3 DEF AwaitOther
    <3>2. phase' \notin Returned /\ UNCHANGED <<chain, low, forks, fault>>
      BY <1>b, <2>1, <3>1 DEF node
    <3> QED
      BY <1>a, <3>1, <3>2, OnCause
  <2> QED
    BY <2>2, <2>3
<1>7. CASE Assemble
  <2>1. /\ phase' = "stream" /\ Renew({}, InFlight) /\ got' = NoAnswers
        /\ UNCHANGED <<chain, forks, fault>> /\ low' = Top + 1
    BY <1>7 DEF Assemble
  <2>2. DOMAIN got' = {} /\ phase' \notin Returned
    BY <1>b, <2>1, NothingAnswered
  <2> QED
    BY <1>a, <2>1, <2>2, OnCause
<1>8. CASE Poll
  <2>1. /\ phase' = "poll" /\ Renew({<<"tip", 0>>}, {}) /\ got' = NoAnswers
        /\ UNCHANGED <<chain, low, forks, fault>>
    BY <1>8 DEF Poll, node
  <2>2. DOMAIN got' = {} /\ phase' \notin Returned
    BY <1>b, <2>1, NothingAnswered
  <2> QED
    BY <1>a, <2>1, <2>2, OnCause
<1>9. CASE \E c \in InFlight : Fail(c)
  <2>1. PICK c \in InFlight : Fail(c)
    BY <1>9
  <2>2. Bad(c) /\ Return("err")
    BY <2>1 DEF Fail, Surfaces
  <2>3. ErrorCause
    BY <2>2, BadCause
  <2> QED
    BY <1>b, <2>2, <2>3, ReturnCause
<1>10. CASE \E c \in InFlight : Service(c)
  BY <1>10, ServiceCause
<1>11. CASE Grow
  BY <1>11, GrowMoves, ChainCause DEF Grow, RunInv
<1>12. CASE \E h \in 1 .. MaxHeight : Reorg(h)
  <2>1. PICK h \in 1 .. MaxHeight : Reorg(h)
    BY <1>12
  <2>2. ChainMoves
    BY <2>1, ReorgMoves DEF RunInv
  <2> QED
    BY <2>1, <2>2, ChainCause DEF Reorg
<1>13. CASE UNCHANGED vars
  BY <1>13, StutterCause
<1> QED
  BY <1>1, <1>2, <1>3, <1>4, <1>5, <1>6, <1>7, <1>8, <1>9, <1>10, <1>11, <1>12, <1>13,
     LeaderCause, FetcherCause, FollowerCause DEF Next, Work, Run

(* No program fails for nothing.  An error is an error message, one call   *)
(* tried more often than there are retries, a reorganisation, an argument  *)
(* that is not of the documented form, an interval that cannot be          *)
(* streamed, or a block that did not exist at the start, lacks a field or  *)
(* is beyond a native fetch; a program panics only where a number          *)
(* overflows, at genesis, or over a transaction of a kind that is not      *)
(* supported (rpc/src/lib.rs, rpc/src/native, rpc/src/retry.rs).           *)
THEOREM CauseOfErrors == Spec => []ErrorHasCause
<1>1. CauseInv => ErrorHasCause
  BY DEF CauseInv
<1>2. RunInv /\ CauseInv /\ [Next]_vars => CauseInv'
  BY CauseStep
<1> QED
  BY <1>1, <1>2, CauseInitially, RunInvariance, PTL DEF Spec

-------------------------------------------------------------------------------
(* The parser, for whatever a command line holds. *)

(* Whatever a program is given to parse, in a build with overflow checks   *)
(* or without, it streams the blocks that are documented for it, and what  *)
(* it accepts beyond that is of the three known kinds.                     *)
THEOREM ParsedAsDocumented == Spec => []ParsesAsDocumented
<1>1. TypeOK => arg \in Seq(Token)
  BY ArgTyped DEF TypeOK
<1>2. TypeOK => ParsesAsDocumented
  BY <1>1, ParserAsDocumented DEF ParsesAsDocumented
<1> QED
  BY <1>2, FetchTypeOK, PTL

-------------------------------------------------------------------------------
(* Nothing is awaited in vain: what is left of Returns and FollowCatchesUp *)
(* when fairness is set aside.                                             *)

(* Every call that is awaited is in flight, and the lane of the other data *)
(* of a block begins, at the latest, when the lane of the traces ends.     *)
Waiting ==
  /\ \A s \in Current : Awaited(s) \subseteq InFlight
  /\ phase = "fetch" /\ other = "none" => trace \in {"traces", "witness"}

LEMMA AwaitedSame ==
  ASSUME at' = at
  PROVE  \A s \in AllStages : Awaited(s)' = Awaited(s)
  BY DEF Awaited, Headers

(* Where nothing is awaited, one call is, or the same as before.           *)
LEMMA NoneAwaited == phase' \in {"parse", "stream"} \cup Returned => Waiting'
  BY DEF Waiting, Current, Returned

LEMMA OneAwaited ==
  ASSUME NEW name \in {"checkpoint", "tip"}, phase' = IF name = "tip" THEN "poll" ELSE name,
         <<name, 0>> \in InFlight'
  PROVE  Waiting'
<1>1. Current' = {name}
  BY DEF Current
<1>2. Awaited(name)' = {<<name, 0>>}
  BY DEF Awaited
<1>3. phase' # "fetch"
  OBVIOUS
<1> QED
  BY <1>1, <1>2, <1>3 DEF Waiting

LEMMA SameAwaited ==
  ASSUME RunInv, Waiting, UNCHANGED <<phase, at, trace, other>>, InFlight' = InFlight
  PROVE  Waiting'
<1>1. Current' = Current /\ Current \subseteq AllStages
  BY CurrentNotPassed DEF Current, RunInv
<1> QED
  BY <1>1, AwaitedSame DEF Waiting

LEMMA ReturnWaits == \A result \in Returned : Return(result) => Waiting'
  BY NoneAwaited DEF Return

LEMMA AskWaits == ASSUME NEW i, NEW number, AskForCheckpoint(i, number) PROVE Waiting'
<1>1. phase' = "checkpoint" /\ Renew({<<"checkpoint", 0>>}, {})
  BY DEF AskForCheckpoint
<1>2. <<"checkpoint", 0>> \in InFlight'
  BY <1>1, Renewed
<1> QED
  BY <1>1, <1>2, OneAwaited

LEMMA NextWaits == ASSUME RunInv, NextBlock PROVE Waiting'
<1>1. /\ phase' = "fetch" /\ at' = at
      /\ trace' = IF rpc = "jerigon" THEN "traces" ELSE "block"
      /\ other' = IF rpc = "jerigon" THEN "none" ELSE "target"
      /\ Renew(Awaited(trace') \cup Awaited(other'), {})
  BY DEF NextBlock
<1>2. InFlight' = InFlight \cup Awaited(trace') \cup Awaited(other')
  BY <1>1, Renewed
<1>3. Current' = {trace', other'} \ {"none", "done"}
  BY <1>1 DEF Current
<1>4. trace' \in AllStages /\ other' \in AllStages
  BY <1>1 DEF AllStages, TraceStage, OtherStage
<1>5. ASSUME NEW s \in Current' PROVE Awaited(s)' \subseteq InFlight'
  <2>1. s \in AllStages /\ (s = trace' \/ s = other')
    BY <1>3, <1>4
  <2>2. Awaited(s) \subseteq InFlight'
    BY <1>2, <2>1
  <2> QED
    BY <1>1, <2>1, <2>2, AwaitedSame
<1>6. other' = "none" => trace' = "traces"
  BY <1>1
<1> QED
  BY <1>5, <1>6 DEF Waiting

(* A lane goes on: what the other one awaits stays in flight.              *)
LEMMA LaneWaits ==
  ASSUME RunInv, Waiting, phase = "fetch", phase' = "fetch", at' = at,
         NEW over \in Current, NEW started,
         Renew(started, Awaited(over)),
         \A s \in Current' : (s \in Current /\ s # over) \/ (s \in AllStages /\ Awaited(s) \subseteq started),
         other' = "none" => trace' \in {"traces", "witness"}
  PROVE  Waiting'
<1>1. Current \subseteq AllStages
  BY CurrentNotPassed DEF RunInv
<1>2. InFlight' = (InFlight \ Awaited(over)) \cup started
  BY Renewed
<1>3. ASSUME NEW s \in Current' PROVE Awaited(s)' \subseteq InFlight'
  <2>1. CASE s \in Current /\ s # over
    <3>1. Awaited(s) \subseteq InFlight
      BY <2>1 DEF Waiting
    <3>2. Awaited(s) \cap Awaited(over) = {}
      BY <1>1, <2>1, StageIs
    <3>3. Awaited(s) \subseteq InFlight'
      BY <1>2, <3>1, <3>2
    <3> QED
      BY <1>1, <2>1, <3>3, AwaitedSame
  <2>2. CASE s \in AllStages /\ Awaited(s) \subseteq started
    BY <1>2, <2>2, AwaitedSame
  <2> QED
    BY <1>3, <2>1, <2>2
<1> QED
  BY <1>3 DEF Waiting

LEMMA AwaitTraceWaits == ASSUME RunInv, Waiting, AwaitTrace PROVE Waiting'
<1>1. phase = "fetch" /\ trace \notin {"none", "done"}
  BY DEF AwaitTrace
<1>2. CASE Return("panic")
  BY <1>2, ReturnWaits DEF Returned
<1>3. CASE ~Return("panic")
  <2>1. /\ trace' = TraceAfter(trace)
        /\ other' = IF rpc = "jerigon" /\ trace' = "done" THEN "target" ELSE other
        /\ Renew(Awaited(trace') \cup (IF other' # other THEN Awaited(other') ELSE {}),
                 Awaited(trace))
        /\ at' = at /\ phase' = "fetch"
    BY <1>1, <1>3 DEF AwaitTrace
  <2>2. trace \in TraceStage /\ other \in OtherStage
    BY DEF RunInv, FetchInv, Stages
  <2>3. trace \in Current /\ Current = {trace, other} \ {"none", "done"}
    BY <1>1 DEF Current
  <2>4. Current' = {trace', other'} \ {"none", "done"}
    BY <2>1 DEF Current
  <2>5. trace' \in AllStages /\ other' \in AllStages
    BY <2>1, <2>2 DEF TraceAfter, AllStages, TraceStage, OtherStage
  <2>6. other \in {"none", "done"} \/ other # trace
    BY <2>2 DEF TraceStage, OtherStage
  <2>7. other' = "none" => trace' \in {"traces", "witness"}
    <3>1. CASE other = "none"
      <4>1. rpc \in {"jerigon", "native"} /\ trace \in {"traces", "witness"}
        BY <1>1, <3>1 DEF Waiting, RunInv, FetchTypes
      <4>2. rpc = "jerigon"
        BY <1>1, <4>1 DEF RunInv, Lanes
      <4> QED
        BY <2>1, <4>1, <4>2 DEF TraceAfter
    <3> QED
      BY <2>1, <3>1
  <2>8. \A s \in Current' :
          \/ s \in Current /\ s # trace
          \/ /\ s \in AllStages
             /\ Awaited(s) \subseteq Awaited(trace') \cup (IF other' # other THEN Awaited(other') ELSE {})
    BY <2>3, <2>4, <2>5, <2>6
  <2> QED
    BY <1>1, <2>1, <2>3, <2>7, <2>8, LaneWaits
<1> QED
  BY <1>2, <1>3

LEMMA AwaitOtherWaits == ASSUME RunInv, Waiting, AwaitOther PROVE Waiting'
<1>1. CASE Return("err")
  BY <1>1, ReturnWaits DEF Returned
<1>2. CASE ~Return("err")
  <2>1. /\ phase = "fetch" /\ other \notin {"none", "done"}
        /\ other' = OtherAfter(other) /\ Renew(Awaited(other'), Awaited(other))
        /\ at' = at /\ phase' = "fetch" /\ trace' = trace
    BY <1>2 DEF AwaitOther
  <2>2. trace \in TraceStage /\ other \in OtherStage
    BY DEF RunInv, FetchInv, Stages
  <2>3. other \in Current /\ Current = {trace, other} \ {"none", "done"}
    BY <2>1 DEF Current
  <2>4. Current' = {trace, other'} \ {"none", "done"}
    BY <2>1 DEF Current
  <2>5. other' \in AllStages /\ other' # "none" /\ trace # other
    BY <2>1, <2>2 DEF OtherAfter, AllStages, TraceStage, OtherStage
  <2>6. \A s \in Current' :
          (s \in Current /\ s # other) \/ (s \in AllStages /\ Awaited(s) \subseteq Awaited(other'))
    BY <2>3, <2>4, <2>5
  <2> QED
    BY <2>1, <2>3, <2>5, <2>6, LaneWaits
<1> QED
  BY <1>1, <1>2

LEMMA WaitStep == ASSUME RunInv, Waiting, [Next]_vars PROVE Waiting'
<1>1. ASSUME NEW c \in InFlight, Service(c) PROVE Waiting'
  <2>1. UNCHANGED <<phase, at, trace, other>>
    BY <1>1 DEF Service, NodeAnswers, NodeRefuses, ConnectionFails, RetryLater, work
  <2> QED
    BY <1>1, <2>1, ServiceFutures, SameAwaited
<1>2. CASE Grow \/ (\E h \in 1 .. MaxHeight : Reorg(h)) \/ UNCHANGED vars
  <2>1. UNCHANGED <<phase, at, trace, other>> /\ futures' = futures
    BY <1>2 DEF Grow, Reorg, vars, work
  <2> QED
    BY <2>1, SameAwaited DEF InFlight
<1>3. CASE StartLeader
  BY <1>3, ReturnWaits, AskWaits DEF StartLeader, Returned
<1>4. CASE StartFetch
  BY <1>4, ReturnWaits, AskWaits DEF StartFetch, Returned
<1>5. CASE StartFollow
  <2>1. CASE Return("panic") \/ Return("err")
    BY <2>1, ReturnWaits DEF Returned
  <2>2. CASE phase' = "poll" /\ Renew({<<"tip", 0>>}, {})
    <3>1. <<"tip", 0>> \in InFlight'
      BY <2>2, Renewed
    <3> QED
      BY <2>2, <3>1, OneAwaited
  <2> QED
    BY <1>5, <2>1, <2>2 DEF StartFollow
<1>6. CASE OpenStream
  BY <1>6, ReturnWaits, NoneAwaited DEF OpenStream, Returned
<1>7. CASE Exhausted
  BY <1>7, ReturnWaits DEF Exhausted, Returned
<1>8. CASE Assemble
  BY <1>8, NoneAwaited DEF Assemble
<1>9. CASE Poll
  <2>1. phase' = "poll" /\ Renew({<<"tip", 0>>}, {})
    BY <1>9 DEF Poll
  <2>2. <<"tip", 0>> \in InFlight'
    BY <2>1, Renewed
  <2> QED
    BY <2>1, <2>2, OneAwaited
<1>10. CASE \E c \in InFlight : Fail(c)
  BY <1>10, ReturnWaits DEF Fail, Returned
<1>11. CASE TxUnsupported
  BY <1>11, ReturnWaits DEF TxUnsupported, Returned
<1> QED
  BY <1>1, <1>2, <1>3, <1>4, <1>5, <1>6, <1>7, <1>8, <1>9, <1>10, <1>11, NextWaits, AwaitTraceWaits,
     AwaitOtherWaits DEF Next, Work, Run

LEMMA WaitInvariance == Spec => [](RunInv /\ Waiting)
<1>1. Init => Waiting
  BY DEF Init, Waiting, Current
<1> QED
  BY <1>1, RunInitially, RunStep, WaitStep, PTL DEF Spec

(* What can happen next, while something is awaited (the guards of the     *)
(* actions): a call that is on its way is answered or fails or is sent     *)
(* again, what is awaited is there, or an error surfaces.                  *)
CanGoOn ==
  \/ \E c \in InFlight : IsInState(c, "sent") \/ IsInState(c, "backoff")
  \/ \E c \in InFlight : Surfaces(c)
  \/ phase = "checkpoint" /\ Good(<<"checkpoint", 0>>)
  \/ phase = "poll" /\ Good(<<"tip", 0>>)
  \/ /\ phase = "fetch" /\ trace \notin {"none", "done"} /\ \A c \in Awaited(trace) : Good(c)
     /\ trace = "txs" => \A t \in Txs : Supported(t)
  \/ /\ phase = "fetch" /\ trace = "txs"
     /\ \E t \in Txs : ~Supported(t) /\ \A c \in TxCalls : c[2] = t => Good(c)
  \/ phase = "fetch" /\ other \notin {"none", "done"} /\ \A c \in Awaited(other) : Good(c)
  \/ phase = "fetch" /\ trace = "done" /\ other = "done"

(* Among the calls whose errors come in order, the first one that failed   *)
(* is not held back by the others.                                         *)
LEMMA FirstSurfaces ==
  ASSUME NEW O \in {Headers, TxCalls}, \A c \in O : Good(c) \/ Bad(c),
         NEW e \in O, ~Good(e)
  PROVE  \E c \in O : Surfaces(c)
<1>1. \A c \in Headers : c[1] = "header" /\ c[2] \in Nat
  BY FetchAssumption DEF Headers
<1>2. \A c \in TxCalls : c[1] # "header" /\ c[2] \in Nat
  BY FetchAssumption DEF TxCalls
<1> DEFINE Places == {n \in Nat : \E c \in O : c[2] = n /\ ~Good(c)}
<1>3. Places \in SUBSET Nat /\ e[2] \in Places
  BY <1>1, <1>2
<1>4. PICK n \in Places : \A m \in Places : n <= m
  <2> HIDE DEF Places
  <2> QED
    BY <1>3, Least
<1>5. PICK c \in O : c[2] = n /\ ~Good(c)
  BY <1>4
<1>6. ASSUME NEW d \in O, d[2] < n PROVE Good(d)
  <2>1. d[2] \in Nat /\ n \in Nat
    BY <1>1, <1>2, <1>4
  <2>2. d[2] \notin Places
    <3> HIDE DEF Places
    <3>1. ~(n <= d[2])
      BY <1>6, <2>1
    <3> QED
      BY <1>4, <3>1
  <2> QED
    BY <2>1, <2>2
<1>7. \A ordered \in {Headers, TxCalls} : c \in ordered => ordered = O
  BY <1>1, <1>2
<1>8. Bad(c)
  BY <1>5
<1> QED
  BY <1>5, <1>6, <1>7, <1>8 DEF Surfaces

LEMMA NoneHeldBack ==
  ASSUME RunInv, Waiting, NEW s \in Current,
         \A c \in InFlight : futures[c].state \in {"answered", "failed"} /\ ~Surfaces(c)
  PROVE  \A c \in Awaited(s) : Good(c)
<1>1. \A c \in Awaited(s) : c \in InFlight
  BY DEF Waiting
<1>2. \A c \in Awaited(s) : Good(c) \/ Bad(c)
  BY <1>1 DEF Good, Bad, IsInState
<1>3. CASE Awaited(s) \in {Headers, TxCalls}
  <2> SUFFICES ASSUME NEW e \in Awaited(s), ~Good(e) PROVE FALSE
    OBVIOUS
  <2>1. PICK c \in Awaited(s) : Surfaces(c)
    BY <1>2, <1>3, FirstSurfaces
  <2> QED
    BY <1>1, <2>1
<1>4. CASE Awaited(s) \notin {Headers, TxCalls}
  <2>1. s \in AllStages /\ s \notin {"headers", "txs"}
    BY <1>4, CurrentNotPassed DEF RunInv, Awaited
  <2> SUFFICES ASSUME NEW c \in Awaited(s) PROVE Good(c)
    OBVIOUS
  <2>2. StageOf(c) = s
    BY <2>1, StageIs
  <2>3. c \notin Headers /\ c \notin TxCalls
    <3>1. c \in Headers => StageOf(c) = "headers"
      BY DEF StageOf, Headers
    <3>2. c \in TxCalls => StageOf(c) = "txs"
      BY DEF StageOf, TxCalls
    <3> QED
      BY <2>1, <2>2, <3>1, <3>2
  <2>4. ~Surfaces(c)
    BY <1>1
  <2> QED
    BY <1>2, <2>3, <2>4 DEF Surfaces
<1> QED
  BY <1>3, <1>4

(* Whatever was answered, failed or dropped so far, a program that awaits  *)
(* something can go on: no lane waits for a call that nobody has made, or  *)
(* that was dropped, and no error waits for an answer that never comes     *)
(* (rpc/src/lib.rs:89-114).                                                *)
THEOREM NothingAwaitedInVain ==
  Spec => [](phase \in {"checkpoint", "fetch", "poll"} => CanGoOn)
<1>1. ASSUME RunInv, Waiting, phase \in {"checkpoint", "fetch", "poll"}, ~CanGoOn PROVE FALSE
  <2>1. \A c \in InFlight : futures[c].state \in {"answered", "failed"} /\ ~Surfaces(c)
    <3> SUFFICES ASSUME NEW c \in InFlight PROVE futures[c].state \in {"answered", "failed"}
      BY <1>1 DEF CanGoOn
    <3>1. futures[c].state \in {"sent", "backoff", "answered", "failed"}
      BY <1>1 DEF RunInv, FetchInv, RetryInv, RetryTypeOK, Future
    <3> QED
      BY <1>1, <3>1 DEF CanGoOn, IsInState
  <2>2. \A s \in Current : \A c \in Awaited(s) : Good(c)
    BY <1>1, <2>1, NoneHeldBack
  <2>3. CASE phase = "checkpoint"
    BY <1>1, <2>2, <2>3 DEF Current, Awaited, CanGoOn
  <2>4. CASE phase = "poll"
    BY <1>1, <2>2, <2>4 DEF Current, Awaited, CanGoOn
  <2>5. CASE phase = "fetch"
    <3>1. Current = {trace, other} \ {"none", "done"}
      BY <2>5 DEF Current
    <3>2. trace \in {"none", "done"} /\ other \in {"none", "done"}
      <4>1. CASE other \notin {"none", "done"}
        BY <1>1, <2>2, <2>5, <3>1, <4>1 DEF CanGoOn
      <4>2. CASE trace \notin {"none", "done"}
        <5>1. \A c \in Awaited(trace) : Good(c)
          BY <2>2, <3>1, <4>2
        <5>2. PICK t \in Txs : trace = "txs" /\ ~Supported(t)
          BY <1>1, <2>5, <4>2, <5>1 DEF CanGoOn
        <5>3. \A c \in TxCalls : Good(c)
          BY <5>1, <5>2 DEF Awaited
        <5> QED
          BY <1>1, <2>5, <5>2, <5>3 DEF CanGoOn
      <4> QED
        BY <4>1, <4>2
    <3>3. trace # "none"
      BY <1>1, <2>5 DEF RunInv, Lanes, FetchTypes
    <3>4. other # "none"
      BY <1>1, <2>5, <3>2 DEF Waiting
    <3> QED
      BY <1>1, <2>5, <3>2, <3>3, <3>4 DEF CanGoOn
  <2> QED
    BY <1>1, <2>3, <2>4, <2>5
<1> QED
  BY <1>1, WaitInvariance, PTL

=============================================================================
