------------------------------- MODULE RpcFetch -------------------------------
(***************************************************************************)
(* How the prover input is fetched from a node (rpc/src/lib.rs, jerigon.rs *)
(* and native, rpc/src/main.rs), and the stream of new block numbers       *)
(* (block_interval.rs).  A program parses its interval, asks for the       *)
(* checkpoint, and block by block for traces, witness, header and previous *)
(* headers, some calls one after the other and some at once, all by number *)
(* and over one retrying service.  Meanwhile the chain of the node grows   *)
(* and reorganises.                                                        *)
(*                                                                         *)
(* An operator Mut_X is a mistake that X could contain.                    *)
(***************************************************************************)
EXTENDS RetryService, BlockInterval

CONSTANTS
  Programs,     \* which programs run: "leader", "fetch", "follow"
  Args,         \* intervals on their command line, as sequences of tokens
  Numbers,      \* block numbers on their command line
  Window,       \* the size of prev_hashes
  Txs,          \* the places of the transactions in a block
  Accounts,     \* the accounts a block touches
  Lacking,      \* heights of blocks whose header lacks mix_hash, base_fee_per_gas or hash
  Unsupported,  \* height and place of the transactions of a kind that is not supported
  StartHeight,  \* the tip of the chain at the start
  MaxHeight,    \* bound: the tip of the chain
  MaxReorgs,    \* bound: reorganisations
  MaxFaults     \* bound: reorganisations, failures of the transport and error messages

(* Calls are named after what they ask for. *)
TxCalls    == {<<"receipt", t>> : t \in Txs} \cup {<<"read", t>> : t \in Txs}
                \cup {<<"diff", t>> : t \in Txs}
ProofCalls == {<<"proof", a>> : a \in Accounts} \cup {<<"nextProof", a>> : a \in Accounts}

ASSUME CallsAssumption ==
  Calls = TxCalls \cup ProofCalls \cup {<<"header", k>> : k \in 1 .. Window}
            \cup {<<name, 0>> : name \in {"checkpoint", "traces", "witness", "block", "prev",
                                          "target", "chainId", "tip"}}

ASSUME FetchAssumption ==
  /\ Programs \subseteq {"leader", "fetch", "follow"}
  /\ Args \subseteq Seq(Token) /\ Numbers \subseteq 0 .. Top
  /\ Txs \subseteq Nat
  /\ Window \in Nat /\ StartHeight \in Nat /\ MaxHeight \in StartHeight .. Top - 1
  /\ MaxReorgs \in Nat /\ MaxFaults \in Nat

VARIABLES
  chain,       \* the node's chain: the branch of every block, genesis first
  low,         \* the lowest height reorganised since the last block was complete (history)
  peak,        \* the length of the longest chain there ever was (history)
  forks,       \* reorganisations so far
  program,     \* which program runs, until it calls prover_input
  arg,         \* the interval on its command line, until it is parsed
  rpc,         \* the kind of node it speaks to
  interval,    \* the parsed interval
  checkpoint,  \* the number of the checkpoint block, until its state root is known
  phase,       \* where the program is
  at, to,      \* the number the stream is at, and its end
  yielded,     \* the numbers the stream has produced (history)
  trace,       \* where the block's traces are: the calls being awaited
  other,       \* where the rest of the block's data is
  got,         \* the answers for this block, as the block they speak of
  blocks,      \* the blocks fetched so far
  failures, refusals

node  == <<chain, low, peak, forks>>
start == <<program, arg, rpc, interval, checkpoint>>
work  == <<at, to, yielded, trace, other, blocks>>
fault == <<failures, refusals>>
vars  == <<futures, node, start, phase, work, got, fault>>

Returned   == {"ok", "err", "panic"}
TraceStage == {"none", "traces", "witness", "block", "txs", "prev", "proofs", "done"}
OtherStage == {"none", "target", "chainId", "headers", "done"}

(* A hash stands for the block and all its ancestors: the prefix of the    *)
(* chain that ends with it.  The parent hash of genesis, and the initial   *)
(* content of prev_hashes, is zero.                                        *)
Zero         == <<>>
HashAt(c, h) == SubSeq(c, 1, h + 1)
Parent(hash) == Front(hash)

(* The first and the last block of rpc fetch. *)
FetchArgs == {<<Num(first), Num(last)>> : first, last \in Numbers}

TypeOK ==
  /\ RetryTypeOK
  /\ chain \in Seq(0 .. MaxReorgs) /\ Len(chain) \in 1 .. MaxHeight + 1
  /\ low \in 0 .. Top + 1 /\ peak \in 1 .. MaxHeight + 1 /\ forks \in 0 .. MaxReorgs
  /\ program \in Programs \cup {"prover_input"} /\ arg \in Args \cup FetchArgs \cup {<<>>}
  /\ rpc \in {"jerigon", "native"}
  /\ interval \in Interval /\ checkpoint \in 0 .. Top
  /\ phase \in {"parse", "checkpoint", "stream", "fetch", "poll"} \cup Returned
  /\ at \in 0 .. Top /\ to \in 0 .. Top /\ yielded \in Seq(0 .. Top)
  /\ trace \in TraceStage /\ other \in OtherStage
  /\ DOMAIN got \subseteq Calls
  /\ \A i \in 1 .. Len(blocks) : Len(blocks[i].prev) = Window
  /\ failures \in 0 .. MaxFaults /\ refusals \in 0 .. MaxFaults

NoAnswers == [c \in {} |-> Zero]

Init ==
  /\ RetryInit
  /\ chain = [h \in 1 .. StartHeight + 1 |-> 0] /\ peak = StartHeight + 1
  /\ low = Top + 1 /\ forks = 0
  /\ program \in Programs
  /\ arg \in IF program = "fetch" THEN FetchArgs ELSE Args
  /\ rpc = "jerigon" /\ interval = Error /\ checkpoint = 0
  /\ phase = "parse"
  /\ at = 0 /\ to = 0 /\ yielded = <<>> /\ trace = "none" /\ other = "none"
  /\ got = NoAnswers /\ blocks = <<>>
  /\ failures = 0 /\ refusals = 0

-------------------------------------------------------------------------------
(* The node, whose chain may move while a program speaks to it *)

Speaking == phase \notin {"parse"} \cup Returned

Grow ==
  /\ Speaking /\ Len(chain) <= MaxHeight
  /\ chain' = Append(chain, Last(chain))
  /\ peak' = IF Len(chain') > peak THEN Len(chain') ELSE peak
  /\ UNCHANGED <<futures, low, forks, start, phase, work, got, fault>>

(* The blocks from height h on are gone, with others in their place, more  *)
(* or fewer.                                                               *)
Reorg(h) ==
  /\ Speaking /\ forks < MaxReorgs /\ forks + failures + refusals < MaxFaults
  /\ h \in 1 .. Len(chain) - 1
  /\ forks' = forks + 1
  /\ \E length \in h .. MaxHeight + 1 :
       chain' = [i \in 1 .. length |-> IF i <= h THEN chain[i] ELSE forks']
  /\ low' = IF h < low THEN h ELSE low
  /\ peak' = IF Len(chain') > peak THEN Len(chain') ELSE peak
  /\ UNCHANGED <<futures, start, phase, work, got, fault>>

(* The number of the block that a call asks for. *)
Mut_Asks(c) ==
  CASE c[1] = "checkpoint" -> checkpoint
    [] c[1] = "header"     -> at + 1 - c[2]
    [] c[1] = "prev"       -> Pred(at)
    [] OTHER               -> at

Asks(c) ==
  CASE c[1] = "checkpoint"        -> checkpoint
    [] c[1] = "header"            -> at + 1 - c[2]
    [] c[1] \in {"prev", "proof"} -> Pred(at)
    [] OTHER                      -> at

(* What the node knows when it answers: transactions, asked for by hash,   *)
(* may be gone with their block, or be in another one.                     *)
Known(c) ==
  LET asked == IF Asks(c) < Len(chain) THEN HashAt(chain, Asks(c)) ELSE Zero
  IN CASE c[1] = "tip"     -> {chain}
       [] c[1] = "chainId" -> {HashAt(chain, 0)}
       [] c \in TxCalls    -> IF IsPrefix(got[<<"block", 0>>], chain)
                              THEN {asked} ELSE {Zero, asked}
       [] OTHER            -> {asked}

Receive(c, hash) ==
  got' = [d \in DOMAIN got \cup {c} |-> IF d = c THEN hash ELSE got[d]]

NodeAnswers(c) ==
  /\ Answer(c)
  /\ \E hash \in Known(c) : Receive(c, hash)
  /\ UNCHANGED <<node, start, phase, work, fault>>

(* An error message, which nobody retries; or a block without its number   *)
(* or its transactions, which is of no more use.                           *)
NodeRefuses(c) ==
  /\ forks + failures + refusals < MaxFaults
  /\ Answer(c)
  /\ Receive(c, Zero)
  /\ refusals' = refusals + 1
  /\ UNCHANGED <<node, start, phase, work, failures>>

ConnectionFails(c) ==
  /\ forks + failures + refusals < MaxFaults
  /\ TransportFails(c)
  /\ failures' = failures + 1
  /\ UNCHANGED <<node, start, phase, work, got, refusals>>

RetryLater(c) ==
  /\ Resend(c)
  /\ UNCHANGED <<node, start, phase, work, got, fault>>

Good(c) == IsInState(c, "answered") /\ got[c] # Zero
Bad(c)  == IsInState(c, "failed") \/ (IsInState(c, "answered") /\ got[c] = Zero)

-------------------------------------------------------------------------------
(* The programs *)

Return(result) ==
  /\ phase' = result
  /\ Renew({}, InFlight)
  /\ got' = NoAnswers /\ trace' = "none" /\ other' = "none"
  /\ UNCHANGED <<node, start, at, to, yielded, blocks, fault>>

(* prover_input: the checkpoint is asked for before anything else. *)
AskForCheckpoint(i, number) ==
  /\ program' = "prover_input" /\ arg' = <<>> /\ interval' = i /\ checkpoint' = number
  /\ rpc' \in {"jerigon", "native"}
  /\ phase' = "checkpoint"
  /\ Renew({<<"checkpoint", 0>>}, {})
  /\ UNCHANGED <<node, work, got, fault>>

StartLeader ==
  /\ phase = "parse" /\ program = "leader"
  /\ \E checked \in BOOLEAN :
       LET i == NewInterval(arg, checked)
       IN \/ i = Error /\ Return("err")
          \/ i = Panic /\ Return("panic")
          \/ i \notin {Error, Panic} /\ \E number \in Numbers : AskForCheckpoint(i, number)

(* Where a number overflows, a build with overflow checks (`checked')      *)
(* panics and one without them wraps around.                               *)

(* rpc fetch: the end becomes exclusive.  The default of the checkpoint,   *)
(* the block before the first one, is computed even if one is given.       *)
StartFetch ==
  /\ phase = "parse" /\ program = "fetch"
  /\ \E checked \in BOOLEAN :
       LET first     == arg[1].v
           i         == RangeToSucc(first, arg[2].v, checked)
           overflows == i = Panic \/ (first = 0 /\ checked)
       IN \/ overflows /\ Return("panic")
          \/ ~overflows /\ \E number \in Numbers \cup {Pred(first)} : AskForCheckpoint(i, number)

(* into_bounded_stream; the interval is consumed. *)
OpenStream ==
  /\ phase = "checkpoint" /\ Good(<<"checkpoint", 0>>)
  /\ \E checked \in BOOLEAN :
       LET s == BoundedStream(interval, checked)
       IN \/ s = Error /\ Return("err")
          \/ s = Panic /\ Return("panic")
          \/ /\ s \notin {Error, Panic}
             /\ interval' = s /\ at' = s.from /\ to' = s.to /\ phase' = "stream"
             /\ checkpoint' = 0
             /\ Renew({}, InFlight) /\ got' = NoAnswers
             /\ UNCHANGED <<node, program, arg, rpc, yielded, trace, other, blocks, fault>>

Mut_Exhausted == phase = "stream" /\ at + 1 >= to /\ Return("ok")

Exhausted == phase = "stream" /\ at >= to /\ Return("ok")

(* The calls that are awaited at a stage, all of them at once. *)
Mut_Headers == {<<"header", k>> : k \in 1 .. Window}

Headers == {<<"header", k>> : k \in {j \in 1 .. Window : j <= at + 1}}

Awaited(stage) ==
  CASE stage \in {"none", "done"} -> {}
    [] stage = "txs"              -> TxCalls
    [] stage = "proofs"           -> ProofCalls
    [] stage = "headers"          -> Headers
    [] OTHER                      -> {<<stage, 0>>}

(* The next number: a jerigon node is asked for the traces first, a native *)
(* one for the block and the other data at once.                           *)
NextBlock ==
  /\ phase = "stream" /\ at < to
  /\ phase' = "fetch"
  /\ yielded' = Append(yielded, at)
  /\ trace' = IF rpc = "jerigon" THEN "traces" ELSE "block"
  /\ other' = IF rpc = "jerigon" THEN "none" ELSE "target"
  /\ Renew(Awaited(trace') \cup Awaited(other'), {})
  /\ UNCHANGED <<node, start, at, to, got, blocks, fault>>

TraceAfter(stage) ==
  CASE stage = "traces" -> "witness"
    [] stage = "block"  -> "txs"
    [] stage = "txs"    -> "prev"
    [] stage = "prev"   -> "proofs"
    [] OTHER            -> "done"

Supported(t) == <<at, t>> \notin Unsupported

AwaitTrace ==
  /\ phase = "fetch" /\ trace \notin {"none", "done"}
  /\ \A c \in Awaited(trace) : Good(c)
  /\ trace = "txs" => \A t \in Txs : Supported(t)
  /\ \/ TraceAfter(trace) = "prev" /\ at = 0 /\ Return("panic")
     \/ /\ trace' = TraceAfter(trace)
        /\ other' = IF rpc = "jerigon" /\ trace' = "done" THEN "target" ELSE other
        /\ Renew(Awaited(trace') \cup (IF other' # other THEN Awaited(other') ELSE {}),
                 Awaited(trace))
        /\ UNCHANGED <<node, start, phase, at, to, yielded, got, blocks, fault>>

(* A transaction, receipt or trace of a kind that is not supported panics  *)
(* when the answers about it are there, or is an error in its turn.        *)
TxUnsupported ==
  /\ phase = "fetch" /\ trace = "txs"
  /\ \E t \in Txs :
       /\ ~Supported(t) /\ \A c \in TxCalls : c[2] = t => Good(c)
       /\ \/ Return("panic")
          \/ (\A c \in TxCalls : c[2] < t => Good(c)) /\ Return("err")

OtherAfter(stage) ==
  CASE stage = "target"  -> "chainId"
    [] stage = "chainId" -> "headers"
    [] OTHER             -> "done"

AwaitOther ==
  /\ phase = "fetch" /\ other \notin {"none", "done"}
  /\ \A c \in Awaited(other) : Good(c)
  /\ \/ /\ other = "headers" => at \notin Lacking
        /\ other' = OtherAfter(other)
        /\ Renew(Awaited(other'), Awaited(other))
        /\ UNCHANGED <<node, start, phase, at, to, yielded, trace, got, blocks, fault>>
     \/ other = "headers" /\ at \in Lacking /\ Return("err")

(* prev_hashes is filled from the right. *)
Mut_Slot(k) == k

Slot(k) == Window + 1 - k

PrevHashes ==
  [i \in 1 .. Window |-> IF <<"header", Slot(i)>> \in Headers
                         THEN Parent(got[<<"header", Slot(i)>>]) ELSE Zero]

Before == {<<"prev", 0>>} \cup {<<"proof", a>> : a \in Accounts}
Within == {<<name, 0>> : name \in {"traces", "witness", "block"}} \cup TxCalls
            \cup {<<"nextProof", a>> : a \in Accounts}

(* BlockProverInput: the header's hash, the previous ones, and the blocks  *)
(* that the traces and the pre-state speak of.                             *)
Assemble ==
  /\ phase = "fetch" /\ trace = "done" /\ other = "done"
  /\ blocks' = Append(blocks, [cur   |-> got[<<"target", 0>>],
                               prev  |-> PrevHashes,
                               trace |-> {got[c] : c \in DOMAIN got \cap Within},
                               pre   |-> {got[c] : c \in DOMAIN got \cap Before},
                               low   |-> low])
  /\ phase' = "stream" /\ at' = at + 1
  /\ trace' = "none" /\ other' = "none" /\ got' = NoAnswers
  /\ low' = Top + 1
  /\ Renew({}, InFlight)
  /\ UNCHANGED <<chain, peak, forks, start, to, yielded, fault>>

(* An error ends everything that is in flight; headers and transactions    *)
(* come in order, so that the error of one waits for those before it.      *)
Mut_Surfaces(c) ==
  /\ Bad(c)
  /\ \A ordered \in {Headers, TxCalls} :
       c \in ordered => \A d \in ordered : d[2] # c[2] => Good(d)

Surfaces(c) ==
  /\ Bad(c)
  /\ \A ordered \in {Headers, TxCalls} :
       c \in ordered => \A d \in ordered : d[2] < c[2] => Good(d)

Fail(c) == phase \notin Returned /\ Surfaces(c) /\ Return("err")

-------------------------------------------------------------------------------
(* A program that follows the chain: into_unbounded_stream. *)

StartFollow ==
  /\ phase = "parse" /\ program = "follow"
  /\ \E checked \in BOOLEAN :
       LET i == NewInterval(arg, checked)
       IN \/ i.kind # "follow" /\ Return(IF i = Panic THEN "panic" ELSE "err")
          \/ /\ i.kind = "follow"
             /\ arg' = <<>> /\ interval' = i /\ at' = i.from
             /\ phase' = "poll"
             /\ Renew({<<"tip", 0>>}, {})
             /\ UNCHANGED <<node, program, rpc, checkpoint, to, yielded, trace, other, got, blocks,
                            fault>>

Tip == Len(got[<<"tip", 0>>]) - 1

(* current is counted up and produced, or the tip is reached and asked for *)
(* again after a block's time.                                             *)
Mut_PollOnce ==
  /\ phase = "poll" /\ Good(<<"tip", 0>>) /\ at < Tip
  /\ at' = at + 1
  /\ yielded' = Append(yielded, at')
  /\ got' = NoAnswers /\ Renew({<<"tip", 0>>}, {})
  /\ UNCHANGED <<node, start, phase, to, trace, other, blocks, fault>>

Poll ==
  /\ phase = "poll" /\ Good(<<"tip", 0>>)
  /\ at' = IF at < Tip THEN at + 1 ELSE at
  /\ yielded' = IF at < Tip THEN Append(yielded, at') ELSE yielded
  /\ got' = NoAnswers /\ Renew({<<"tip", 0>>}, {})
  /\ UNCHANGED <<node, start, phase, to, trace, other, blocks, fault>>

-------------------------------------------------------------------------------
Run ==
  \/ StartLeader \/ StartFetch \/ StartFollow
  \/ OpenStream \/ NextBlock \/ Exhausted \/ AwaitTrace \/ TxUnsupported \/ AwaitOther
  \/ Assemble \/ Poll
  \/ \E c \in InFlight : Fail(c)

Service(c) == NodeAnswers(c) \/ NodeRefuses(c) \/ ConnectionFails(c) \/ RetryLater(c)

Work == Run \/ \E c \in InFlight : Service(c)

Next ==
  \/ Work
  \/ Grow
  \/ \E h \in 1 .. MaxHeight : Reorg(h)

(* The program is polled when an answer is there, and requests are         *)
(* answered or fail; the chain need not move.                              *)
Spec == Init /\ [][Next]_vars /\ WF_vars(Work)

-------------------------------------------------------------------------------
(* Properties *)

(* The parser's overlapping syntaxes: an argument of the documented form   *)
(* (block_interval.rs:32-37) streams the blocks it names, unless its end   *)
(* does not fit when it is made exclusive, and what is accepted beyond     *)
(* those forms is a follow-from with surplus separators, a range with      *)
(* surplus pieces, or a block hash.                                        *)
ParsesAsDocumented ==
  phase = "parse" /\ program # "fetch" =>
    \A checked \in BOOLEAN : AsDocumented(arg, NewInterval(arg, checked), checked)

(* Whatever the order of the answers, and even over a reorganisation:      *)
(* every block has the number the stream asked for, and each previous hash *)
(* is that of a block of the height its place stands for, or zero before   *)
(* genesis.                                                                *)
HashesInPlace ==
  \A i \in 1 .. Len(blocks) :
    /\ Len(blocks[i].cur) = yielded[i] + 1
    /\ \A k \in 1 .. Window :
         Len(blocks[i].prev[Window + 1 - k]) = IF k <= yielded[i] THEN yielded[i] + 1 - k ELSE 0

(* A block's parts are asked for in many calls, by number: they all speak  *)
(* of one chain, the traces of the block and the pre-state and the hashes  *)
(* of its ancestors, and it is the child of the block before it, unless    *)
(* the block or its parent was reorganised while it was fetched.           *)
OneChain ==
  \A i \in 1 .. Len(blocks) :
    LET n     == yielded[i]
        block == blocks[i]
    IN n < block.low =>
         /\ \A k \in 1 .. Window : k <= n => block.prev[Window + 1 - k] = HashAt(block.cur, n - k)
         /\ block.trace = {block.cur}
         /\ block.pre \subseteq {Parent(block.cur)}
         /\ i > 1 /\ n - 1 < blocks[i - 1].low => Parent(block.cur) = blocks[i - 1].cur

(* What is streamed is the interval as it was parsed, each number once and *)
(* in order: a program that succeeds has fetched all of its blocks, and    *)
(* the follow-from stream skips none, repeats none after a reorganisation, *)
(* and produces no block that was never there.                             *)
StreamIsInterval ==
  /\ phase = "ok" =>
       /\ Len(blocks) = Len(yielded)
       /\ \A i, j \in 1 .. Len(yielded) : i < j => yielded[i] < yielded[j]
       /\ {yielded[i] : i \in 1 .. Len(yielded)} = Named(interval)
  /\ program = "follow" /\ phase # "parse" =>
       /\ \A i \in 1 .. Len(yielded) : yielded[i] = interval.from + i
       /\ yielded # <<>> => at < peak

(* What the native fetch cannot do: genesis has no block before it, and a  *)
(* transaction may be of a kind that is not supported.                     *)
BeyondNative ==
  rpc = "native" /\ yielded # <<>> /\ (at = 0 \/ \E t \in Txs : ~Supported(t))

Fruitless ==
  \/ interval.kind \in {"hash", "follow"}
  \/ checkpoint > StartHeight
  \/ yielded # <<>> /\ (at > StartHeight \/ at \in Lacking)
  \/ BeyondNative

(* An error has a reason: the node said so, one call was tried more often  *)
(* than there are retries, a reorganisation lost something, the argument   *)
(* is not of the documented form, the interval cannot be streamed, or the  *)
(* checkpoint or the block being fetched did not exist at the start, lacks *)
(* a field or is beyond a native fetch.  A panic is an overflow, at the    *)
(* last number there is or at genesis, or a transaction that is not        *)
(* supported: no answer and no other argument causes one.                  *)
ErrorHasCause ==
  /\ phase = "err" =>
       \/ refusals > 0 \/ failures > MaxRetries \/ forks > 0
       \/ program = "leader" /\ Documented(arg) = "none"
       \/ program = "follow" /\ Documented(arg) # "follow"
       \/ program = "prover_input" /\ Fruitless
  /\ phase = "panic" =>
       \/ program = "fetch" /\ (arg[1] = Num(0) \/ arg[2] = Num(Top))
       \/ program \in {"leader", "follow"} /\ \E k \in 1 .. Len(arg) : arg[k] = Num(Top)
       \/ program = "prover_input" /\ interval.kind = "single" /\ interval.from = Top
       \/ program = "prover_input" /\ BeyondNative

(* Every block that comes after the start is produced in the end, unless   *)
(* the chain goes back before it or the stream ends with an error.         *)
FollowCatchesUp ==
  \A h \in 1 .. MaxHeight :
    program = "follow" /\ phase = "poll" /\ interval.from < h /\ h < Len(chain)
      ~> (h \in {yielded[i] : i \in 1 .. Len(yielded)} \/ Len(chain) <= h \/ phase = "err")

(* A fetch ends: with retries, with errors that come out of order, and     *)
(* with two lanes of calls of which one may fail.                          *)
Returns == program # "follow" ~> phase \in Returned

(* A follow-from interval starts with its start block                      *)
(* (block_interval.rs:36, :20).                                            *)
FollowStartsAtStart ==
  program = "follow" /\ yielded # <<>> => yielded[1] = interval.from

===============================================================================
