# Verification of zero-bin

zero-bin proves Ethereum blocks: a leader obtains the traces of a sequence of
blocks, workers prove their transactions, and the proofs are folded into one proof per
block, each on top of the one before. This directory holds TLA+ models of the parts where
things run concurrently, fail, or are stopped and run again, TLC configurations that check
them, and TLAPS proofs about the core.

## Inventory

| component | state | operations | what is hard | what makes it correct |
|---|---|---|---|---|
| `prover` — `ProverInput::prove`, `BlockProverInput::prove`, `write_proof` | one future and one oneshot channel per block, proof files | start all blocks, await the runtime, take the previous proof, prove, write, send, collect | blocks race; one failure closes channels on both sides; a run may stop anywhere; the `test_only` build has another order | the chain of proofs has no gap; Ok means all; the error is a real one; files are a prefix; the call returns |
| `ops` — `TxProof`, `AggProof`, `BlockProof`; `common/debug_utils` | operations in flight, debug folder and logs | prove, combine, save the inputs of a failure | any order of arrival; several operations fail at once | only adjacent proofs meet; errors are not masked; inputs are saved |
| `common/prover_state` | circuits folder, circuits in memory | load, generate, persist, load tables per transaction | processes share the folder without a lock; kills; mixed configurations and releases | a ready prover finds its tables; folder never stays incomplete by concurrency; a start fails only in the race for a new folder |
| `leader` client and stdio | the run, proof directory, stdout | read previous proof, fetch, prove, close, print or clean up | consecutive runs over the same or other blocks, kills, background writes, failing clean-up and printing | a kept proof is lost only with its own file; what is kept covers the sequence; what is printed is right |
| `leader` http | handlers, files | prove a block, write its file | parallel requests, several for one block, clients that give up | an answered proof is whole on disk |
| `leader` main, cli, utils | environment, arguments | dispatch, version lookup | version of the circuits | all programs use the same circuits |
| `worker` | paladin's loop | initialise, serve | start, kill, restart | see prover state |
| `verifier` | none | read a list of proofs, verify | input format | verifies what the leader prints |
| `rpc/retry` | attempts per call | send, back off, send again | concurrent calls, exhaustion | at most `max_retries + 1` attempts, error only after the last |
| `rpc` lib, jerigon, main | headers in flight | fetch headers, traces, witness | concurrent requests, reorganisations (also to a shorter chain), missing fields, ends of ranges | hashes in order, one chain per block |
| `rpc/native` | accumulated accesses | traces to accesses, code, storage | three traces that overlap, deletions | every access is in the witness |
| `common/block_interval`, `parsing` | position of the stream | parse, bounded and follow-from streams | overlapping syntaxes, overflow, start of the stream | the stream is the interval |
| `rpc/compat` | none | conversions | nothing | nothing |

Interactions: `leader` calls `rpc::prover_input` (client) and `ProverInput::prove`; that
hands `ops` to the paladin runtime, whose workers execute them with the circuits of
`prover_state`; proofs go to files or stdout, from where the next run (`-f`) and the
verifier take them; `tools/prove_rpc.sh` starts runs and reads the leader's log.

## Modules

`ProofChain` ⟵ refined by ⟵ `ProverInput` (both over `BlockProofs`), whose stage
`txns`/`block` is opened up in `BlockProver`, and whose guarantee (proofs are made and
written in block order) is what `LeaderClient` builds on. `RpcFetch` composes
`RetryService` and `BlockInterval`: what a program asks for, over which service, of which
blocks; it is the stage `fetch` of `LeaderClient`. `NativeTrace` is what a native node's answers become, from the
state of one block to that of the next. `CircuitStore` is what the
workers of `BlockProver` start from. `HttpLeader` uses a block's `prove` directly. An `MC…`
module holds the values TLC needs. An operator `Mut_X` next to `X` is a mistake `X` could
contain; it is used by no specification, only to test that a property would notice.

| module | models | correspondence |
|---|---|---|
| `BlockProofs` | input and proofs | `Heights` = `blocks`, a proof = the interval of blocks it covers; `Extends` = what `generate_block_proof` demands |
| `ProofChain` | the promise of `ProverInput::prove` | no channels or files: prove the next block, a task fails, return |
| `ProverInput` | `prover/src/lib.rs` | `pc[b]` = the await at which the future of block `b` is; `chan[b]` = its oneshot channel; `Outcome` = `try_collect`; actions = the code between two awaits |
| `BlockProver` | `ops/src/lib.rs`, `debug_utils.rs`, the runtime's fold | `stage[o]` = an execution of an operation, down to the steps of `save_inputs_to_disk`; `values` = the public values of a proof |
| `CircuitStore` | `common/src/prover_state`, `leader/src/utils.rs`, the `initialize` of all programs | `pc[p]` = where process `p` is in `initialize`/`put`/`load_table_circuits`; `disk[f]` = a file: whole and by which release, truncated by whom, or mixed; `env` of its command line = the version in its environment, `label[p]` = the one in its paths, a series of releases (`major.minor.x`) |
| `LeaderClient` | `client.rs`, `stdio.rs`, `prove_rpc.sh` | `phase` = the place in `client_main`; `disk` = the proof files, `pending` = writes tokio has still to do; `kept`, `lost` = history: the file of the last successful run over a block, and writes that failed |
| `HttpLeader` | `http.rs` | `pc[r]` = the handler of a request, any number of them at work on one block; `file[b]` = who wrote each piece; `rivals` = history |
| `RetryService` | `rpc/src/retry.rs` | `futures[c]` = the future of call `c`: its state, its own `retries`, the requests sent |
| `BlockInterval` | `block_interval.rs`, `parsing.rs` | operators: `NewInterval` = `BlockInterval::new` over tokens, `Cuts`, `Piece` = `str::split`, `BoundedStream` = `into_bounded_stream`; `Documented`, `Members`, `AsDocumented` = the grammar of the doc comment, as reference |
| `RpcFetch` | `rpc/src/lib.rs`, `jerigon.rs`, `native/mod.rs`, `native/state.rs` (calls), `main.rs`, `into_unbounded_stream` | `trace`, `other` = the two lanes of calls joined for a block; `got` = answers; `chain` = the node's; actions = the code between two awaits |
| `NativeTrace` | `native/txn.rs`, `native/state.rs` | one action per transaction: geth's traces of it and `process_transaction`; `infos` = `txn_infos`; `StatesAccess` = `process_states_access` |
| `…_proofs` | theorems about the module of that name | see Proofs |

External code is modelled from its use: paladin answers every request with a result or an
error, at any time, executes operations in parallel and folds adjacent results;
`generate_block_proof` fails unless the previous proof ends just before the block, and
`generate_agg_proof` unless the public values of its second operand begin where those of the first end; tokio's `File` buffers
`write_all`, writes in the background, and waits for its writes when the process ends; a oneshot channel closes when one end is
dropped. Circuit bytes are the same whoever generates them for one configuration and release.
A node answers by number from the chain it has at that moment, which a reorganisation may make shorter. Geth's prestate tracer reports the accounts a
transaction uses, and in diff mode the state before and after of those it changed.
A panic ends the program: outcome `"panic"`. In `ProverInput` it is that of `resolve_code_hash_fn`, a `todo!()`, in both builds, or of `expect` in the
`test_only` one; in `RpcFetch` an overflow in a build that checks, or a transaction or receipt of an unsupported kind.

## Runs

Passing runs:

| run | instance | shows |
|---|---|---|
| `prover_files` | 3 blocks on top of a given proof, written to files | every interleaving and failure: a chain without gap, real errors, files of a prefix whenever it stops, Ok means all handed to the file system, the call returns; refinement of `ProofChain` with its liveness |
| `prover_test_only` | 4 blocks from a checkpoint, `test_only`, proofs returned | which errors that build can return: a real failure, or a successor that was faster (that Ok means all simulated is proved for this build, too) |
| `block_fold` | up to 4 transactions, both builds, with and without saving of inputs and a debug folder; 2 faults, 1 I/O error | the public values of what is combined fit, in every order of the fold; an error is never masked by saving inputs; some inputs are saved; the call returns |
| `store` | 4 pairs of programs (leader, worker, verifier; on-demand, monolithic, none; one with a version set by hand), no folder at first; 3 releases of 2 series, 2 kills or failing writes, 1 transaction, 2 starts, of one process or both | files rewritten under each other's hands end up complete; provers in memory never miss a table; circuits of another series of releases are only used without a version in the environment, with one set by hand, or after a start between check-out and build; a start fails by itself only in the race for a new folder, which somebody wins; a start or a transaction that has begun comes to an end, whatever others have left or are writing |
| `leader_runs` | blocks 1 to 3, 3 runs of any kind over any of them: client with and without a directory and `keep_intermediate_proofs`, stdio, `test_only`; 2 faults | the file of a successful run keeps covering its blocks until a run creates that same file anew, unless its background write failed; the one kept covers all, no real proof on top of a dummy, success means the proofs were printed, and nothing is printed of a run that has not proved all |
| `http_serve` | 2 requests for one block, 1 for another, at work at any time; 2 pieces per file, 2 kills | an answered proof has pieces of no other than those that were writing when its file was created; a whole one stays until its own block is written again |
| `rpc_fetch` | the three programs, every argument of up to 5 tokens, both kinds of nodes, 64-bit numbers shrunk to 0..4, a window of 2 previous hashes; a header without a field and an unsupported transaction in block 2; 1 retry, and 2 of: a reorganisation to a chain of any length, failures of the transport, error messages | arguments mean what the doc comment says; hashes are in their places in whatever order the headers come; the parts of a block are of one chain and follow the block before unless the block or its parent was reorganised meanwhile; Ok means the whole interval; errors have a cause; the follow-from stream has no gap, repeats nothing when the chain goes back, and catches up; a fetch ends |
| `native_trace` | 2 accounts, 2 slots, 2 codes, up to 2 transactions that change balances, nonces and storage, create and destroy contracts, in one transaction too, with and without access lists that repeat an address | replaying the traces gives the node's state; the witness covers what was used and nothing else; every code that ran is known |

Runs that find a violation, each of one property taken from a doc, comment or message (see `findings` in
`PROJECT.json`):

| run | finding |
|---|---|
| `prover_lost_write` | `write_proof` does not flush: a failed write is reported as success |
| `store_kill_missing_tables` | a kill between base circuits and tables leaves a folder with which every later start succeeds and every transaction fails |
| `http_torn_file` | two requests for one block at the same time, or one that is sent again, end in a mixed file and status 200 |
| `interval_follow_start` | the stream of `1..` begins with block 2 |

Met while modelling, part of the models or left out of them as said, and the subject of no run of its own:

* In the `test_only` build a block that is simulated faster than its predecessor makes the
  call fail with "Failed to send proof" (`prover/src/lib.rs:172`): `FailedOrOvertaken` says that this is the only such error.
* The client prints one proof (`client.rs:103`), the verifier reads a list, and the README of the repository
  (`README.md:230`) passes one to the other: layout is not modelled.
* Two on-demand provers of different configurations share the tables of a folder; a table
  outside the own range can then be found, and its offset (`mod.rs:172`) underflows: outcome
  `bad_offset` of `CircuitStore`.
* The second of two processes that create the circuits folder at once fails to start
  (`persistence.rs:77`), and the second of two failing operations that create the debug
  folder does not save its inputs (`debug_utils.rs:40`): both are steps of the models.
* Only the leader puts its version into its environment, and only if none is there (`leader/src/main.rs:42`); workers and verifiers use the path of
  version "NA" and load the circuits of an older release after an upgrade. The leader cuts its version to `major.minor.x`, so that
  releases of one series share their circuits by design. Its version is the one in the `Cargo.lock` of the source tree when it starts, not that of the build, and
  without the source tree it does not start. `StaleHasCause` names these, and a version that somebody sets by hand, as the only ways to circuits of another series.
* A leader with a follow-from interval fetches the checkpoint and then always fails, as
  `into_bounded_stream` refuses it: `StartLeader`, `OpenStream`.
* An inclusive range that ends at `u64::MAX` panics in a build with overflow checks and is
  empty, with success, in one without (`parsing.rs:72`): `ParsesAsDocumented` and `ErrorHasCause` state both.
* `rpc fetch` from block 0 computes `start - 1` even when a checkpoint is given
  (`rpc/src/main.rs:53`), a native node's block 0 has no state before (`state.rs:36`), a transaction or receipt of an unsupported kind
  reaches an `unreachable!()` or a `panic!` (`txn.rs:82`, `:304`): panics of `RpcFetch`. A block without `mix_hash`, `base_fee_per_gas` or `hash` is an error after all its
  headers were fetched.
* A reorganisation of a block or its parent while it is fetched mixes two chains in one prover input: `OneChain` holds below `low`, the lowest height
  reorganised meanwhile.
* When the chain goes back, the follow-from stream waits at its number, and later produces the numbers above it from the new chain: `Poll`.
* An error message of the node is not retried, only failures of the transport are: `RetryService`.
* All aggregations of a block share one log name: `log` in `BlockProver` is the set of its writers.
* The client logs success before it proves (`client.rs:49`), and `prove_rpc.sh` looks for that
  line: logging is not modelled.
* A run over blocks whose proofs are on disk truncates their files before it has new proofs, and a `test_only` run
  leaves dummies in them: steps of `LeaderClient`, which gives up `kept` where a file is created anew.
* A successful run's file may lack its bytes (the background write failed), and clean-up then deletes the proofs before it: `lost` in `LeaderClient`.

Bounds and why they are enough. Channels connect neighbours, so three blocks
have a first, a middle and a last one and four have two middle ones; the proofs cover any number.
Four transactions are the least for which two combinations can run at once. Two processes
suffice for a race on the folder; two sizes give two configurations that share
some tables; two starts are a race, or a first one that is killed or fails and a later one that finds what it has left, or one before and one after an upgrade.
The proofs cover any number of processes, starts, circuits and sizes.
Two previous hashes have a left and a right place, and, with heights up to 2, a block with as many ancestors as
places and one with fewer. One retry gives calls that succeed at the second attempt and calls that give up;
two faults let two calls fail at once, or one call twice. Five tokens hold the longest
documented form, and longer ones with surplus pieces are added in `MCArgs`. Two transactions are the
least of which one uses what the other made or destroyed; balances and nonces of 0 and 1 tell changes from none.
In `native_trace` a transaction changes at most one account (`MaxChanged`) and reads the other or not; the theorems hold for every value of that bound. Three runs are the least in which a run continues from one that failed after continuing from
a successful one. Every bound is a constant (`MaxKills`, `MaxIoErrors`, `MaxTxns`, `MaxRuns`,
`MaxFaults`, `MaxStarts`, `MaxReorgs`, `MaxHeight`, `MaxRetries`, `MaxVersion`, `MaxTxs`, `MaxChanged`, `MaxBalance`, `MaxNonce`, `Height`, `Chunks`, `T`). `Series`
maps releases to their series, two of the run's three to one; `Lacking` and `Unsupported` say which blocks cannot be fetched: in the run block 2, which is
not there at the start, so that blocks 0 and 1 are fetched in every other way; the theorems hold for any. Deadlock checking is off where the bounds, or a call that
has returned, leave nothing to do; the liveness properties exclude an early stop.

Fairness. `ProverInput`, `BlockProver`, `HttpLeader`: the executor polls woken futures, and
paladin and the file system answer every request (neither paladin as used nor the code has a timeout, so without
this assumption nothing would hold). `CircuitStore`: a process goes on with
the start or the transaction it has begun (its own sequential code); that it is started at all, or again, or ends, is not assumed, as nothing in the repository starts it again. `RpcFetch`: `Work`
is fair, that is, answers come or the transport fails (a timeout of the connection is such a failure), backoffs end, and the program is polled;
the node need not move, and answers may come in any order.
Failures, reorganisations, releases and kills are never fair. `NativeTrace` and `RetryService` have no liveness of their own. `LeaderClient` has no liveness property: a run
is driven by an operator. `HttpLeader`: only handlers are fair, clients and restarts are not.

## Proofs

Each module of proofs holds for all values of the constants under the named assumptions of the
module it is about: any number of blocks, transactions, calls, requests, processes, runs
and faults. In each the properties follow from one inductive invariant, by `Init`, a lemma per action
or per kind of step, and the three facts put together by PTL.

`ProverInput_proofs`:

* `TypeCorrect`.
* `Invariance`: the inductive invariant `Inv`. The properties are not inductive by
  themselves: that the error in front is a real one depends on why a channel is closed or
  unheard, so `Inv` says what each state of a channel implies about the futures at its two
  ends (`InvChannel`), which error each dead future died of (`InvError`), which
  predecessors have finished when a block has received (`InvReceived`), where a future is when
  it has a proof (`InvProof`) and when it has a file (`InvFile`). One lemma per
  kind of step (fail, send, advance, receive) keeps the links; the steps of the code use them.
* `RootCause`, `FilesArePrefix`, `Coverage` for the normal build and
  `OkIsComplete` and `NamesFirstFailure` for both: the properties of the runs. `Coverage` is an induction over steps,
  not over blocks: a new proof extends the predecessor's, which already covers everything before it.
* `Implements`: initial states and steps of the normal build map to those of `ProofChain`.
* `FuturesGoForward` and `NothingWaitsInVain`: what is left of the termination of `prove()` without fairness. Every step takes one
  future forward through at most seven awaits, and while the call runs some future can step: all blocks before the first
  unfinished one (`LeastBlock`) are done, so its channel holds the proof, and nobody but itself could have taken it (`Delivered`).

`BlockProver_proofs` (`BlockTypes`, `FoldIsSound`, `NoMaskedErrors`, `SomeSaved`, `OperationsGoForward`, `FoldNeverStops`). That the public
values of two operands fit is no property of `Combine`, which knows only where they belong: they were made by earlier combinations. `Linked` says that the
proof of every span that waits, or is an operand of an operation at work, has the values of that span, and is kept by every order of the fold, since spans at hand
are apart; so no operation fails by itself, and the last one is given the values of the whole block (`WholeBlock`). That a block is
not proved after a failure is a matter of arithmetic on intervals: what is active and
what waits is apart (`Apart`) and within the block (`Within`), so one proof of the whole block leaves no room for
a failed operation (`Top`, `Counted`). `Saved` follows the race for the debug folder: the operation that
loses `create_dir` has seen the winner, which has its log still to write or has written it.
`OperationsGoForward` and `FoldNeverStops`: each operation is executed at most once, and a running fold can always go on. When
no operation is active the proofs that wait have no gap, since what every finished operation proved is contained in one of
them (`Progress`): two of them adjoin, or one is of the whole block.

`LeaderClient_proofs` (`ClientTypes`, `NothingLost`, `KeptProofCovers`, `Delivered`). `Course` says what
is behind a run at each phase, `Own` that what it writes, or tokio still has to write for it, is of its own blocks, and that nothing is left to write
between runs, `Written` that the file of a block it has built is written, pending or lost, and `Given` that the files it has created are no longer those of an
earlier run (`kept`). Clean-up removes only such files, so none that an earlier run has left its proof in.

`HttpLeader_proofs` (`HttpTypes`, `WholeProofs`, `Replacement`). Any number of handlers may work on one block. `OthersWereThere`: besides the handler that created
a file last, only those can still write into it that were writing then, and they are its `rivals`; handlers
that come later make the file theirs. `Pieces`: what is before the maker's offset is its own or a rival's.

`CircuitStore_proofs` (`StoreTypes`, `StaleCauses`, `RaceIsWon`, `MemorySuffices`, `Completeness`, `NoProcessIsStuck`). `Releases` and `Labelled`
tie the series of every file to its path; `Race` that without faults whoever made a folder that was not there is at its first file or has left a file, and that a start which failed without an
I/O error has written nothing; `Memory` says what a ready process
holds. `Completeness` needs three facts together: a process that has opened its base writes all the rest
(`Pending`), a file beside a base exists or is in the hands of one that has begun (`Followed`), and without faults a
cut file is being written by whoever cut it last (`Whole`). `NoProcessIsStuck` is the part of `EveryStartEnds` that needs no
fairness: a process that persists has a file left (`Unwritten`), any set of its files has a first one (`SomeFirst`, with the least
table by circuit and size), and every file can be read or fail to be, whatever others have left in it.

`BlockInterval_proofs` (`ParserAsDocumented`): the parser means what is documented on arguments of every length.
What it accepts depends on where an argument of any length is split, and `Cuts` is a set that is defined by
itself: an occurrence is a cut if it is behind the cuts before it. That there is exactly one such set is an induction over the
argument; it is done with a least counterexample (`Least`, from the theorem that the natural numbers are well-founded) instead of an
induction schema, over the cuts up to a place (`CutsUpTo`, `CutsAre`). After that the proof goes by the form of the
argument: each documented form determines its cuts, hence its pieces (`SingleParsed` to `FollowParsed`); conversely an argument that is
not documented and is accepted has a second cut, or one number and separators only (`OthersParsed`).

`RpcFetch_proofs` (`RetryInvariance`, `Tries`, `FetchUsesService`, `FetchTries`, `FetchTypeOK`, `ParsedAsDocumented`,
`HashesPlaced`, `ChainIsOne`, `Streams`, `CauseOfErrors`, `NothingAwaitedInVain`). First the retrying service by itself: a call has sent one request more
than its policy counts, and sleeps only with retries left. Then `FetchInvariance`: every step of block fetching is a step of the
service, which makes it an implementation of `RetrySpec` (`FetchUsesService`) with all that was proved of that.
`ParsedAsDocumented` is `ParserAsDocumented` for the argument at hand. Then `RunInvariance`, whose invariant `RunInv` ties the calls to the stages of a block: each call belongs to one stage
(`StageOf`), what is in flight belongs to a stage that is awaited (`Current`), and every call of a stage that is over
(`Passed`) was answered well (`Calling`). `Contents` says what an answer may be: a hash of the
height asked for, and of the node's present chain as long as that height was not reorganised since the last block (`Chained`; `AncestorHash` for the headers, `LastBlock` for the block before). So when both lanes
are done (`Complete`), the header of every place is there (`Previous`), and the other answers speak of the block or of its
parent (`Spoken`); `ChainKeeps` carries both what is fetched and what is in flight over every move of the chain. `Stream`
counts: the number at hand is the first one plus the blocks fetched, and a stream that follows is below `peak`, the longest chain there ever was, since the chain may go back. `CauseInv` comes on top: every
try of a call but the last is a failure of the transport (`Tried`), and a node that knows nothing never had
it or has lost it, which takes a reorganisation (`Unknown`, `Grown`, `LostIsCause`). The proofs need that the chain never reaches the largest `u64` (`FetchAssumption`), so that the wrapped
number before block 0 is always unknown to the node. `NothingAwaitedInVain`, under `Returns` and `FollowCatchesUp`: all calls that a
stage awaits are in flight (`Waiting`), so that none waits for a call that was dropped or never made, and of the headers and transactions,
whose errors surface in order, the first that failed is never held back (`FirstSurfaces`, `NoneHeldBack`).

`NativeTrace_proofs` (`TraceTypes`, `Replays`, `BlockIsReplayed`, `WitnessComplete`, `KnownCodes`). First, what geth's three
traces say of one account and what `process_tx_traces` makes of them (`PostTrace`, `PreTrace`, `TraceFields`), then
its replay by cases: not used, destroyed, unchanged, changed (`ReplayedEffect`), and a whole transaction
(`TransactionReplays`). These lemmas need no invariant and no bound on the accounts that a transaction changes; the theorems are about `Spec`, for every `MaxChanged`, where the run has 1. The invariant ties the history to the traces: an account or slot
was used exactly when a transaction's trace reaches it (`UsedAccounts`, `UsedSlots`, from `TracedSlots`). `BlockIsReplayed` says
of the whole block that some sequence of states leads from the one before it to the one at hand, each the replay of a
transaction's trace on the one before; the invariant carries that sequence and every transaction appends to it (`ReplayExtends`).

Every invariant of a passing run is a theorem. Only model-checked: liveness (`Returns`, the liveness conjunct of `ProofChain`,
`EveryStartEnds`, `EveryRequestEnds`, `FollowCatchesUp`) and whatever else concerns fairness, beyond the prover. What fairness
works on is proved, for all values of the constants, where it is not obvious: something can always go on (`NothingWaitsInVain`, `FoldNeverStops`,
`NothingAwaitedInVain`, `NoProcessIsStuck`), with the guards of the actions written out in place of `ENABLED`, and steps go forward
only (`FuturesGoForward`, `OperationsGoForward`).

## Assumptions to know

* In `LeaderClient` standard output is open (std takes writes to a closed one for successes), and a process that is not killed waits for tokio's writes before it ends.
* `HttpLeader` has `std::fs` write at once, without a buffer, in pieces of any number; kills between pieces are modelled, power failures are not.
* In `CircuitStore` a file of another release may or may not deserialize, and a file that two releases write at
  once does not. A process on the path of another release is marked `stale`; what comes of its proofs is left open.
* In `RpcFetch` a hash is the chain up to its block, so that hashes differ when anything
  before them does. A call for something the node does not have is answered with nothing, an error for the program. The
  transactions of a block are asked for by hash, everything else by number.
* `BlockInterval` works on tokens: the digits of a number, surrounding white space and the 64 digits of a hash are not spelt out.
* `NativeTrace` takes geth's tracer as it is when a `SELFDESTRUCT` deletes its account; the later rule, by which it only
  does so in the transaction that created it, is not modelled. Balances paid to the block's author and by withdrawals are outside
  of the transactions, their accounts inside of the witness.
* Proof contents, circuits, hashes and the cryptography are values without structure.

## Not modelled

* `rpc/src/compat.rs`: conversions field by field, without state or branches.
* Of `rpc/src/lib.rs` and `main.rs`: the content of a block's metadata and withdrawals beyond their
  number, chain and receivers, and the printing of `rpc fetch`.
* The tries and their proofs (`native/state.rs` builds partial tries with the trace decoder): which accounts and slots
  they cover is in `NativeTrace`, which state they are taken from in `RpcFetch`.
* The verifier's loop and the worker's (a call of the paladin runtime); tracing and the
  argument parser (clap); the check of the output directory's existence.
* The paladin runtime, plonky2 and the trace decoder, which are external.

What would come next: a composition of `RpcFetch` and `ProverInput` in which the leader's input is fetched.
