----------------------------- MODULE NativeTrace -----------------------------
(***************************************************************************)
(* What the prover input says of a block of a native node                  *)
(* (rpc/src/native/txn.rs, state.rs): the traces of geth's prestate tracer *)
(* are turned, transaction by transaction, into the accesses, writes and   *)
(* code uses of every account, and from these follows which accounts and   *)
(* slots the witness of the block's pre-state proves.                      *)
(*                                                                         *)
(* An Option is a set with at most one element.  A map is a function whose *)
(* domain is the set of its keys.  An operator Mut_X is a mistake that X   *)
(* could contain.                                                          *)
(***************************************************************************)
EXTENDS Naturals, Sequences, SequencesExt, FiniteSets

CONSTANTS
  Accounts,    \* addresses
  Slots,       \* storage keys
  Codes,       \* code of contracts, standing for its hash too
  NoCode,      \* the code of all other accounts
  MaxBalance,  \* bound: balances
  MaxNonce,    \* bound: nonces
  MaxTxs,      \* bound: transactions of the block
  MaxChanged,  \* bound: accounts that a transaction changes
  Starts,      \* states that a block may start from
  AccessLists  \* access lists that a transaction may have, a sequence of items

ASSUME TraceAssumption ==
  /\ NoCode \notin Codes
  /\ AccessLists \subseteq Seq([address : Accounts, keys : SUBSET Slots])
  /\ MaxBalance \in Nat /\ MaxNonce \in Nat \ {0} /\ MaxTxs \in Nat
  /\ MaxChanged \in Nat

(* An account of the node's state; one that does not exist is empty. *)
Account == [balance : 0 .. MaxBalance, nonce : 0 .. MaxNonce,
            code : Codes \cup {NoCode}, storage : [Slots -> 0 .. 1]]
Empty   == [balance |-> 0, nonce |-> 0, code |-> NoCode, storage |-> [s \in Slots |-> 0]]

(* Only contracts have storage, and their nonce starts at 1. *)
Possible == {x \in Account : IF x.code = NoCode THEN x.storage = Empty.storage ELSE x.nonce > 0}

ASSUME StartsAssumption == Starts \subseteq [Accounts -> Possible]

VARIABLES
  before,       \* the state before the block
  world,        \* the state after the transactions so far
  miner,        \* the block's author
  withdrawals,  \* the receivers of its withdrawals
  touched,      \* the accounts and slots that transactions used (history)
  ran,          \* the codes they found or left in accounts they used (history)
  infos,        \* txn_infos
  codeDb        \* code_db

vars == <<before, world, miner, withdrawals, touched, ran, infos, codeDb>>

-------------------------------------------------------------------------------
(* The node: geth's prestate tracer *)

Some(P, x) == IF P THEN {x} ELSE {}

(* What a transaction does to an account: the state it leaves, the slots   *)
(* it reads or writes, and whether it creates a contract there or destroys *)
(* the one that is there, or both.                                         *)
Effects(x) ==
  {e \in [after : Possible, slots : SUBSET Slots, created : BOOLEAN, destroyed : BOOLEAN] :
     /\ \A s \in Slots : x.storage[s] # e.after.storage[s] => s \in e.slots
     /\ e.destroyed \/ e.after.nonce >= x.nonce
     /\ e.created => x.code = NoCode /\ x.nonce = 0
     /\ e.destroyed => e.after = Empty /\ (x.code # NoCode \/ e.created)
     /\ ~e.destroyed => (e.after.code # x.code <=> e.created)}

Reads(x, slots) == [after |-> x, slots |-> slots, created |-> FALSE, destroyed |-> FALSE]

(* Without diff mode: all accounts used, as they were before. *)
ReadTrace(effects) ==
  [a \in DOMAIN effects |->
     [balance |-> {world[a].balance},
      nonce   |-> Some(world[a].nonce # 0, world[a].nonce),
      code    |-> Some(world[a].code # NoCode, world[a].code),
      storage |-> [s \in effects[a].slots |-> world[a].storage[s]]]]

Changed(x, e) == {s \in e.slots : x.storage[s] # e.after.storage[s]}

(* With it: the accounts that changed, without the slots that did not, and *)
(* without those that are zero; a created contract has no state before,    *)
(* and a destroyed one none after.                                         *)
DiffPre(effects) ==
  [a \in {b \in DOMAIN effects :
            /\ effects[b].destroyed \/ world[b] # effects[b].after
            /\ effects[b].created => world[b] # Empty} |->
     [balance |-> {world[a].balance},
      nonce   |-> Some(world[a].nonce # 0, world[a].nonce),
      code    |-> Some(world[a].code # NoCode, world[a].code),
      storage |-> [s \in IF effects[a].destroyed THEN effects[a].slots
                         ELSE {t \in Changed(world[a], effects[a]) : world[a].storage[t] # 0}
                     |-> world[a].storage[s]]]]

DiffPost(effects) ==
  [a \in {b \in DOMAIN effects : ~effects[b].destroyed /\ world[b] # effects[b].after} |->
     LET x == world[a]
         y == effects[a].after
     IN [balance |-> Some(x.balance # y.balance, y.balance),
         nonce   |-> Some(x.nonce # y.nonce, y.nonce),
         code    |-> Some(x.code # y.code, y.code),
         storage |-> [s \in {t \in Changed(x, effects[a]) : y.storage[t] # 0} |-> y.storage[s]]]]

-------------------------------------------------------------------------------
(* txn.rs *)

Get(map, key) == {map[k] : k \in {key} \cap DOMAIN map}

(* parse_access_list: an address may have several items. *)
ParseAccessList(list) ==
  [a \in {list[i].address : i \in 1 .. Len(list)} |->
     UNION {list[i].keys : i \in {j \in 1 .. Len(list) : list[j].address = a}}]

(* process_storage: what is read, and what is written, zero where the      *)
(* state before has a slot that the state after has not.                   *)
StorageRead(access, read) == access \cup UNION {DOMAIN x.storage : x \in read}

Mut_StorageWritten(post, pre) ==
  [s \in UNION {DOMAIN x.storage : x \in post} |-> CHOOSE v \in {x.storage[s] : x \in post} : TRUE]

StorageWritten(post, pre) ==
  [s \in UNION {DOMAIN x.storage : x \in post \cup pre} |->
     IF \E x \in post : s \in DOMAIN x.storage
     THEN (CHOOSE x \in post : TRUE).storage[s] ELSE 0]

(* process_code: code that is new is written, other code is read. *)
CodeUsage(post, read) ==
  LET new == UNION {x.code : x \in post}
  IN [write |-> new, read |-> IF new # {} THEN {} ELSE UNION {x.code : x \in read}]

(* process_nonce: a created contract has at least nonce 1. *)
Nonce(post, code) ==
  LET new == UNION {x.nonce : x \in post}
  IN IF new # {} THEN new ELSE Some(code.write # {}, 1)

(* process_self_destruct *)
Mut_SelfDestructed(post, pre) == pre # {}

SelfDestructed(post, pre) == post = {} /\ pre # {}

(* process_tx_traces *)
TxTraces(access, read, pre, post) ==
  [a \in DOMAIN read \cup DOMAIN post \cup DOMAIN pre \cup DOMAIN access |->
     LET code == CodeUsage(Get(post, a), Get(read, a))
     IN [balance         |-> UNION {x.balance : x \in Get(post, a)},
         nonce           |-> Nonce(Get(post, a), code),
         storage_read    |-> StorageRead(UNION Get(access, a), Get(read, a)),
         storage_written |-> StorageWritten(Get(post, a), Get(pre, a)),
         code_usage      |-> code,
         self_destructed |-> SelfDestructed(Get(post, a), Get(pre, a))]]

Mut_CodesOf(traces) == UNION {traces[a].code_usage.write : a \in DOMAIN traces}

CodesOf(traces) ==
  UNION {traces[a].code_usage.write \cup traces[a].code_usage.read : a \in DOMAIN traces}

-------------------------------------------------------------------------------
(* process_states_access: the receivers of withdrawals and the author      *)
(* first, then what the transactions read and wrote.                       *)

Mut_StatesAccess ==
  [a \in withdrawals \cup {miner} \cup UNION {DOMAIN infos[i] : i \in 1 .. Len(infos)} |->
     IF a \in withdrawals \cup {miner} THEN {}
     ELSE UNION {DOMAIN infos[i][a].storage_written \cup infos[i][a].storage_read :
                   i \in {j \in 1 .. Len(infos) : a \in DOMAIN infos[j]}}]

StatesAccess ==
  [a \in withdrawals \cup {miner} \cup UNION {DOMAIN infos[i] : i \in 1 .. Len(infos)} |->
     UNION {DOMAIN infos[i][a].storage_written \cup infos[i][a].storage_read :
              i \in {j \in 1 .. Len(infos) : a \in DOMAIN infos[j]}}]

-------------------------------------------------------------------------------
Init ==
  /\ before \in Starts /\ world = before
  /\ miner \in Accounts /\ withdrawals \in {{}, Accounts \ {miner}}
  /\ touched = [a \in {} |-> {}] /\ ran = {} /\ infos = <<>> /\ codeDb = {}

(* The next transaction: its access list, whose slots count as used, what  *)
(* it does to the accounts it uses, and process_transaction.               *)
Transaction(list, effects) ==
  LET traces == TxTraces(ParseAccessList(list), ReadTrace(effects), DiffPre(effects),
                         DiffPost(effects))
      used   == DOMAIN effects \cup {list[i].address : i \in 1 .. Len(list)}
  IN /\ world'   = [a \in Accounts |-> IF a \in DOMAIN effects THEN effects[a].after ELSE world[a]]
     /\ touched' = [a \in used \cup DOMAIN touched |->
                      (UNION Get(touched, a)) \cup (UNION {e.slots : e \in Get(effects, a)})
                        \cup UNION {list[i].keys : i \in {j \in 1 .. Len(list) : list[j].address = a}}]
     /\ ran'     = (ran \cup {world[a].code : a \in DOMAIN effects}
                         \cup {world'[a].code : a \in DOMAIN effects}) \ {NoCode}
     /\ infos'   = Append(infos, traces)
     /\ codeDb'  = codeDb \cup CodesOf(traces)
     /\ UNCHANGED <<before, miner, withdrawals>>

(* Bound: a transaction changes at most MaxChanged accounts, and reads none *)
(* or all of the slots of the other ones that it uses.                      *)
Next ==
  Len(infos) < MaxTxs /\ \E list \in AccessLists, changed \in SUBSET Accounts :
    /\ Cardinality(changed) <= MaxChanged
    /\ \E effects \in [changed -> UNION {Effects(world[a]) : a \in changed}],
          others \in SUBSET (Accounts \ changed), slots \in {{}, Slots} :
         /\ \A a \in changed : effects[a] \in Effects(world[a])
         /\ Transaction(list, [a \in changed \cup others |->
                                IF a \in changed THEN effects[a] ELSE Reads(world[a], slots)])

Spec == Init /\ [][Next]_vars

-------------------------------------------------------------------------------
(* What the decoder of the traces does: the reference they are held to.    *)

Replay(state, traces) ==
  [a \in Accounts |->
     IF a \notin DOMAIN traces THEN state[a]
     ELSE IF traces[a].self_destructed THEN Empty
     ELSE LET new(option, old) == IF option = {} THEN old ELSE CHOOSE v \in option : TRUE
              t == traces[a]
          IN [balance |-> new(t.balance, state[a].balance),
              nonce   |-> new(t.nonce, state[a].nonce),
              code    |-> new(t.code_usage.write, state[a].code),
              storage |-> [s \in Slots |-> IF s \in DOMAIN t.storage_written
                                           THEN t.storage_written[s]
                                           ELSE state[a].storage[s]]]]

-------------------------------------------------------------------------------
(* Properties *)

(* TxnTrace: code is written or read, not both, and an account that is     *)
(* destroyed is not given anything.                                        *)
TxnTraceOK(t) ==
  /\ Cardinality(t.balance) <= 1 /\ Cardinality(t.nonce) <= 1
  /\ Cardinality(t.code_usage.write \cup t.code_usage.read) <= 1
  /\ t.self_destructed => t.balance \cup t.nonce \cup t.code_usage.write = {}
  /\ t.storage_read \cup DOMAIN t.storage_written \subseteq Slots

TypeOK ==
  /\ before \in [Accounts -> Possible] /\ world \in [Accounts -> Possible]
  /\ miner \in Accounts /\ withdrawals \subseteq Accounts
  /\ DOMAIN touched \subseteq Accounts /\ \A a \in DOMAIN touched : touched[a] \subseteq Slots
  /\ Len(infos) <= MaxTxs
  /\ \A i \in 1 .. Len(infos) : \A a \in DOMAIN infos[i] : TxnTraceOK(infos[i][a])
  /\ ran \subseteq Codes /\ codeDb \subseteq Codes

(* Replaying the trace of a transaction on the state before it leads to    *)
(* the node's state after it, and so the traces of a block, one after the  *)
(* other, to the state after the block: nothing that a transaction did is  *)
(* lost between geth's three traces, in particular no slot it cleared and  *)
(* no account it created or destroyed.                                     *)
TransactionsReplay ==
  [][infos' # infos => Replay(world, Last(infos')) = world']_vars

(* The witness proves every account and every slot that any transaction    *)
(* used, and the accounts that the block itself pays, and no others.       *)
WitnessCovers ==
  /\ DOMAIN StatesAccess = DOMAIN touched \cup withdrawals \cup {miner}
  /\ \A a \in DOMAIN touched : touched[a] = StatesAccess[a]

(* The code that a transaction finds in an account it uses, or leaves in   *)
(* one, is in the code database, also when another transaction made it or  *)
(* destroys it.  Code created and destroyed within one transaction is in   *)
(* no trace of geth's and not in the database.                             *)
CodesAreKnown == ran \subseteq codeDb

===============================================================================
