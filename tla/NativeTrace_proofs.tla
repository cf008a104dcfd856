-------------------------- MODULE NativeTrace_proofs --------------------------
(***************************************************************************)
(* Proofs about NativeTrace, for any accounts, slots and codes, any        *)
(* numbers in them and any number of transactions.                         *)
(***************************************************************************)
EXTENDS NativeTrace, SequenceTheorems, FiniteSetTheorems, TLAPS

(* What a transaction does to the accounts it uses. *)
IsEffects(effects) ==
  /\ DOMAIN effects \subseteq Accounts
  /\ \A a \in DOMAIN effects : effects[a] \in Effects(world[a])

TracesOf(list, effects) ==
  TxTraces(ParseAccessList(list), ReadTrace(effects), DiffPre(effects), DiffPost(effects))

States == world \in [Accounts -> Possible]

-------------------------------------------------------------------------------
LEMMA OneGets ==
  ASSUME NEW map, NEW key
  PROVE  /\ key \in DOMAIN map => Get(map, key) = {map[key]}
         /\ key \notin DOMAIN map => Get(map, key) = {}
<1>1. CASE key \in DOMAIN map
  BY <1>1 DEF Get
<1>2. CASE key \notin DOMAIN map
  BY <1>2 DEF Get
<1> QED
  BY <1>1, <1>2

LEMMA UnionOfOne == ASSUME NEW S PROVE UNION {S} = S /\ UNION {} = {}
  OBVIOUS

(* What is known of an account before and after a transaction. *)
LEMMA Shapes ==
  ASSUME States, NEW effects, IsEffects(effects), NEW a \in DOMAIN effects
  PROVE  /\ a \in Accounts
         /\ world[a] \in Possible /\ world[a] \in Account
         /\ effects[a] \in [after : Possible, slots : SUBSET Slots, created : BOOLEAN,
                            destroyed : BOOLEAN]
         /\ effects[a].after \in Account
<1>1. a \in Accounts /\ effects[a] \in Effects(world[a])
  BY DEF IsEffects
<1>2. Possible \subseteq Account
  BY DEF Possible
<1> QED
  BY <1>1, <1>2 DEF States, Effects

(* An account that is only read is used without an effect. *)
LEMMA ReadsAreEffects ==
  ASSUME NEW x \in Possible, NEW slots \in SUBSET Slots
  PROVE  Reads(x, slots) \in Effects(x)
<1>1. x \in Account /\ x.nonce \in 0 .. MaxNonce
  BY DEF Possible, Account
<1> QED
  BY <1>1, TraceAssumption DEF Reads, Effects

-------------------------------------------------------------------------------
(* The effect of a transaction on one account, field by field. *)

PostOf(x, e) ==
  [balance |-> Some(x.balance # e.after.balance, e.after.balance),
   nonce   |-> Some(x.nonce # e.after.nonce, e.after.nonce),
   code    |-> Some(x.code # e.after.code, e.after.code),
   storage |-> [s \in {t \in Changed(x, e) : e.after.storage[t] # 0} |-> e.after.storage[s]]]

(* Whether the account is in the two states that diff mode returns. *)
InPost(x, e) == ~e.destroyed /\ x # e.after
InPre(x, e)  == (e.destroyed \/ x # e.after) /\ (e.created => x # Empty)

LEMMA PostTrace ==
  ASSUME NEW effects, NEW a \in DOMAIN effects
  PROVE  /\ InPost(world[a], effects[a]) => Get(DiffPost(effects), a) = {PostOf(world[a], effects[a])}
         /\ ~InPost(world[a], effects[a]) => Get(DiffPost(effects), a) = {}
<1>1. CASE InPost(world[a], effects[a])
  <2>1. a \in DOMAIN DiffPost(effects)
    BY <1>1 DEF DiffPost, InPost
  <2>2. DiffPost(effects)[a] = PostOf(world[a], effects[a])
    BY <2>1 DEF DiffPost, PostOf
  <2> QED
    BY <1>1, <2>1, <2>2, OneGets
<1>2. CASE ~InPost(world[a], effects[a])
  <2>1. a \notin DOMAIN DiffPost(effects)
    BY <1>2 DEF DiffPost, InPost
  <2> QED
    BY <1>2, <2>1, OneGets
<1> QED
  BY <1>1, <1>2

PreSlots(x, e) ==
  IF e.destroyed THEN e.slots ELSE {t \in Changed(x, e) : x.storage[t] # 0}

PreOf(x, e) ==
  [balance |-> {x.balance},
   nonce   |-> Some(x.nonce # 0, x.nonce),
   code    |-> Some(x.code # NoCode, x.code),
   storage |-> [s \in PreSlots(x, e) |-> x.storage[s]]]

LEMMA PreTrace ==
  ASSUME NEW effects, NEW a \in DOMAIN effects
  PROVE  /\ InPre(world[a], effects[a]) => Get(DiffPre(effects), a) = {PreOf(world[a], effects[a])}
         /\ ~InPre(world[a], effects[a]) => Get(DiffPre(effects), a) = {}
<1>1. CASE InPre(world[a], effects[a])
  <2>1. a \in DOMAIN DiffPre(effects)
    BY <1>1 DEF DiffPre, InPre
  <2>2. DiffPre(effects)[a] = PreOf(world[a], effects[a])
    BY <2>1 DEF DiffPre, PreOf, PreSlots
  <2> QED
    BY <1>1, <2>1, <2>2, OneGets
<1>2. CASE ~InPre(world[a], effects[a])
  <2>1. a \notin DOMAIN DiffPre(effects)
    BY <1>2 DEF DiffPre, InPre
  <2> QED
    BY <1>2, <2>1, OneGets
<1> QED
  BY <1>1, <1>2

ReadOf(x, e) ==
  [balance |-> {x.balance},
   nonce   |-> Some(x.nonce # 0, x.nonce),
   code    |-> Some(x.code # NoCode, x.code),
   storage |-> [s \in e.slots |-> x.storage[s]]]

LEMMA ReadTraces ==
  ASSUME NEW effects, NEW a \in DOMAIN effects
  PROVE  Get(ReadTrace(effects), a) = {ReadOf(world[a], effects[a])}
<1>1. a \in DOMAIN ReadTrace(effects)
  BY DEF ReadTrace
<1>2. ReadTrace(effects)[a] = ReadOf(world[a], effects[a])
  BY <1>1 DEF ReadTrace, ReadOf
<1> QED
  BY <1>1, <1>2, OneGets

(* An account that is only in the access list is in no trace. *)
LEMMA NoTrace ==
  ASSUME NEW effects, NEW a, a \notin DOMAIN effects
  PROVE  /\ Get(ReadTrace(effects), a) = {}
         /\ Get(DiffPre(effects), a) = {}
         /\ Get(DiffPost(effects), a) = {}
<1>1. /\ a \notin DOMAIN ReadTrace(effects)
      /\ a \notin DOMAIN DiffPre(effects)
      /\ a \notin DOMAIN DiffPost(effects)
  BY DEF ReadTrace, DiffPre, DiffPost
<1> QED
  BY <1>1, OneGets

-------------------------------------------------------------------------------
(* Replay of one transaction *)

ListOf(list) == {list[i].address : i \in 1 .. Len(list)}

LEMMA TracedAccounts ==
  ASSUME NEW list, NEW effects
  PROVE  DOMAIN TracesOf(list, effects) = DOMAIN effects \cup ListOf(list)
<1>1. DOMAIN ParseAccessList(list) = ListOf(list)
  BY DEF ParseAccessList, ListOf
<1>2. /\ DOMAIN ReadTrace(effects) = DOMAIN effects
      /\ DOMAIN DiffPost(effects) \subseteq DOMAIN effects
      /\ DOMAIN DiffPre(effects) \subseteq DOMAIN effects
  BY DEF ReadTrace, DiffPre, DiffPost
<1> QED
  BY <1>1, <1>2 DEF TracesOf, TxTraces

(* The trace of an account, from what the three traces of geth say of it. *)
Balance(post) == UNION {x.balance : x \in post}

TraceFrom(access, read, pre, post) ==
  [balance         |-> Balance(post),
   nonce           |-> Nonce(post, CodeUsage(post, read)),
   storage_read    |-> StorageRead(UNION access, read),
   storage_written |-> StorageWritten(post, pre),
   code_usage      |-> CodeUsage(post, read),
   self_destructed |-> SelfDestructed(post, pre)]

LEMMA TraceFields ==
  ASSUME NEW list, NEW effects, NEW a \in DOMAIN TracesOf(list, effects)
  PROVE  TracesOf(list, effects)[a]
           = TraceFrom(Get(ParseAccessList(list), a), Get(ReadTrace(effects), a),
                       Get(DiffPre(effects), a), Get(DiffPost(effects), a))
  BY DEF TracesOf, TxTraces, TraceFrom, Balance

(* An account that no trace of geth says has changed. *)
LEMMA NothingNew ==
  ASSUME NEW read
  PROVE  /\ Balance({}) = {}
         /\ CodeUsage({}, read).write = {}
         /\ Nonce({}, CodeUsage({}, read)) = {}
         /\ StorageWritten({}, {}) = [s \in {} |-> 0]
         /\ DOMAIN StorageWritten({}, {}) = {}
         /\ ~SelfDestructed({}, {})
<1>1. UNION {x.code : x \in {}} = {} /\ UNION {x.nonce : x \in {}} = {}
  OBVIOUS
<1>2. CodeUsage({}, read).write = {}
  BY <1>1 DEF CodeUsage
<1>3. Nonce({}, CodeUsage({}, read)) = {}
  BY <1>1, <1>2 DEF Nonce, Some
<1>4. UNION {DOMAIN x.storage : x \in {} \cup {}} = {}
  OBVIOUS
<1> QED
  BY <1>2, <1>3, <1>4 DEF StorageWritten, SelfDestructed, Balance

(* One that has changed and is not destroyed: what is written is what is   *)
(* different, where a slot that only the state before has is cleared.      *)
WrittenFrom(p, q, pre, written) ==
  /\ \A s : s \in DOMAIN written
              <=> s \in DOMAIN p.storage \/ (pre # {} /\ s \in DOMAIN q.storage)
  /\ \A s \in DOMAIN written :
       written[s] = IF s \in DOMAIN p.storage THEN p.storage[s] ELSE 0

LEMMA StorageIsWritten ==
  ASSUME NEW p, NEW q, NEW pre, pre = {} \/ pre = {q}
  PROVE  WrittenFrom(p, q, pre, StorageWritten({p}, pre))
<1>1. (CHOOSE x \in {p} : TRUE) = p
  OBVIOUS
<1>2. \A s : (\E x \in {p} : s \in DOMAIN x.storage) <=> s \in DOMAIN p.storage
  OBVIOUS
<1>3. \A s : s \in UNION {DOMAIN x.storage : x \in {p} \cup pre}
               <=> s \in DOMAIN p.storage \/ (pre # {} /\ s \in DOMAIN q.storage)
  OBVIOUS
<1> QED
  BY <1>1, <1>2, <1>3 DEF StorageWritten, WrittenFrom

LEMMA Changes ==
  ASSUME NEW p, NEW read
  PROVE  /\ Balance({p}) = p.balance
         /\ CodeUsage({p}, read).write = p.code
         /\ Nonce({p}, CodeUsage({p}, read))
              = IF p.nonce # {} THEN p.nonce ELSE Some(p.code # {}, 1)
         /\ \A pre : ~SelfDestructed({p}, pre)
<1>1. UNION {x.code : x \in {p}} = p.code /\ UNION {x.nonce : x \in {p}} = p.nonce
  OBVIOUS
<1>2. CodeUsage({p}, read).write = p.code
  BY <1>1 DEF CodeUsage
<1>3. Nonce({p}, CodeUsage({p}, read)) = IF p.nonce # {} THEN p.nonce ELSE Some(p.code # {}, 1)
  BY <1>1, <1>2 DEF Nonce
<1> QED
  BY <1>2, <1>3 DEF SelfDestructed, Balance

-------------------------------------------------------------------------------
(* The decoder's account, from what the trace says of it. *)
LEMMA ReplayedUnchanged ==
  ASSUME States, NEW a \in Accounts, NEW traces, a \in DOMAIN traces,
         ~traces[a].self_destructed, traces[a].balance = {}, traces[a].nonce = {},
         traces[a].code_usage.write = {}, DOMAIN traces[a].storage_written = {}
  PROVE  Replay(world, traces)[a] = world[a]
<1>1. world[a] \in Account
  BY DEF States, Possible
<1>2. Replay(world, traces)[a] =
        [balance |-> world[a].balance, nonce |-> world[a].nonce, code |-> world[a].code,
         storage |-> [s \in Slots |-> world[a].storage[s]]]
  BY DEF Replay
<1>3. world[a].storage = [s \in Slots |-> world[a].storage[s]]
  BY <1>1 DEF Account
<1> QED
  BY <1>1, <1>2, <1>3 DEF Account

LEMMA ReplayedDestroyed ==
  ASSUME NEW a \in Accounts, NEW traces, a \in DOMAIN traces, traces[a].self_destructed
  PROVE  Replay(world, traces)[a] = Empty
  BY DEF Replay

LEMMA ReplayedChanged ==
  ASSUME NEW a \in Accounts, NEW traces, a \in DOMAIN traces,
         ~traces[a].self_destructed, NEW y \in Account,
         \/ traces[a].balance = {} /\ world[a].balance = y.balance
         \/ traces[a].balance = {y.balance},
         \/ traces[a].nonce = {} /\ world[a].nonce = y.nonce
         \/ traces[a].nonce = {y.nonce},
         \/ traces[a].code_usage.write = {} /\ world[a].code = y.code
         \/ traces[a].code_usage.write = {y.code},
         \A s \in Slots : y.storage[s] = IF s \in DOMAIN traces[a].storage_written
                                         THEN traces[a].storage_written[s]
                                         ELSE world[a].storage[s]
  PROVE  Replay(world, traces)[a] = y
<1> DEFINE t == traces[a]
           new(option, old) == IF option = {} THEN old ELSE CHOOSE v \in option : TRUE
<1>1. \A v : (CHOOSE w \in {v} : TRUE) = v /\ {v} # {}
  OBVIOUS
<1>2. /\ new(t.balance, world[a].balance) = y.balance
      /\ new(t.nonce, world[a].nonce) = y.nonce
      /\ new(t.code_usage.write, world[a].code) = y.code
  BY <1>1
<1>3. Replay(world, traces)[a] =
        [balance |-> new(t.balance, world[a].balance),
         nonce   |-> new(t.nonce, world[a].nonce),
         code    |-> new(t.code_usage.write, world[a].code),
         storage |-> [s \in Slots |-> IF s \in DOMAIN t.storage_written
                                      THEN t.storage_written[s] ELSE world[a].storage[s]]]
  BY DEF Replay
<1> HIDE DEF new
<1>4. y.storage = [s \in Slots |-> IF s \in DOMAIN t.storage_written
                                   THEN t.storage_written[s] ELSE world[a].storage[s]]
  BY DEF Account
<1> QED
  BY <1>2, <1>3, <1>4 DEF Account

(* The trace of an account that a transaction uses, replayed, is what the  *)
(* transaction made of it.                                                 *)
LEMMA ReplayedEffect ==
  ASSUME States, NEW list, NEW effects, IsEffects(effects), NEW a \in DOMAIN effects
  PROVE  Replay(world, TracesOf(list, effects))[a] = effects[a].after
<1> DEFINE traces == TracesOf(list, effects)
           t      == traces[a]
           x      == world[a]
           e      == effects[a]
           y      == e.after
           read   == Get(ReadTrace(effects), a)
           pre    == Get(DiffPre(effects), a)
           post   == Get(DiffPost(effects), a)
<1>1. a \in Accounts /\ a \in DOMAIN traces
  BY Shapes, TracedAccounts
<1>8. traces[a] = TraceFrom(Get(ParseAccessList(list), a), read, pre, post)
  BY <1>1, TraceFields
<1>2. /\ t.balance = Balance(post)
      /\ t.code_usage = CodeUsage(post, read)
      /\ t.nonce = Nonce(post, CodeUsage(post, read))
      /\ t.storage_written = StorageWritten(post, pre)
      /\ t.self_destructed = SelfDestructed(post, pre)
  <2> HIDE DEF traces, read, pre, post
  <2> QED
    BY <1>8 DEF TraceFrom
<1>3. /\ InPost(x, e) => post = {PostOf(x, e)}
      /\ ~InPost(x, e) => post = {}
      /\ InPre(x, e) => pre = {PreOf(x, e)}
      /\ ~InPre(x, e) => pre = {}
  BY PostTrace, PreTrace
<1>4. /\ x \in Possible /\ x \in Account /\ y \in Possible /\ y \in Account
      /\ e.created \in BOOLEAN /\ e.destroyed \in BOOLEAN /\ e.slots \subseteq Slots
      /\ e \in Effects(x)
  BY Shapes DEF IsEffects
<1> HIDE DEF traces, x, e, y, read, pre, post
<1>5. CASE ~InPost(x, e) /\ InPre(x, e)
  <2>1. y = Empty \/ ~e.destroyed
    BY <1>4 DEF Effects, y
  <2>2. e.destroyed
    BY <1>5 DEF InPost, InPre, y
  <2>3. t.self_destructed
    BY <1>2, <1>3, <1>5 DEF SelfDestructed
  <2> QED
    BY <1>1, <2>1, <2>2, <2>3, ReplayedDestroyed DEF traces, y, e
<1>6. CASE ~InPost(x, e) /\ ~InPre(x, e)
  <2>1. x = y
    <3>1. CASE e.destroyed
      BY <3>1, <1>4, <1>6 DEF InPre, Effects, y
    <3>2. CASE ~e.destroyed
      BY <3>2, <1>6 DEF InPost, y
    <3> QED
      BY <3>1, <3>2
  <2>2. post = {} /\ pre = {}
    BY <1>3, <1>6
  <2>3. /\ ~t.self_destructed /\ t.balance = {} /\ t.nonce = {}
        /\ t.code_usage.write = {} /\ DOMAIN t.storage_written = {}
    BY <1>2, <2>2, NothingNew
  <2> QED
    BY <1>1, <2>1, <2>3, ReplayedUnchanged DEF traces, x, y, e
<1>7. CASE InPost(x, e)
  <2> DEFINE p == PostOf(x, e)
             q == PreOf(x, e)
  <2>1. post = {p} /\ (pre = {} \/ pre = {q}) /\ (pre = {} => ~InPre(x, e)) /\ (InPre(x, e) => pre = {q})
    BY <1>3, <1>7
  <2>2. ~e.destroyed /\ x # y
    BY <1>7 DEF InPost, y
  <2>3. y.code # x.code <=> e.created
    BY <1>4, <2>2 DEF Effects, y
  <2>9. t.balance = p.balance /\ t.code_usage.write = p.code
    <3> HIDE DEF p, q
    <3> QED
      BY <1>2, <2>1, Changes
  <2>10. t.nonce = IF p.nonce # {} THEN p.nonce ELSE Some(p.code # {}, 1)
    <3> HIDE DEF p, q
    <3> QED
      BY <1>2, <2>1, Changes
  <2>4. ~t.self_destructed
    BY <1>2, <2>1, Changes
  <2>5. (t.balance = {} /\ x.balance = y.balance) \/ t.balance = {y.balance}
    BY <2>9 DEF PostOf, Some, y
  <2>6. (t.code_usage.write = {} /\ x.code = y.code) \/ t.code_usage.write = {y.code}
    BY <2>9 DEF PostOf, Some, y
  <2>7. (t.nonce = {} /\ x.nonce = y.nonce) \/ t.nonce = {y.nonce}
    <3>2. p.nonce = Some(x.nonce # y.nonce, y.nonce) /\ p.code = Some(x.code # y.code, y.code)
      BY DEF PostOf, y
    <3>3. x.nonce = y.nonce => x.code = y.code
      <4>1. SUFFICES ASSUME x.code # y.code PROVE x.nonce # y.nonce
        OBVIOUS
      <4>2. x.code = NoCode /\ x.nonce = 0
        BY <1>4, <2>3, <4>1 DEF Effects
      <4>3. y.nonce > 0
        BY <1>4, <4>1, <4>2 DEF Possible
      <4> QED
        BY <4>2, <4>3
    <3> QED
      BY <2>10, <3>2, <3>3 DEF Some
  <2>8. \A s \in Slots : y.storage[s] = IF s \in DOMAIN t.storage_written
                                         THEN t.storage_written[s] ELSE x.storage[s]
    <3> SUFFICES ASSUME NEW s \in Slots
                 PROVE  y.storage[s] = IF s \in DOMAIN t.storage_written
                                       THEN t.storage_written[s] ELSE x.storage[s]
      OBVIOUS
    <3> DEFINE inPost == s \in Changed(x, e) /\ y.storage[s] # 0
               inPre  == s \in Changed(x, e) /\ x.storage[s] # 0
    <3>1. /\ s \in DOMAIN t.storage_written
               <=> s \in DOMAIN p.storage \/ (pre # {} /\ s \in DOMAIN q.storage)
          /\ s \in DOMAIN t.storage_written =>
               t.storage_written[s] = IF s \in DOMAIN p.storage THEN p.storage[s] ELSE 0
      <4>1. t.storage_written = StorageWritten({p}, pre) /\ (pre = {} \/ pre = {q})
        BY <1>2, <2>1
      <4> HIDE DEF p, q
      <4>2. WrittenFrom(p, q, pre, StorageWritten({p}, pre))
        BY <4>1, StorageIsWritten
      <4> QED
        BY <4>1, <4>2 DEF WrittenFrom
    <3>2. /\ s \in DOMAIN p.storage <=> inPost
          /\ inPost => p.storage[s] = y.storage[s]
      BY DEF PostOf, Changed, y
    <3>3. s \in DOMAIN q.storage <=> inPre
      BY <2>2 DEF PreOf, PreSlots, Changed
    <3>4. s \in Changed(x, e) <=> x.storage[s] # y.storage[s]
      BY <1>4 DEF Effects, Changed, y
    <3>5. pre = {} => x.storage[s] = 0
      BY <1>4, <2>1, <2>2 DEF InPre, Empty, y
    <3> HIDE DEF p, q
    <3>6. s \in DOMAIN t.storage_written <=> inPost \/ (pre # {} /\ inPre)
      BY <3>1, <3>2, <3>3
    <3>7. CASE inPost
      BY <3>1, <3>2, <3>6, <3>7
    <3>8. CASE ~inPost /\ pre # {} /\ inPre
      BY <3>1, <3>2, <3>6, <3>8
    <3>9. CASE ~inPost /\ ~(pre # {} /\ inPre)
      BY <3>4, <3>5, <3>6, <3>9
    <3> QED
      BY <3>7, <3>8, <3>9
  <2> QED
    BY <1>1, <1>4, <2>4, <2>5, <2>6, <2>7, <2>8, ReplayedChanged DEF traces, x, y, e
<1> QED
  BY <1>5, <1>6, <1>7

-------------------------------------------------------------------------------
(* A whole transaction, replayed. *)
LEMMA TransactionReplays ==
  ASSUME States, NEW list, NEW effects, IsEffects(effects), Transaction(list, effects)
  PROVE  Replay(world, TracesOf(list, effects)) = world'
<1> DEFINE traces == TracesOf(list, effects)
<1>1. ASSUME NEW a \in Accounts, a \notin DOMAIN effects
      PROVE  Replay(world, traces)[a] = world[a]
  <2>1. CASE a \in DOMAIN traces
    <3>1. traces[a] = TraceFrom(Get(ParseAccessList(list), a), {}, {}, {})
      BY <1>1, <2>1, TraceFields, NoTrace
    <3> HIDE DEF traces
    <3>2. /\ ~traces[a].self_destructed /\ traces[a].balance = {} /\ traces[a].nonce = {}
          /\ traces[a].code_usage.write = {} /\ DOMAIN traces[a].storage_written = {}
      BY <3>1, NothingNew DEF TraceFrom
    <3> QED
      BY <2>1, <3>2, ReplayedUnchanged
  <2>2. CASE a \notin DOMAIN traces
    BY <2>2 DEF Replay
  <2> QED
    BY <2>1, <2>2
<1>2. \A a \in DOMAIN effects : Replay(world, traces)[a] = effects[a].after
  BY ReplayedEffect
<1>3. world' = [a \in Accounts |-> IF a \in DOMAIN effects THEN effects[a].after ELSE world[a]]
  BY DEF Transaction
<1>4. Replay(world, traces) = [a \in Accounts |-> Replay(world, traces)[a]]
  BY DEF Replay
<1> QED
  BY <1>1, <1>2, <1>3, <1>4

(* What Next lets a transaction do is an effect. *)
LEMMA NextEffects ==
  ASSUME States, NEW effects, DOMAIN effects \subseteq Accounts,
         \A a \in DOMAIN effects :
           \/ effects[a] \in Effects(world[a])
           \/ \E slots \in SUBSET Slots : effects[a] = Reads(world[a], slots)
  PROVE  IsEffects(effects)
<1> SUFFICES ASSUME NEW a \in DOMAIN effects, NEW slots \in SUBSET Slots,
                    effects[a] = Reads(world[a], slots)
             PROVE  effects[a] \in Effects(world[a])
  BY DEF IsEffects
<1>1. world[a] \in Possible
  BY DEF States
<1> QED
  BY <1>1, ReadsAreEffects

-------------------------------------------------------------------------------
(* What a trace says was used *)

Keys(list, a) == UNION {list[i].keys : i \in {j \in 1 .. Len(list) : list[j].address = a}}

LEMMA ListedKeys ==
  ASSUME NEW list, NEW a
  PROVE  UNION Get(ParseAccessList(list), a) = Keys(list, a)
<1>1. DOMAIN ParseAccessList(list) = ListOf(list)
  BY DEF ParseAccessList, ListOf
<1>2. CASE a \in ListOf(list)
  <2>1. ParseAccessList(list)[a] = Keys(list, a)
    BY <1>2 DEF ParseAccessList, ListOf, Keys
  <2>2. Get(ParseAccessList(list), a) = {Keys(list, a)}
    BY <1>1, <1>2, <2>1, OneGets
  <2> QED
    BY <2>2, UnionOfOne
<1>3. CASE a \notin ListOf(list)
  <2>1. {j \in 1 .. Len(list) : list[j].address = a} = {}
    BY <1>3 DEF ListOf
  <2>2. Keys(list, a) = {}
    BY <2>1 DEF Keys
  <2>3. Get(ParseAccessList(list), a) = {}
    BY <1>1, <1>3, OneGets
  <2> QED
    BY <2>2, <2>3, UnionOfOne
<1> QED
  BY <1>2, <1>3

Reached(t, s) == s \in DOMAIN t.storage_written \cup t.storage_read

(* The slots of a trace are those that were used and those of the list. *)
LEMMA TracedSlots ==
  ASSUME States, NEW list, NEW effects, IsEffects(effects),
         NEW a \in DOMAIN TracesOf(list, effects), NEW s
  PROVE  Reached(TracesOf(list, effects)[a], s)
           <=> s \in Keys(list, a) \/ (a \in DOMAIN effects /\ s \in effects[a].slots)
<1> DEFINE access == Get(ParseAccessList(list), a)
           t      == TracesOf(list, effects)[a]
<1>1. UNION access = Keys(list, a)
  BY ListedKeys
<1>2. CASE a \notin DOMAIN effects
  <2>1. t = TraceFrom(access, {}, {}, {})
    BY <1>2, TraceFields, NoTrace
  <2> HIDE DEF access, t
  <2>2. t.storage_read = UNION access /\ DOMAIN t.storage_written = {}
    BY <2>1, NothingNew DEF TraceFrom, StorageRead
  <2> QED
    BY <1>1, <1>2, <2>2 DEF Reached, t
<1>3. CASE a \in DOMAIN effects
  <2> DEFINE x    == world[a]
             e    == effects[a]
             r    == ReadOf(x, e)
             pre  == Get(DiffPre(effects), a)
             post == Get(DiffPost(effects), a)
  <2>1. t = TraceFrom(access, {r}, pre, post)
    BY <1>3, TraceFields, ReadTraces
  <2>2. /\ post = {} \/ post = {PostOf(x, e)}
        /\ pre = {} \/ pre = {PreOf(x, e)}
    BY <1>3, PostTrace, PreTrace
  <2>3. /\ DOMAIN PostOf(x, e).storage \subseteq e.slots
        /\ DOMAIN PreOf(x, e).storage \subseteq e.slots
        /\ DOMAIN r.storage = e.slots
    BY DEF PostOf, PreOf, ReadOf, PreSlots, Changed
  <2> HIDE DEF access, t, x, e, r, pre, post
  <2>4. t.storage_read = StorageRead(UNION access, {r})
    BY <2>1 DEF TraceFrom
  <2>8. StorageRead(UNION access, {r}) = (UNION access) \cup DOMAIN r.storage
    BY DEF StorageRead
  <2>5. \A v : v \in t.storage_read <=> v \in UNION access \/ v \in e.slots
    BY <2>3, <2>4, <2>8
  <2>9. t.storage_written = StorageWritten(post, pre)
    BY <2>1 DEF TraceFrom
  <2>6. DOMAIN StorageWritten(post, pre) = UNION {DOMAIN z.storage : z \in post \cup pre}
    BY DEF StorageWritten
  <2>7. \A v : v \in DOMAIN t.storage_written => v \in e.slots
    BY <2>2, <2>3, <2>6, <2>9
  <2> QED
    BY <1>1, <1>3, <2>5, <2>7 DEF Reached, t, e
<1> QED
  BY <1>2, <1>3

-------------------------------------------------------------------------------
(* infos is a sequence that only grows. *)
Listed(s) == s \in Seq({s[i] : i \in 1 .. Len(s)})

LEMMA Appended ==
  ASSUME NEW s, Listed(s), NEW t
  PROVE  /\ Listed(Append(s, t))
         /\ Len(s) \in Nat /\ Len(Append(s, t)) = Len(s) + 1
         /\ \A i \in 1 .. Len(s) : Append(s, t)[i] = s[i]
         /\ Append(s, t)[Len(s) + 1] = t
         /\ Last(Append(s, t)) = t
<1> DEFINE S == {s[i] : i \in 1 .. Len(s)} \cup {t}
           u == Append(s, t)
<1>1. s \in Seq(S) /\ t \in S
  BY SeqMonotonic DEF Listed
<1>2. Len(s) \in Nat /\ DOMAIN s = 1 .. Len(s)
  BY <1>1, LenProperties
<1>3. /\ u \in Seq(S) /\ Len(u) = Len(s) + 1
      /\ \A i \in 1 .. Len(s) : u[i] = s[i]
      /\ u[Len(s) + 1] = t
  BY <1>1, <1>2
<1>4. S \subseteq {u[i] : i \in 1 .. Len(u)}
  <2> SUFFICES ASSUME NEW x \in S PROVE \E i \in 1 .. Len(u) : u[i] = x
    OBVIOUS
  <2>1. CASE x = t
    BY <1>2, <1>3, <2>1
  <2>2. CASE x # t
    <3>1. PICK i \in 1 .. Len(s) : s[i] = x
      BY <2>2
    <3>2. i \in 1 .. Len(u) /\ u[i] = x
      BY <1>2, <1>3, <3>1
    <3> QED
      BY <3>2
  <2> QED
    BY <2>1, <2>2
<1>5. Listed(u)
  <2> DEFINE R == {u[i] : i \in 1 .. Len(u)}
  <2>1. u \in Seq(S) /\ S \subseteq R
    BY <1>3, <1>4
  <2> HIDE DEF S, u, R
  <2>2. u \in Seq(R)
    BY <2>1, SeqMonotonic
  <2> QED
    BY <2>2 DEF Listed, R
<1>6. Last(u) = t
  BY <1>3 DEF Last
<1> QED
  BY <1>2, <1>3, <1>5, <1>6

-------------------------------------------------------------------------------
(* The types of a trace *)

LEMMA AtMostOne ==
  /\ Cardinality({}) <= 1
  /\ \A P, x : Cardinality(Some(P, x)) <= 1
  /\ \A x : Cardinality({x}) <= 1
<1>1. Cardinality({}) = 0 /\ \A x : Cardinality({x}) = 1
  BY FS_EmptySet, FS_Singleton
<1>2. \A P, x : Some(P, x) = {} \/ Some(P, x) = {x}
  BY Zenon DEF Some
<1> QED
  BY <1>1, <1>2

(* The code of an account is written or read. *)
LEMMA CodeOfEffect ==
  ASSUME NEW r, NEW post, NEW p, post = {} \/ post = {p}
  PROVE  CodeUsage(post, {r}) =
           IF post # {} /\ p.code # {} THEN [write |-> p.code, read |-> {}]
           ELSE [write |-> {}, read |-> r.code]
<1>1. UNION {x.code : x \in {r}} = r.code
  OBVIOUS
<1>2. UNION {x.code : x \in post} = IF post = {} THEN {} ELSE p.code
  OBVIOUS
<1> QED
  BY <1>1, <1>2 DEF CodeUsage

LEMMA TypedTrace ==
  ASSUME States, NEW list \in AccessLists, NEW effects, IsEffects(effects),
         NEW a \in DOMAIN TracesOf(list, effects)
  PROVE  /\ TxnTraceOK(TracesOf(list, effects)[a])
         /\ TracesOf(list, effects)[a].code_usage.write \subseteq Codes
         /\ TracesOf(list, effects)[a].code_usage.read \subseteq Codes
         /\ a \in DOMAIN effects =>
              {world[a].code, effects[a].after.code} \ {NoCode}
                \subseteq TracesOf(list, effects)[a].code_usage.write
                            \cup TracesOf(list, effects)[a].code_usage.read
<1> DEFINE access == Get(ParseAccessList(list), a)
           t      == TracesOf(list, effects)[a]
<1>1. \A s : Reached(t, s) <=> s \in Keys(list, a) \/ (a \in DOMAIN effects /\ s \in effects[a].slots)
  BY TracedSlots
<1>2. Keys(list, a) \subseteq Slots
  <2>1. list \in Seq([address : Accounts, keys : SUBSET Slots])
    BY TraceAssumption
  <2>2. \A i \in 1 .. Len(list) : list[i].keys \subseteq Slots
    <3> TAKE i \in 1 .. Len(list)
    <3> DEFINE Item == [address : Accounts, keys : SUBSET Slots]
    <3>1. list[i] \in Item
      <4> HIDE DEF Item
      <4> QED
        BY <2>1, ElementOfSeq DEF Item
    <3> QED
      BY <3>1
  <2> QED
    BY <2>2 DEF Keys
<1>3. t.storage_read \cup DOMAIN t.storage_written \subseteq Slots
  <2>1. a \in DOMAIN effects => effects[a].slots \subseteq Slots
    BY Shapes
  <2> QED
    BY <1>1, <1>2, <2>1 DEF Reached
<1>4. CASE a \notin DOMAIN effects
  <2>1. t = TraceFrom(access, {}, {}, {})
    BY <1>4, TraceFields, NoTrace
  <2>2. /\ t.balance = {} /\ t.nonce = {} /\ t.code_usage = CodeUsage({}, {})
        /\ ~t.self_destructed
    <3> HIDE DEF t, access
    <3> QED
      BY <2>1, NothingNew DEF TraceFrom
  <2>3. CodeUsage({}, {}).write = {} /\ CodeUsage({}, {}).read = {}
    <3>1. UNION {x.code : x \in {}} = {}
      OBVIOUS
    <3> QED
      BY <3>1 DEF CodeUsage
  <2> HIDE DEF t
  <2> QED
    BY <1>3, <1>4, <2>2, <2>3, AtMostOne DEF TxnTraceOK, t
<1>5. CASE a \in DOMAIN effects
  <2> DEFINE x    == world[a]
             e    == effects[a]
             y    == e.after
             r    == ReadOf(x, e)
             p    == PostOf(x, e)
             pre  == Get(DiffPre(effects), a)
             post == Get(DiffPost(effects), a)
  <2>1. t = TraceFrom(access, {r}, pre, post)
    BY <1>5, TraceFields, ReadTraces
  <2>2. post = {} \/ post = {p}
    BY <1>5, PostTrace
  <2>3. InPost(x, e) <=> post # {}
    BY <1>5, PostTrace
  <2>4. /\ p.balance = Some(x.balance # y.balance, y.balance)
        /\ p.nonce = Some(x.nonce # y.nonce, y.nonce)
        /\ p.code = Some(x.code # y.code, y.code)
        /\ r.code = Some(x.code # NoCode, x.code)
    BY DEF PostOf, ReadOf
  <2>5. x \in Possible /\ y \in Possible /\ x \in Account /\ y \in Account /\ e \in Effects(x)
    BY <1>5, Shapes DEF IsEffects
  <2>6. /\ e.destroyed => y = Empty
        /\ ~e.destroyed => (y.code # x.code <=> e.created)
        /\ e.created => x.code = NoCode
    BY <2>5 DEF Effects
  <2>7. x.code \in Codes \cup {NoCode} /\ y.code \in Codes \cup {NoCode}
    BY <2>5 DEF Account
  <2>8. Empty.code = NoCode
    BY DEF Empty
  <2>9. InPost(x, e) <=> ~e.destroyed /\ x # y
    BY DEF InPost
  <2> HIDE DEF t, access, x, e, y, r, p, pre, post
  <2>10. /\ t.balance = Balance(post) /\ t.code_usage = CodeUsage(post, {r})
         /\ t.nonce = Nonce(post, t.code_usage) /\ t.self_destructed = SelfDestructed(post, pre)
    BY <2>1 DEF TraceFrom
  <2>11. t.code_usage = IF post # {} /\ p.code # {} THEN [write |-> p.code, read |-> {}]
                        ELSE [write |-> {}, read |-> r.code]
    BY <2>2, <2>10, CodeOfEffect
  <2>12. t.code_usage.write \cup t.code_usage.read
           = IF post # {} /\ p.code # {} THEN p.code ELSE r.code
    BY <2>11
  <2>13. /\ Cardinality(t.code_usage.write \cup t.code_usage.read) <= 1
         /\ t.code_usage.write \subseteq Codes /\ t.code_usage.read \subseteq Codes
    <3>1. Cardinality(p.code) <= 1 /\ Cardinality(r.code) <= 1
      BY <2>4, AtMostOne
    <3>2. r.code \subseteq Codes
      BY <2>4, <2>7 DEF Some
    <3>3. post # {} => p.code \subseteq Codes
      BY <2>3, <2>4, <2>6, <2>7, <2>9, <2>5 DEF Some, Effects, Possible
    <3> QED
      BY <2>11, <2>12, <3>1, <3>2, <3>3
  <2>14. {x.code, y.code} \ {NoCode} \subseteq t.code_usage.write \cup t.code_usage.read
    BY <2>3, <2>4, <2>6, <2>8, <2>9, <2>12 DEF Some
  <2>15. Cardinality(t.balance) <= 1 /\ Cardinality(t.nonce) <= 1
    <3>1. CASE post = {}
      <4>1. Balance({}) = {} /\ t.code_usage.write = {}
        BY <2>11, <3>1, NothingNew
      <4>2. t.nonce = {}
        <5>1. UNION {z.nonce : z \in {}} = {}
          OBVIOUS
        <5> QED
          BY <2>10, <3>1, <4>1, <5>1 DEF Nonce, Some
      <4> QED
        BY <2>10, <3>1, <4>1, <4>2, AtMostOne
    <3>2. CASE post = {p}
      <4>1. t.balance = p.balance
        BY <2>10, <3>2, Changes
      <4>2. UNION {z.nonce : z \in {p}} = p.nonce
        OBVIOUS
      <4>3. t.nonce = IF p.nonce # {} THEN p.nonce ELSE Some(t.code_usage.write # {}, 1)
        BY <2>10, <3>2, <4>2 DEF Nonce
      <4> QED
        BY <2>4, <4>1, <4>3, AtMostOne
    <3> QED
      BY <2>2, <3>1, <3>2
  <2>16. t.self_destructed => t.balance \cup t.nonce \cup t.code_usage.write = {}
    <3> SUFFICES ASSUME t.self_destructed PROVE t.balance = {} /\ t.nonce = {} /\ t.code_usage.write = {}
      OBVIOUS
    <3>1. post = {}
      BY <2>10 DEF SelfDestructed
    <3>2. Balance({}) = {} /\ t.code_usage.write = {}
      BY <2>11, <3>1, NothingNew
    <3>3. UNION {z.nonce : z \in {}} = {}
      OBVIOUS
    <3> QED
      BY <2>10, <3>1, <3>2, <3>3 DEF Nonce, Some
  <2> QED
    BY <1>3, <2>13, <2>14, <2>15, <2>16 DEF TxnTraceOK, t, x, y, e
<1> QED
  BY <1>4, <1>5

-------------------------------------------------------------------------------
(* The invariant: the history says of every account and slot that it was   *)
(* used if and only if some transaction's trace says so.                   *)

UsedAccounts ==
  \A a \in Accounts : a \in DOMAIN touched <=> \E i \in 1 .. Len(infos) : a \in DOMAIN infos[i]

UsedSlots ==
  \A a \in DOMAIN touched : \A s \in Slots :
    s \in touched[a] <=> \E i \in 1 .. Len(infos) : a \in DOMAIN infos[i] /\ Reached(infos[i][a], s)

TypedInfos ==
  /\ Listed(infos) /\ Len(infos) <= MaxTxs
  /\ \A i \in 1 .. Len(infos) :
       /\ DOMAIN infos[i] \subseteq Accounts
       /\ \A a \in DOMAIN infos[i] : TxnTraceOK(infos[i][a])

TypedBlock ==
  /\ before \in [Accounts -> Possible] /\ States
  /\ miner \in Accounts /\ withdrawals \subseteq Accounts
  /\ DOMAIN touched \subseteq Accounts
  /\ \A a \in DOMAIN touched : touched[a] \subseteq Slots

TypedCodes == ran \subseteq Codes /\ codeDb \subseteq Codes

TraceInv == TypedBlock /\ TypedInfos /\ TypedCodes /\ UsedAccounts /\ UsedSlots /\ CodesAreKnown

LEMMA TraceInit == Init => TraceInv
<1> SUFFICES ASSUME Init PROVE TraceInv
  OBVIOUS
<1>1. infos = <<>> /\ Len(infos) = 0 /\ DOMAIN touched = {} /\ ran = {} /\ codeDb = {}
  BY DEF Init
<1>2. 1 .. Len(infos) = {}
  BY <1>1
<1>3. Listed(infos)
  BY <1>1, EmptySeq DEF Listed
<1>4. TypedBlock
  BY <1>1, StartsAssumption DEF Init, TypedBlock, States
<1>5. TypedInfos
  BY <1>1, <1>2, <1>3, TraceAssumption DEF TypedInfos
<1>6. UsedAccounts /\ UsedSlots
  BY <1>1, <1>2 DEF UsedAccounts, UsedSlots
<1> QED
  BY <1>1, <1>4, <1>5, <1>6 DEF TraceInv, TypedCodes, CodesAreKnown

(* What a transaction adds to the history. *)
LEMMA TouchedNext ==
  ASSUME NEW list, NEW effects, Transaction(list, effects)
  PROVE  /\ DOMAIN touched' = DOMAIN effects \cup ListOf(list) \cup DOMAIN touched
         /\ \A a \in DOMAIN touched' : \A s :
              s \in touched'[a] <=> \/ a \in DOMAIN touched /\ s \in touched[a]
                                    \/ a \in DOMAIN effects /\ s \in effects[a].slots
                                    \/ s \in Keys(list, a)
<1>1. touched' = [a \in (DOMAIN effects \cup ListOf(list)) \cup DOMAIN touched |->
                   (UNION Get(touched, a)) \cup (UNION {e.slots : e \in Get(effects, a)})
                      \cup Keys(list, a)]
  BY DEF Transaction, ListOf, Keys
<1>2. ASSUME NEW a
      PROVE  UNION Get(touched, a) = IF a \in DOMAIN touched THEN touched[a] ELSE {}
  BY OneGets, UnionOfOne
<1>3. ASSUME NEW a
      PROVE  UNION {e.slots : e \in Get(effects, a)}
               = IF a \in DOMAIN effects THEN effects[a].slots ELSE {}
  <2>1. CASE a \in DOMAIN effects
    <3>1. Get(effects, a) = {effects[a]}
      BY <2>1, OneGets
    <3> QED
      BY <2>1, <3>1
  <2>2. CASE a \notin DOMAIN effects
    BY <2>2, OneGets
  <2> QED
    BY <2>1, <2>2
<1> QED
  BY <1>1, <1>2, <1>3

LEMMA TransactionKeeps ==
  ASSUME TraceInv, Len(infos) < MaxTxs, NEW list \in AccessLists, NEW effects,
         IsEffects(effects), Transaction(list, effects)
  PROVE  TraceInv'
<1> DEFINE traces == TracesOf(list, effects)
           n      == Len(infos) + 1
<1>1. infos' = Append(infos, traces)
  BY DEF Transaction, TracesOf
<1>2. /\ Listed(infos)' /\ Len(infos) \in Nat /\ Len(infos') = n
      /\ \A i \in 1 .. Len(infos) : infos'[i] = infos[i]
      /\ infos'[n] = traces
  <2> HIDE DEF traces
  <2>1. Listed(Append(infos, traces))
    BY Appended DEF TraceInv, TypedInfos
  <2>2. Listed(infos') <=> Listed(infos)'
    BY DEF Listed
  <2> QED
    BY <1>1, <2>1, <2>2, Appended DEF TraceInv, TypedInfos
<1>4. States
  BY DEF TraceInv, TypedBlock
<1>5. DOMAIN traces = DOMAIN effects \cup ListOf(list)
  BY TracedAccounts
<1>6. ListOf(list) \subseteq Accounts /\ \A a : Keys(list, a) \subseteq Slots
  <2>1. \A i \in 1 .. Len(list) : list[i].address \in Accounts /\ list[i].keys \subseteq Slots
    <3> TAKE i \in 1 .. Len(list)
    <3> DEFINE Item == [address : Accounts, keys : SUBSET Slots]
    <3>1. list \in Seq(Item)
      BY TraceAssumption
    <3>2. list[i] \in Item
      <4> HIDE DEF Item
      <4> QED
        BY <3>1, ElementOfSeq
    <3> QED
      BY <3>2
  <2> QED
    BY <2>1 DEF ListOf, Keys
<1>7. DOMAIN traces \subseteq Accounts
  BY <1>5, <1>6 DEF IsEffects
<1>8. \A a \in DOMAIN effects : effects[a].slots \subseteq Slots /\ effects[a].after \in Possible
  BY <1>4, Shapes
<1>9. \A a \in DOMAIN traces :
        /\ TxnTraceOK(traces[a])
        /\ traces[a].code_usage.write \subseteq Codes /\ traces[a].code_usage.read \subseteq Codes
        /\ a \in DOMAIN effects =>
             {world[a].code, effects[a].after.code} \ {NoCode}
               \subseteq traces[a].code_usage.write \cup traces[a].code_usage.read
  BY <1>4, TypedTrace
<1>10. \A a \in DOMAIN traces : \A s :
         Reached(traces[a], s)
           <=> s \in Keys(list, a) \/ (a \in DOMAIN effects /\ s \in effects[a].slots)
  BY <1>4, TracedSlots
<1>11. /\ DOMAIN touched' = DOMAIN effects \cup ListOf(list) \cup DOMAIN touched
       /\ \A a \in DOMAIN touched' : \A s :
            s \in touched'[a] <=> \/ a \in DOMAIN touched /\ s \in touched[a]
                                  \/ a \in DOMAIN effects /\ s \in effects[a].slots
                                  \/ s \in Keys(list, a)
  BY TouchedNext
<1>12. /\ world' = [a \in Accounts |-> IF a \in DOMAIN effects THEN effects[a].after ELSE world[a]]
       /\ ran' = (ran \cup {world[a].code : a \in DOMAIN effects}
                      \cup {world'[a].code : a \in DOMAIN effects}) \ {NoCode}
       /\ codeDb' = codeDb \cup CodesOf(traces)
       /\ UNCHANGED <<before, miner, withdrawals>>
  BY DEF Transaction, TracesOf
<1> HIDE DEF traces
<1>13. TypedBlock'
  <2>1. States'
    BY <1>4, <1>8, <1>12 DEF States
  <2>2. DOMAIN touched' \subseteq Accounts
    BY <1>6, <1>11 DEF TraceInv, TypedBlock, IsEffects
  <2>3. \A a \in DOMAIN touched' : touched'[a] \subseteq Slots
    BY <1>6, <1>8, <1>11 DEF TraceInv, TypedBlock
  <2> QED
    BY <1>12, <2>1, <2>2, <2>3 DEF TraceInv, TypedBlock
<1>14. \A i \in 1 .. Len(infos') : i \in 1 .. Len(infos) \/ i = n
  BY <1>2
<1>15. TypedInfos'
  <2>1. \A i \in 1 .. Len(infos') :
          DOMAIN infos'[i] \subseteq Accounts /\ \A a \in DOMAIN infos'[i] : TxnTraceOK(infos'[i][a])
    BY <1>2, <1>7, <1>9, <1>14 DEF TraceInv, TypedInfos
  <2>2. Len(infos') <= MaxTxs
    BY <1>2, TraceAssumption
  <2> QED
    BY <1>2, <2>1, <2>2 DEF TypedInfos, TxnTraceOK
<1>16. n \in 1 .. Len(infos') /\ 1 .. Len(infos) \subseteq 1 .. Len(infos')
  BY <1>2
<1>17. UsedAccounts'
  <2> SUFFICES ASSUME NEW a \in Accounts
               PROVE  a \in DOMAIN touched' <=> \E i \in 1 .. Len(infos') : a \in DOMAIN infos'[i]
    BY DEF UsedAccounts
  <2>1. a \in DOMAIN touched <=> \E i \in 1 .. Len(infos) : a \in DOMAIN infos[i]
    BY DEF TraceInv, UsedAccounts
  <2>2. a \in DOMAIN touched' <=> a \in DOMAIN touched \/ a \in DOMAIN traces
    BY <1>5, <1>11
  <2> HIDE DEF n
  <2> QED
    BY <1>2, <1>14, <1>16, <2>1, <2>2
<1>18. UsedSlots'
  <2> SUFFICES ASSUME NEW a \in DOMAIN touched', NEW s \in Slots
               PROVE  s \in touched'[a]
                        <=> \E i \in 1 .. Len(infos') : a \in DOMAIN infos'[i] /\ Reached(infos'[i][a], s)
    BY DEF UsedSlots, Reached
  <2>1. a \in DOMAIN touched /\ s \in touched[a]
          <=> \E i \in 1 .. Len(infos) : a \in DOMAIN infos[i] /\ Reached(infos[i][a], s)
    <3>1. CASE a \in DOMAIN touched
      BY <3>1 DEF TraceInv, UsedSlots
    <3>2. CASE a \notin DOMAIN touched
      <4>1. a \in Accounts
        BY <1>13 DEF TypedBlock
      <4> QED
        BY <3>2, <4>1 DEF TraceInv, UsedAccounts
    <3> QED
      BY <3>1, <3>2
  <2>2. a \in DOMAIN effects => a \in DOMAIN traces
    BY <1>5
  <2>3. s \in Keys(list, a) => a \in DOMAIN traces
    BY <1>5 DEF Keys, ListOf
  <2>4. s \in touched'[a] <=> \/ a \in DOMAIN touched /\ s \in touched[a]
                              \/ a \in DOMAIN traces /\ Reached(traces[a], s)
    BY <1>10, <1>11, <2>2, <2>3
  <2> HIDE DEF n
  <2> QED
    BY <1>2, <1>14, <1>16, <2>1, <2>4
<1>19. CodesOf(traces) \subseteq Codes
  BY <1>9 DEF CodesOf
<1>20. {world[a].code : a \in DOMAIN effects} \cup {world'[a].code : a \in DOMAIN effects}
         \subseteq CodesOf(traces) \cup {NoCode}
  <2> SUFFICES ASSUME NEW a \in DOMAIN effects
               PROVE  {world[a].code, world'[a].code} \subseteq CodesOf(traces) \cup {NoCode}
    OBVIOUS
  <2>1. a \in DOMAIN traces /\ a \in Accounts
    BY <1>5, <1>7
  <2>2. world'[a] = effects[a].after
    BY <1>12, <2>1
  <2>3. traces[a].code_usage.write \cup traces[a].code_usage.read \subseteq CodesOf(traces)
    BY <2>1 DEF CodesOf
  <2> QED
    BY <1>9, <2>1, <2>2, <2>3
<1>21. TypedCodes' /\ CodesAreKnown'
  BY <1>12, <1>19, <1>20 DEF TraceInv, TypedCodes, CodesAreKnown
<1> QED
  BY <1>13, <1>15, <1>17, <1>18, <1>21 DEF TraceInv

-------------------------------------------------------------------------------
(* Every step is a transaction with effects, or changes nothing. *)
LEMMA EveryStep ==
  ASSUME TraceInv, Next
  PROVE  /\ Len(infos) < MaxTxs
         /\ \E list \in AccessLists : \E effects : IsEffects(effects) /\ Transaction(list, effects)
<1>1. States
  BY DEF TraceInv, TypedBlock
<1>2. PICK list \in AccessLists, changed \in SUBSET Accounts :
        \E effects \in [changed -> UNION {Effects(world[a]) : a \in changed}],
          others \in SUBSET (Accounts \ changed), slots \in {{}, Slots} :
            /\ \A a \in changed : effects[a] \in Effects(world[a])
            /\ Transaction(list, [a \in changed \cup others |->
                                   IF a \in changed THEN effects[a] ELSE Reads(world[a], slots)])
  BY DEF Next
<1>3. PICK made \in [changed -> UNION {Effects(world[a]) : a \in changed}],
           others \in SUBSET (Accounts \ changed), slots \in {{}, Slots} :
        /\ \A a \in changed : made[a] \in Effects(world[a])
        /\ Transaction(list, [a \in changed \cup others |->
                               IF a \in changed THEN made[a] ELSE Reads(world[a], slots)])
  BY <1>2
<1> DEFINE effects == [a \in changed \cup others |->
                        IF a \in changed THEN made[a] ELSE Reads(world[a], slots)]
<1>4. Transaction(list, effects)
  BY <1>3
<1>5. DOMAIN effects \subseteq Accounts
  OBVIOUS
<1>6. \A a \in DOMAIN effects :
        effects[a] \in Effects(world[a]) \/ effects[a] = Reads(world[a], slots)
  BY <1>3
<1>7. slots \in SUBSET Slots
  OBVIOUS
<1> HIDE DEF effects
<1>8. IsEffects(effects)
  BY <1>1, <1>5, <1>6, <1>7, NextEffects
<1> QED
  BY <1>4, <1>8 DEF Next

LEMMA TraceStep == TraceInv /\ [Next]_vars => TraceInv'
<1> SUFFICES ASSUME TraceInv, [Next]_vars PROVE TraceInv'
  OBVIOUS
<1>1. CASE Next
  <2>1. PICK list \in AccessLists :
          \E effects : IsEffects(effects) /\ Transaction(list, effects)
    BY <1>1, EveryStep
  <2>2. PICK effects : IsEffects(effects) /\ Transaction(list, effects)
    BY <2>1
  <2> QED
    BY <1>1, <2>2, EveryStep, TransactionKeeps
<1>2. CASE UNCHANGED vars
  <2>1. /\ before' = before /\ world' = world /\ miner' = miner /\ withdrawals' = withdrawals
        /\ touched' = touched /\ ran' = ran /\ infos' = infos /\ codeDb' = codeDb
    BY <1>2 DEF vars
  <2>2. TypedBlock'
    BY <2>1 DEF TraceInv, TypedBlock, States
  <2>3. TypedInfos'
    <3>1. Listed(infos)' <=> Listed(infos)
      BY <2>1 DEF Listed
    <3>2. \A i \in 1 .. Len(infos) : \A a \in DOMAIN infos[i] :
            TxnTraceOK(infos[i][a])' <=> TxnTraceOK(infos[i][a])
      BY <2>1 DEF TxnTraceOK
    <3> QED
      BY <2>1, <3>1, <3>2 DEF TraceInv, TypedInfos, TxnTraceOK
  <2>4. TypedCodes' /\ CodesAreKnown'
    BY <2>1 DEF TraceInv, TypedCodes, CodesAreKnown
  <2>5. UsedAccounts'
    BY <2>1 DEF TraceInv, UsedAccounts
  <2>6. UsedSlots'
    BY <2>1 DEF TraceInv, UsedSlots, Reached
  <2> QED
    BY <2>2, <2>3, <2>4, <2>5, <2>6 DEF TraceInv
<1> QED
  BY <1>1, <1>2

(* What the history says of the accounts and slots that a block used is    *)
(* what the traces in its prover input say, always.                        *)
THEOREM TraceInvariance == Spec => []TraceInv
BY TraceInit, TraceStep, PTL DEF Spec

(* The traces that process_tx_traces makes are traces the decoder accepts: *)
(* code is written or read, and a destroyed account is given nothing.      *)
THEOREM TraceTypes == Spec => []TypeOK
<1>1. TraceInv => TypeOK
  BY DEF TraceInv, TypedBlock, TypedInfos, TypedCodes, States, TypeOK
<1> QED
  BY <1>1, TraceInvariance, PTL

(* Whatever a transaction does, also to several accounts at once, as many *)
(* as MaxChanged allows, its trace replays to the state that the node is   *)
(* in after it: nothing is lost between geth's three traces.               *)
THEOREM Replays == Spec => TransactionsReplay
<1>1. TraceInv /\ [Next]_vars => [infos' # infos => Replay(world, Last(infos')) = world']_vars
  <2> SUFFICES ASSUME TraceInv, Next PROVE Replay(world, Last(infos')) = world'
    BY DEF vars
  <2>5. PICK list \in AccessLists :
          \E effects : IsEffects(effects) /\ Transaction(list, effects)
    BY EveryStep
  <2>1. PICK effects : IsEffects(effects) /\ Transaction(list, effects)
    BY <2>5
  <2>2. infos' = Append(infos, TracesOf(list, effects))
    BY <2>1 DEF Transaction, TracesOf
  <2>3. Last(infos') = TracesOf(list, effects)
    BY <2>2, Appended DEF TraceInv, TypedInfos
  <2>4. States
    BY DEF TraceInv, TypedBlock
  <2> QED
    BY <2>1, <2>3, <2>4, TransactionReplays
<1> QED
  BY <1>1, TraceInvariance, PTL DEF Spec, TransactionsReplay

-------------------------------------------------------------------------------
(* The traces of the whole block, replayed one after the other: the states *)
(* this goes through lead from the state before the block to the node's.   *)

ReplayedThrough(states, from, traces, to) ==
  /\ DOMAIN states = 0 .. Len(traces)
  /\ states[0] = from
  /\ \A i \in 1 .. Len(traces) : states[i] = Replay(states[i - 1], traces[i])
  /\ states[Len(traces)] = to

BlockReplays == \E states : ReplayedThrough(states, before, infos, world)

LEMMA ReplayExtends ==
  ASSUME TraceInv, BlockReplays, Next
  PROVE  BlockReplays'
<1>1. PICK list \in AccessLists :
        \E effects : IsEffects(effects) /\ Transaction(list, effects)
  BY EveryStep
<1>2. PICK effects : IsEffects(effects) /\ Transaction(list, effects)
  BY <1>1
<1>3. PICK states : ReplayedThrough(states, before, infos, world)
  BY DEF BlockReplays
<1> DEFINE traces == TracesOf(list, effects)
           l == Len(infos)
           more == [i \in 0 .. l + 1 |-> IF i = l + 1 THEN world' ELSE states[i]]
<1>4. /\ l \in Nat /\ Len(infos') = l + 1
      /\ \A i \in 1 .. l : infos'[i] = infos[i]
      /\ infos'[l + 1] = traces
  <2>1. infos' = Append(infos, traces) /\ Listed(infos)
    BY <1>2 DEF Transaction, TracesOf, TraceInv, TypedInfos
  <2> HIDE DEF traces
  <2> QED
    BY <2>1, Appended
<1>5. Replay(world, traces) = world'
  BY <1>2, TransactionReplays DEF TraceInv, TypedBlock
<1>6. before' = before
  BY <1>2 DEF Transaction
<1> HIDE DEF traces
<1>7. /\ DOMAIN states = 0 .. l /\ states[0] = before /\ states[l] = world
      /\ \A i \in 1 .. l : states[i] = Replay(states[i - 1], infos[i])
  BY <1>3 DEF ReplayedThrough
<1> HIDE DEF l
<1>8. /\ DOMAIN more = 0 .. l + 1 /\ more[l + 1] = world'
      /\ \A i \in 0 .. l : more[i] = states[i]
  BY <1>4
<1> HIDE DEF more
<1>9. ASSUME NEW i \in 1 .. l + 1
      PROVE  more[i] = Replay(more[i - 1], infos'[i])
  <2>1. CASE i = l + 1
    <3>1. i - 1 = l /\ l \in 0 .. l
      BY <1>4, <2>1
    <3>2. more[i - 1] = world
      BY <1>7, <1>8, <3>1
    <3> QED
      BY <1>4, <1>5, <1>8, <2>1, <3>2
  <2>2. CASE i # l + 1
    <3>1. i \in 1 .. l /\ i \in 0 .. l /\ i - 1 \in 0 .. l
      BY <1>4, <2>2
    <3> QED
      BY <1>4, <1>7, <1>8, <3>1
  <2> QED
    BY <2>1, <2>2
<1>10. more[0] = before'
  <2>1. 0 \in 0 .. l
    BY <1>4
  <2> QED
    BY <1>6, <1>7, <1>8, <2>1
<1>11. ReplayedThrough(more, before', infos', world')
  BY <1>4, <1>8, <1>9, <1>10 DEF ReplayedThrough
<1> QED
  BY <1>11 DEF BlockReplays

(* The traces of a block are decoded one after the other, each on what the *)
(* ones before it left: however many transactions there are, and whatever  *)
(* each does to what others did, this ends in the node's state after the   *)
(* block (rpc/src/native/txn.rs, process_transactions).                    *)
THEOREM BlockIsReplayed == Spec => []BlockReplays
<1>1. Init => BlockReplays
  <2> SUFFICES ASSUME Init PROVE BlockReplays
    OBVIOUS
  <2> DEFINE states == [i \in 0 .. 0 |-> before]
  <2>1. Len(infos) = 0 /\ world = before
    BY DEF Init
  <2>2. DOMAIN states = 0 .. 0 /\ states[0] = before
    OBVIOUS
  <2>3. ReplayedThrough(states, before, infos, world)
    BY <2>1, <2>2 DEF ReplayedThrough
  <2> QED
    BY <2>3 DEF BlockReplays
<1>2. TraceInv /\ BlockReplays /\ [Next]_vars => BlockReplays'
  <2> SUFFICES ASSUME BlockReplays, UNCHANGED vars PROVE BlockReplays'
    BY ReplayExtends
  <2> QED
    BY DEF BlockReplays, vars
<1> QED
  BY <1>1, <1>2, TraceInvariance, PTL DEF Spec

-------------------------------------------------------------------------------
(* The witness proves the accounts and slots that the block uses, all of   *)
(* them and no others.                                                     *)
THEOREM WitnessComplete == Spec => []WitnessCovers
<1>1. TraceInv => WitnessCovers
  <2> SUFFICES ASSUME TraceInv PROVE WitnessCovers
    OBVIOUS
  <2> DEFINE traced == UNION {DOMAIN infos[i] : i \in 1 .. Len(infos)}
  <2>1. traced = DOMAIN touched
    <3>1. \A a : a \in traced <=> \E i \in 1 .. Len(infos) : a \in DOMAIN infos[i]
      OBVIOUS
    <3>2. traced \subseteq Accounts /\ DOMAIN touched \subseteq Accounts
      BY DEF TraceInv, TypedInfos, TypedBlock
    <3> HIDE DEF traced
    <3> QED
      BY <3>1, <3>2 DEF TraceInv, UsedAccounts
  <2>2. DOMAIN StatesAccess = DOMAIN touched \cup withdrawals \cup {miner}
    BY <2>1 DEF StatesAccess
  <2>3. ASSUME NEW a \in DOMAIN touched PROVE touched[a] = StatesAccess[a]
    <3>1. StatesAccess[a] = UNION {DOMAIN infos[i][a].storage_written \cup infos[i][a].storage_read :
                                     i \in {j \in 1 .. Len(infos) : a \in DOMAIN infos[j]}}
      BY <2>2 DEF StatesAccess
    <3>2. \A s : s \in StatesAccess[a]
                   <=> \E i \in 1 .. Len(infos) : a \in DOMAIN infos[i] /\ Reached(infos[i][a], s)
      BY <3>1 DEF Reached
    <3>3. touched[a] \subseteq Slots
      BY DEF TraceInv, TypedBlock
    <3>4. StatesAccess[a] \subseteq Slots
      BY <3>2 DEF TraceInv, TypedInfos, TxnTraceOK, Reached
    <3> QED
      BY <3>2, <3>3, <3>4 DEF TraceInv, UsedSlots
  <2> QED
    BY <2>2, <2>3 DEF WitnessCovers
<1> QED
  BY <1>1, TraceInvariance, PTL

(* Every code that a transaction found or left in an account is in the     *)
(* code database of the prover input.                                      *)
THEOREM KnownCodes == Spec => []CodesAreKnown
<1>1. TraceInv => CodesAreKnown
  BY DEF TraceInv
<1> QED
  BY <1>1, TraceInvariance, PTL

===============================================================================
