------------------------------- MODULE HttpLeader -------------------------------
(***************************************************************************)
(* The leader as an HTTP service (leader/src/http.rs): handlers of         *)
(* POST /prove run in parallel, each proves one block and writes the proof *)
(* to a file named after the block's number, which is all that keeps two   *)
(* handlers apart: nothing stops two clients, or one that asks again, from *)
(* having the same block proved at the same time.                          *)
(*                                                                         *)
(* An operator Mut_X is a mistake that X could contain.                    *)
(***************************************************************************)
EXTENDS Naturals

CONSTANTS
  Requests,   \* the requests
  Blocks,     \* the block numbers
  BlockOf,    \* the block of each request
  Chunks,     \* how many writes it takes to write a proof
  Nobody,     \* no request
  MaxKills    \* bound: times the leader is killed

ASSUME RequestsAssumption == BlockOf \in [Requests -> Blocks] /\ Nobody \notin Requests
ASSUME ChunksAssumption   == Chunks \in Nat \ {0} /\ MaxKills \in Nat

VARIABLES
  up,       \* the leader is listening
  pc,       \* the handler of each request, or its answer
  offset,   \* how many chunks a handler has written
  file,     \* the file of each block: who wrote each chunk of it last
  maker,    \* who created, or truncated, it last
  rivals,   \* history: the handlers that were writing it at that moment
  kills

vars == <<up, pc, offset, file, maker, rivals, kills>>

PC      == {"unsent", "proving", "create", "write", "ok", "error", "dropped"}
Working == {"proving", "create", "write"}

TypeOK ==
  /\ up     \in BOOLEAN
  /\ pc     \in [Requests -> PC]
  /\ offset \in [Requests -> 0 .. Chunks]
  /\ file   \in [Blocks -> [1 .. Chunks -> Requests \cup {Nobody}]]
  /\ maker  \in [Blocks -> Requests \cup {Nobody}]
  /\ rivals \in [Requests -> SUBSET Requests]
  /\ kills  \in 0 .. MaxKills

Empty == [i \in 1 .. Chunks |-> Nobody]

Init ==
  /\ up     = FALSE
  /\ pc     = [r \in Requests |-> "unsent"]
  /\ offset = [r \in Requests |-> 0]
  /\ file   = [b \in Blocks |-> Empty]
  /\ maker  = [b \in Blocks |-> Nobody]
  /\ rivals = [r \in Requests |-> {}]
  /\ kills  = 0

Goto(r, l) == pc' = [pc EXCEPT ![r] = l]

(* The leader makes sure that it has an output directory and listens. *)
Start ==
  /\ ~up
  /\ up' = TRUE
  /\ UNCHANGED <<pc, offset, file, maker, rivals, kills>>

Send(r) ==
  /\ up /\ pc[r] = "unsent"
  /\ Goto(r, "proving")
  /\ UNCHANGED <<up, offset, file, maker, rivals, kills>>

(* BlockProverInput::prove has returned; an error is answered. *)
Prove(r) ==
  /\ pc[r] = "proving"
  /\ \E l \in {"create", "error"} : Goto(r, l)
  /\ UNCHANGED <<up, offset, file, maker, rivals, kills>>

(* write_to_file: the name is made of the block number alone. *)
Mut_FileOf(r) == CHOOSE b \in Blocks : TRUE

FileOf(r) == BlockOf[r]

(* The handlers that are writing the proof of block b. *)
Writing(b) == {s \in Requests : BlockOf[s] = b /\ pc[s] = "write"}

CreateFile(r) ==
  /\ pc[r] = "create"
  /\ \/ /\ file'   = [file EXCEPT ![FileOf(r)] = Empty]
        /\ maker'  = [maker EXCEPT ![FileOf(r)] = r]
        /\ rivals' = [rivals EXCEPT ![r] = Writing(BlockOf[r])]
        /\ Goto(r, "write")
     \/ /\ Goto(r, "error")
        /\ UNCHANGED <<file, maker, rivals>>
  /\ UNCHANGED <<up, offset, kills>>

(* to_writer writes the proof to the unbuffered file piece by piece, at    *)
(* the handler's own offset, and the last piece completes the answer.      *)
Mut_OneChunkMore(r) ==
  /\ pc[r] = "write"
  /\ UNCHANGED file
  /\ offset' = [offset EXCEPT ![r] = @ + 1]
  /\ Goto(r, IF offset[r] = Chunks THEN "ok" ELSE "write")
  /\ UNCHANGED <<up, maker, rivals, kills>>

Mut_WriteChunk(r) ==
  /\ pc[r] = "write" /\ offset[r] < Chunks
  /\ file'   = [file EXCEPT ![FileOf(r)][offset[r] + 1] = r]
  /\ offset' = [offset EXCEPT ![r] = @ + 1]
  /\ UNCHANGED <<up, pc, maker, rivals, kills>>

WriteChunk(r) ==
  /\ pc[r] = "write"
  /\ \/ /\ file'   = [file EXCEPT ![FileOf(r)][offset[r] + 1] = r]
        /\ offset' = [offset EXCEPT ![r] = @ + 1]
        /\ Goto(r, IF offset[r] + 1 = Chunks THEN "ok" ELSE "write")
     \/ /\ Goto(r, "error")
        /\ UNCHANGED <<file, offset>>
  /\ UNCHANGED <<up, maker, rivals, kills>>

(* A client goes away, say after a timeout, and the server notices: it     *)
(* drops the handler where it awaits.  write_to_file awaits nothing and    *)
(* goes on to its end.                                                     *)
GiveUp(r) ==
  /\ pc[r] = "proving"
  /\ Goto(r, "dropped")
  /\ UNCHANGED <<up, offset, file, maker, rivals, kills>>

(* The leader is killed, and every handler with it. *)
Kill ==
  /\ up /\ kills < MaxKills
  /\ up'    = FALSE
  /\ kills' = kills + 1
  /\ pc'    = [r \in Requests |-> IF pc[r] \in Working THEN "dropped" ELSE pc[r]]
  /\ UNCHANGED <<offset, file, maker, rivals>>

Handle(r) == Prove(r) \/ CreateFile(r) \/ WriteChunk(r)

Next ==
  \/ Start \/ Kill
  \/ \E r \in Requests : Send(r) \/ Handle(r) \/ GiveUp(r)

(* The runtime answers and the server polls its handlers. *)
Spec == Init /\ [][Next]_vars /\ \A r \in Requests : WF_vars(Handle(r))

-------------------------------------------------------------------------------
(* Properties *)

Whole(r) == file[BlockOf[r]] = [i \in 1 .. Chunks |-> r]

(* The file that a request answered OK created last holds all of a proof,  *)
(* and its own: only a handler of the same block that was in the middle of *)
(* writing when the file was created can have put pieces of another proof  *)
(* into it.  Handlers of other blocks, handlers that failed before or will *)
(* come later, kills and restarts cannot (leader/src/http.rs:43-54).       *)
SavedProofIsWhole ==
  \A r \in Requests : pc[r] = "ok" /\ maker[BlockOf[r]] = r =>
    \A i \in 1 .. Chunks : file[BlockOf[r]][i] \in {r} \cup rivals[r]

(* A proof that was saved whole and answered OK stays on disk until a      *)
(* handler of another request for its block writes it anew: no request for *)
(* another block, no failed proof, no kill and no restart takes it away.   *)
OnlyReplacedByItsBlock ==
  [][\A r \in Requests : pc[r] = "ok" /\ Whole(r) =>
       \/ Whole(r)'
       \/ \E s \in Requests \ {r} : BlockOf[s] = BlockOf[r] /\ pc[s] \in {"create", "write"}]_vars

(* Every request that is accepted is answered, or its handler is dropped. *)
EveryRequestEnds == \A r \in Requests : pc[r] \in Working ~> pc[r] \notin Working

(* The file of a request answered OK holds the generated proof, or that of *)
(* a later request (leader/src/http.rs:35).                                *)
OkProofIsWhole ==
  \A r \in Requests : pc[r] = "ok" /\ maker[BlockOf[r]] = r => Whole(r)

===============================================================================
