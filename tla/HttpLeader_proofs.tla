--------------------------- MODULE HttpLeader_proofs ---------------------------
(***************************************************************************)
(* Proofs about HttpLeader, for any requests and blocks, any number of     *)
(* writes per proof and any number of kills.                               *)
(***************************************************************************)
EXTENDS HttpLeader, TLAPS

(* A handler writes from the start of its file to the end. *)
Offsets ==
  \A r \in Requests :
    /\ pc[r] \in {"unsent", "proving", "create"} => offset[r] = 0
    /\ pc[r] = "write" => offset[r] < Chunks
    /\ pc[r] = "ok" => offset[r] = Chunks

(* Of the handlers that write a file now, only the one that created it     *)
(* last was not writing then.                                              *)
OthersWereThere ==
  \A r, s \in Requests :
    maker[BlockOf[r]] = r /\ s # r /\ s \in Writing(BlockOf[r]) => s \in rivals[r]

(* A file that was created by a handler has pieces of that one and of its  *)
(* rivals only, and none is missing of what the handler has passed.        *)
Pieces ==
  \A r \in Requests : maker[BlockOf[r]] = r =>
    /\ \A i \in 1 .. Chunks : file[BlockOf[r]][i] \in {Nobody, r} \cup rivals[r]
    /\ \A i \in 1 .. offset[r] : file[BlockOf[r]][i] # Nobody

HttpInv == TypeOK /\ Offsets /\ OthersWereThere /\ Pieces

-------------------------------------------------------------------------------
LEMMA EmptyIsAFile == Empty \in [1 .. Chunks -> Requests \cup {Nobody}]
  BY DEF Empty

LEMMA HttpInitially == ASSUME Init PROVE HttpInv
<1> USE RequestsAssumption, ChunksAssumption
<1>1. TypeOK
  <2>1. offset \in [Requests -> 0 .. Chunks]
    BY DEF Init
  <2>2. file \in [Blocks -> [1 .. Chunks -> Requests \cup {Nobody}]]
    BY EmptyIsAFile DEF Init
  <2>3. pc \in [Requests -> PC] /\ maker \in [Blocks -> Requests \cup {Nobody}]
    BY DEF Init, PC
  <2>4. kills \in 0 .. MaxKills
    BY DEF Init
  <2>5. up \in BOOLEAN /\ rivals \in [Requests -> SUBSET Requests]
    BY Zenon DEF Init
  <2> QED
    BY <2>1, <2>2, <2>3, <2>4, <2>5 DEF TypeOK
<1>2. Offsets /\ OthersWereThere /\ Pieces
  BY DEF Init, Offsets, OthersWereThere, Pieces
<1> QED
  BY <1>1, <1>2 DEF HttpInv

(* Types are kept by every step. *)
LEMMA TypeStep == ASSUME TypeOK, Offsets, [Next]_vars PROVE TypeOK'
<1> USE RequestsAssumption, ChunksAssumption DEF TypeOK, PC
<1>1. CASE Start
  BY <1>1 DEF Start
<1>2. CASE Kill
  <2>1. pc' \in [Requests -> PC] /\ kills' \in 0 .. MaxKills
    BY <1>2 DEF Kill
  <2> QED
    BY <1>2, <2>1 DEF Kill
<1>3. ASSUME NEW r \in Requests, Send(r) PROVE TypeOK'
  BY <1>3 DEF Send, Goto
<1>4. ASSUME NEW r \in Requests, Prove(r) PROVE TypeOK'
  BY <1>4 DEF Prove, Goto
<1>5. ASSUME NEW r \in Requests, CreateFile(r) PROVE TypeOK'
  <2>1. file' \in [Blocks -> [1 .. Chunks -> Requests \cup {Nobody}]]
    BY <1>5, EmptyIsAFile DEF CreateFile, FileOf
  <2>2. pc' \in [Requests -> PC]
    BY <1>5 DEF CreateFile, Goto
  <2>3. maker' \in [Blocks -> Requests \cup {Nobody}]
    BY <1>5 DEF CreateFile, FileOf
  <2>4. rivals' \in [Requests -> SUBSET Requests]
    <3>1. Writing(BlockOf[r]) \in SUBSET Requests
      BY DEF Writing
    <3>2. \/ rivals' = rivals
          \/ rivals' = [rivals EXCEPT ![r] = Writing(BlockOf[r])]
      BY <1>5 DEF CreateFile
    <3> HIDE DEF PC
    <3> QED
      BY <3>1, <3>2
  <2> QED
    BY <1>5, <2>1, <2>2, <2>3, <2>4 DEF CreateFile
<1>6. ASSUME NEW r \in Requests, WriteChunk(r) PROVE TypeOK'
  <2>1. offset[r] + 1 \in 1 .. Chunks
    BY <1>6 DEF WriteChunk, Offsets
  <2>2. file' \in [Blocks -> [1 .. Chunks -> Requests \cup {Nobody}]]
    <3>1. CASE file' = file
      BY <3>1
    <3>2. CASE file' = [file EXCEPT ![BlockOf[r]][offset[r] + 1] = r]
      <4>1. [file[BlockOf[r]] EXCEPT ![offset[r] + 1] = r] \in [1 .. Chunks -> Requests \cup {Nobody}]
        BY <2>1
      <4> QED
        BY <3>2, <4>1
    <3> QED
      BY <1>6, <3>1, <3>2 DEF WriteChunk, FileOf
  <2>3. offset' \in [Requests -> 0 .. Chunks]
    BY <1>6, <2>1 DEF WriteChunk
  <2>4. pc' \in [Requests -> PC]
    BY <1>6 DEF WriteChunk, Goto
  <2> QED
    BY <1>6, <2>2, <2>3, <2>4 DEF WriteChunk
<1>7. ASSUME NEW r \in Requests, GiveUp(r) PROVE TypeOK'
  BY <1>7 DEF GiveUp, Goto
<1>8. CASE UNCHANGED vars
  BY <1>8 DEF vars
<1> QED
  BY <1>1, <1>2, <1>3, <1>4, <1>5, <1>6, <1>7, <1>8 DEF Next, Handle

(* A step that touches no file, and after which nobody writes who did not  *)
(* before, keeps everything.                                               *)
LEMMA Quiet ==
  ASSUME HttpInv, TypeOK', UNCHANGED <<offset, file, maker, rivals>>,
         \A r \in Requests : \/ pc'[r] = pc[r]
                             \/ pc'[r] \in {"dropped", "error"}
                             \/ pc[r] \in {"unsent", "proving"} /\ pc'[r] \in {"proving", "create"}
  PROVE  HttpInv'
<1>1. Offsets'
  BY DEF HttpInv, Offsets
<1>2. OthersWereThere'
  BY DEF HttpInv, OthersWereThere, Writing
<1>3. Pieces'
  BY DEF HttpInv, Pieces
<1> QED
  BY <1>1, <1>2, <1>3 DEF HttpInv

(* The file is created: who writes it from here on is r, or was there.     *)
LEMMA CreateKeeps ==
  ASSUME HttpInv, TypeOK', NEW r \in Requests, CreateFile(r), pc'[r] = "write"
  PROVE  HttpInv'
<1> USE RequestsAssumption, ChunksAssumption
<1>t. TypeOK
  BY DEF HttpInv
<1>1. /\ pc[r] = "create" /\ pc' = [pc EXCEPT ![r] = "write"]
      /\ file' = [file EXCEPT ![BlockOf[r]] = Empty]
      /\ maker' = [maker EXCEPT ![BlockOf[r]] = r]
      /\ rivals' = [rivals EXCEPT ![r] = Writing(BlockOf[r])]
      /\ UNCHANGED offset
  BY <1>t DEF CreateFile, Goto, FileOf, TypeOK
<1>2. Offsets'
  BY <1>1, <1>t DEF HttpInv, Offsets, TypeOK
<1>3. OthersWereThere'
  <2> SUFFICES ASSUME NEW q \in Requests, NEW s \in Requests, maker'[BlockOf[q]] = q, s # q,
                      BlockOf[s] = BlockOf[q], pc'[s] = "write"
               PROVE  s \in rivals'[q]
    BY DEF OthersWereThere, Writing
  <2>1. CASE q = r
    BY <2>1, <1>1, <1>t DEF TypeOK, Writing
  <2>2. CASE q # r
    <3>1. BlockOf[q] # BlockOf[r] /\ s # r
      BY <2>2, <1>1, <1>t DEF TypeOK
    <3> QED
      BY <2>2, <3>1, <1>1, <1>t DEF TypeOK, HttpInv, OthersWereThere, Writing
  <2> QED
    BY <2>1, <2>2
<1>4. Pieces'
  <2> SUFFICES ASSUME NEW q \in Requests, maker'[BlockOf[q]] = q
               PROVE  /\ \A i \in 1 .. Chunks :
                           file'[BlockOf[q]][i] \in {Nobody, q} \cup rivals'[q]
                      /\ \A i \in 1 .. offset'[q] : file'[BlockOf[q]][i] # Nobody
    BY DEF Pieces
  <2>1. CASE q = r
    <3>1. offset'[q] = 0 /\ \A i \in 1 .. Chunks : file'[BlockOf[q]][i] = Nobody
      BY <2>1, <1>1, <1>t DEF TypeOK, HttpInv, Offsets, Empty
    <3> QED
      BY <3>1
  <2>2. CASE q # r
    <3>1. BlockOf[q] # BlockOf[r]
      BY <2>2, <1>1, <1>t DEF TypeOK
    <3>2. /\ file'[BlockOf[q]] = file[BlockOf[q]] /\ maker'[BlockOf[q]] = maker[BlockOf[q]]
          /\ rivals'[q] = rivals[q] /\ offset' = offset
      BY <2>2, <3>1, <1>1, <1>t DEF TypeOK
    <3> QED
      BY <3>2 DEF HttpInv, Pieces
  <2> QED
    BY <2>1, <2>2
<1> QED
  BY <1>2, <1>3, <1>4 DEF HttpInv

(* A piece is written into the file of a block: by the handler that        *)
(* created it, or by a rival of that one.                                  *)
LEMMA WriteKeeps ==
  ASSUME HttpInv, TypeOK', NEW r \in Requests, WriteChunk(r), offset'[r] # offset[r]
  PROVE  HttpInv'
<1> USE RequestsAssumption, ChunksAssumption
<1> DEFINE b == BlockOf[r]
           l == IF offset[r] + 1 = Chunks THEN "ok" ELSE "write"
<1>t. TypeOK
  BY DEF HttpInv
<1>1. /\ pc[r] = "write" /\ pc' = [pc EXCEPT ![r] = l]
      /\ file' = [file EXCEPT ![b][offset[r] + 1] = r]
      /\ offset' = [offset EXCEPT ![r] = @ + 1]
      /\ UNCHANGED <<maker, rivals>>
  BY <1>t DEF WriteChunk, Goto, FileOf, TypeOK
<1>2. b \in Blocks /\ offset[r] \in 0 .. Chunks /\ offset[r] < Chunks
  BY <1>1, <1>t DEF TypeOK, HttpInv, Offsets
<1>3. /\ \A s \in Requests : s # r => pc'[s] = pc[s] /\ offset'[s] = offset[s]
      /\ pc'[r] = l /\ offset'[r] = offset[r] + 1
      /\ \A c \in Blocks : c # b => file'[c] = file[c]
      /\ \A i \in 1 .. Chunks : file'[b][i] = IF i = offset[r] + 1 THEN r ELSE file[b][i]
  BY <1>1, <1>2, <1>t DEF TypeOK
<1>4. Offsets'
  BY <1>1, <1>2, <1>3 DEF HttpInv, Offsets
<1>5. OthersWereThere'
  <2>1. \A s \in Requests : pc'[s] = "write" => pc[s] = "write"
    BY <1>1, <1>3
  <2> QED
    BY <1>1, <2>1 DEF HttpInv, OthersWereThere, Writing
<1>6. Pieces'
  <2> SUFFICES ASSUME NEW q \in Requests, maker[BlockOf[q]] = q
               PROVE  /\ \A i \in 1 .. Chunks :
                           file'[BlockOf[q]][i] \in {Nobody, q} \cup rivals[q]
                      /\ \A i \in 1 .. offset'[q] : file'[BlockOf[q]][i] # Nobody
    BY <1>1 DEF Pieces
  <2>0. BlockOf[q] \in Blocks /\ offset'[q] \in 0 .. Chunks
    BY DEF TypeOK
  <2>1. /\ \A i \in 1 .. Chunks : file[BlockOf[q]][i] \in {Nobody, q} \cup rivals[q]
        /\ \A i \in 1 .. offset[q] : file[BlockOf[q]][i] # Nobody
    BY DEF HttpInv, Pieces
  <2>2. CASE BlockOf[q] # b
    BY <2>0, <2>1, <2>2, <1>3
  <2>3. CASE BlockOf[q] = b
    <3>1. r = q \/ r \in rivals[q]
      BY <2>3, <1>1 DEF HttpInv, OthersWereThere, Writing
    <3>2. \A i \in 1 .. Chunks : file'[BlockOf[q]][i] \in {Nobody, q} \cup rivals[q]
      BY <2>1, <2>3, <3>1, <1>3
    <3>3. \A i \in 1 .. offset'[q] : i = offset[r] + 1 \/ i \in 1 .. offset[q]
      <4>1. CASE q = r
        BY <4>1, <1>2, <1>3
      <4>2. CASE q # r
        BY <4>2, <1>3
      <4> QED
        BY <4>1, <4>2
    <3>4. \A i \in 1 .. offset'[q] : file'[BlockOf[q]][i] # Nobody
      BY <2>0, <2>1, <2>3, <3>3, <1>3
    <3> QED
      BY <3>2, <3>4
  <2> QED
    BY <2>2, <2>3
<1> QED
  BY <1>4, <1>5, <1>6 DEF HttpInv

LEMMA HttpStep == ASSUME HttpInv, [Next]_vars PROVE HttpInv'
<1> USE RequestsAssumption, ChunksAssumption
<1>t. TypeOK /\ TypeOK'
  BY TypeStep DEF HttpInv
<1>1. CASE Start \/ UNCHANGED vars
  BY <1>1, <1>t, Quiet DEF Start, vars
<1>2. CASE Kill
  BY <1>2, <1>t, Quiet DEF Kill, TypeOK
<1>3. ASSUME NEW r \in Requests, Send(r) \/ Prove(r) \/ GiveUp(r) PROVE HttpInv'
  BY <1>3, <1>t, Quiet DEF Send, Prove, GiveUp, Goto, TypeOK
<1>4. ASSUME NEW r \in Requests, CreateFile(r) PROVE HttpInv'
  <2>1. CASE pc'[r] = "write"
    BY <1>4, <1>t, <2>1, CreateKeeps
  <2>2. CASE pc'[r] # "write"
    BY <1>4, <1>t, <2>2, Quiet DEF CreateFile, Goto, TypeOK
  <2> QED
    BY <2>1, <2>2
<1>5. ASSUME NEW r \in Requests, WriteChunk(r) PROVE HttpInv'
  <2>1. CASE offset'[r] # offset[r]
    BY <1>5, <1>t, <2>1, WriteKeeps
  <2>2. CASE offset'[r] = offset[r]
    <3>1. UNCHANGED <<maker, rivals, offset, file>> /\ pc' = [pc EXCEPT ![r] = "error"]
      BY <1>5, <1>t, <2>2 DEF WriteChunk, Goto, TypeOK
    <3> QED
      BY <3>1, <1>t, Quiet DEF TypeOK
  <2> QED
    BY <2>1, <2>2
<1> QED
  BY <1>1, <1>2, <1>3, <1>4, <1>5 DEF Next, Handle

(* The inductive invariant: the handlers that can still put something into *)
(* a file are the one that created it last and those that were writing it  *)
(* at that moment, however many handlers of one block there are.           *)
THEOREM HttpInvariance == Spec => []HttpInv
  BY HttpInitially, HttpStep, PTL DEF Spec

(* Type correctness of HttpLeader. *)
THEOREM HttpTypes == Spec => []TypeOK
  BY HttpInvariance, PTL DEF HttpInv

(* The file behind an answer 200 has a piece in every place, and none of a *)
(* handler that was not writing the same file when it was created.         *)
THEOREM WholeProofs == Spec => []SavedProofIsWhole
<1>1. HttpInv => SavedProofIsWhole
  <2> SUFFICES ASSUME HttpInv, NEW r \in Requests, pc[r] = "ok", maker[BlockOf[r]] = r,
                      NEW i \in 1 .. Chunks
               PROVE  file[BlockOf[r]][i] \in {r} \cup rivals[r]
    BY DEF SavedProofIsWhole
  <2>1. offset[r] = Chunks
    BY DEF HttpInv, Offsets
  <2> QED
    BY <2>1 DEF HttpInv, Pieces
<1> QED
  BY <1>1, HttpInvariance, PTL

(* A whole proof that was answered OK changes only by the hand of another  *)
(* request's handler for the same block that is creating or writing.       *)
THEOREM Replacement == Spec => OnlyReplacedByItsBlock
<1> USE RequestsAssumption, ChunksAssumption
<1>1. ASSUME HttpInv, [Next]_vars,
             NEW r \in Requests, pc[r] = "ok", Whole(r)
      PROVE  \/ Whole(r)'
             \/ \E s \in Requests \ {r} : BlockOf[s] = BlockOf[r] /\ pc[s] \in {"create", "write"}
  <2>1. file' = file \/ \E s \in Requests : CreateFile(s) \/ WriteChunk(s)
    BY <1>1 DEF Next, Handle, Start, Kill, Send, Prove, GiveUp, vars
  <2>2. CASE file' = file
    BY <1>1, <2>2 DEF Whole
  <2>3. ASSUME NEW s \in Requests, CreateFile(s) \/ WriteChunk(s)
        PROVE  \/ Whole(r)'
               \/ \E q \in Requests \ {r} : BlockOf[q] = BlockOf[r] /\ pc[q] \in {"create", "write"}
    <3>1. pc[s] \in {"create", "write"} /\ s # r
      BY <1>1, <2>3 DEF CreateFile, WriteChunk
    <3>2. CASE BlockOf[s] # BlockOf[r]
      BY <1>1, <2>3, <3>2 DEF CreateFile, WriteChunk, FileOf, Whole, HttpInv, TypeOK
    <3> QED
      BY <3>1, <3>2
  <2> QED
    BY <2>1, <2>2, <2>3
<1>2. HttpInv /\ [Next]_vars =>
        [\A r \in Requests : pc[r] = "ok" /\ Whole(r) =>
           \/ Whole(r)'
           \/ \E s \in Requests \ {r} : BlockOf[s] = BlockOf[r] /\ pc[s] \in {"create", "write"}]_vars
  BY <1>1
<1> QED
  BY <1>2, HttpInvariance, PTL DEF Spec, OnlyReplacedByItsBlock

===============================================================================
