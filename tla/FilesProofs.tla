---------------------------- MODULE FilesProofs ----------------------------
(***************************************************************************)
(* Proofs about ModelFiles, for any number of pulls and launches: the      *)
(* types always hold; when the pulls of a model never overlap, the catalog *)
(* and the caches hold whole models and no published file is written       *)
(* again.  About PullCommand, for any number of commands and any buffer:   *)
(* exit codes are true, and without overlap it implements CatalogService.  *)
(***************************************************************************)
EXTENDS PullCommand, TLAPS

(* The inductive invariant. *)

\* At most one pull and one fetch at a time.
Alone == /\ \A p, q \in Pulls : pull[p] \in Running /\ pull[q] \in Running => p = q
         /\ \A f, g \in Fetches :
              fetch[f] \in Fetching /\ fetch[g] \in Fetching => f = g

\* A pull that has not started has made no file.
Unborn == /\ \A p \in Pulls : pull[p] = "idle" =>
               p # final /\ p # partial /\ \A f \in Fetches : body[f] # p
          /\ \A f \in Fetches :
               fetch[f] \in {"idle", "clearing", "requesting", "answered"} =>
                 f # target /\ f # tmp

\* The name the pull writes to is its own, and no published file has it.
Apart == /\ partial # None => partial # final
         /\ \A p \in Pulls : pull[p] = "copying" => partial # None /\ fd[p] = partial
         /\ tmp # None => tmp # target
         /\ \A f \in Fetches : fetch[f] = "copying" => tmp # None /\ cfd[f] = tmp

\* What has been written so far is the beginning of the source.
Progress ==
  /\ \A p \in Pulls : pull[p] \in {"copying", "copied", "verified"} =>
       /\ partial # None
       /\ data[partial] = UpTo(Model(src[p]), off[p])
       /\ pull[p] # "copying" => off[p] = Blocks
       /\ pull[p] = "verified" => src[p] \in Gguf
  /\ \A f \in Fetches : fetch[f] \in {"copying", "copied", "verified"} =>
       /\ tmp # None
       /\ body[f] # None
       /\ cdata[tmp] = UpTo(data[body[f]], pos[f])
       /\ fetch[f] # "copying" => pos[f] = Blocks

\* The file that answers a fetch is one the catalog has published.
Served ==
  \A f \in Fetches : fetch[f] \in {"answered", "copying", "copied", "verified"} =>
     /\ body[f] # None
     /\ body[f] # partial
     /\ Whole(data[body[f]])
     /\ size[f] = Blocks
     /\ fetch[f] = "answered" => pos[f] = 0

\* Nothing is written before the copy begins.
Fresh == /\ \A p \in Pulls : pull[p] = "idle" => off[p] = 0
         /\ \A f \in Fetches : fetch[f] \in {"idle", "clearing", "requesting"} => pos[f] = 0

FilesInv == /\ FilesTypeOK /\ Alone /\ Unborn /\ Apart /\ Progress /\ Served /\ Fresh
            /\ final # None => Whole(data[final])
            /\ target # None => Whole(cdata[target])
-----------------------------------------------------------------------------
(* Sequences of blocks. *)

\* UpTo(s, k) has k blocks.
LEMMA UpToType ==
  ASSUME NEW s \in Seq(Block), NEW k \in 0..Len(s)
  PROVE  UpTo(s, k) \in Seq(Block) /\ Len(UpTo(s, k)) = k
<1>1. \A i \in 1..k : s[i] \in Block
  OBVIOUS
<1>2. UpTo(s, k) \in [1..k -> Block]
  BY <1>1 DEF UpTo
<1>3. UpTo(s, k) \in Seq(Block)
  BY <1>2
<1>4. DOMAIN UpTo(s, k) = 1..k
  BY <1>2
<1>5. QED
  BY <1>3, <1>4

\* Writing the next block of a file extends its beginning by one.
LEMMA UpToGrows ==
  ASSUME NEW s \in Seq(Block), NEW k \in Nat, k < Len(s)
  PROVE  WriteAt(UpTo(s, k), k + 1, s[k + 1]) = UpTo(s, k + 1)
<1>1. Len(UpTo(s, k)) = k
  BY UpToType
<1>2. \A i \in 1..(k + 1) :
        (IF i = k + 1 THEN s[k + 1] ELSE IF i <= k THEN UpTo(s, k)[i] ELSE Hole) = s[i]
  BY DEF UpTo
<1>3. QED
  BY <1>1, <1>2 DEF WriteAt, UpTo

\* The whole of a file is its beginning.
LEMMA UpToAll ==
  ASSUME NEW s \in Seq(Block)
  PROVE  UpTo(s, Len(s)) = s
BY DEF UpTo

\* A model is a file of Blocks blocks.
LEMMA ModelType ==
  ASSUME NEW v \in Sources
  PROVE  Model(v) \in Seq(Block) /\ Len(Model(v)) = Blocks
<1>1. Blocks \in Nat
  BY DiskAssumption
<1>2. Model(v) \in [1..Blocks -> Block]
  BY DEF Model, Block
<1>3. DOMAIN Model(v) = 1..Blocks
  BY DEF Model
<1>4. QED
  BY <1>1, <1>2, <1>3

\* The magic of a complete download is that of its source.
LEMMA MagicTells ==
  ASSUME NEW v \in Sources, HasMagic(Model(v))
  PROVE  v \in Gguf
<1>1. PICK w \in Gguf : Model(v)[1] = Model(w)[1]
  BY DEF HasMagic
<1>2. 1 \in 1..Blocks
  BY DiskAssumption
<1>3. Model(v)[1].src = v /\ Model(w)[1].src = w
  BY <1>2 DEF Model
<1>4. QED
  BY <1>1, <1>3
-----------------------------------------------------------------------------
(* Types, which hold however many pulls of the model run at a time. *)

\* Who copies has a file open, and a source.
Opened == /\ \A p \in Pulls : pull[p] = "copying" => fd[p] # None
          /\ \A f \in Fetches : fetch[f] \in {"answered", "copying"} => body[f] # None
          /\ \A f \in Fetches : fetch[f] = "copying" => cfd[f] # None

FilesTyping == FilesTypeOK /\ Opened

\* Writing a block to a file, wherever it ends, leaves a file of blocks.
LEMMA WriteAtType ==
  ASSUME NEW s \in Seq(Block), NEW k \in Nat \ {0}, NEW b \in Block
  PROVE  /\ WriteAt(s, k, b) \in Seq(Block)
         /\ Len(WriteAt(s, k, b)) = IF k > Len(s) THEN k ELSE Len(s)
<1> DEFINE n == IF k > Len(s) THEN k ELSE Len(s)
<1>1. n \in Nat
  OBVIOUS
<1>2. Hole \in Block
  BY DEF Block
<1>3. \A i \in 1..n : (IF i = k THEN b ELSE IF i <= Len(s) THEN s[i] ELSE Hole) \in Block
  BY <1>2
<1>4. WriteAt(s, k, b) \in [1..n -> Block]
  BY <1>3 DEF WriteAt
<1>5. DOMAIN WriteAt(s, k, b) = 1..n
  BY DEF WriteAt
<1> HIDE DEF n
<1>6. WriteAt(s, k, b) \in Seq(Block) /\ Len(WriteAt(s, k, b)) = n
  BY <1>1, <1>4, <1>5
<1> QED
  BY <1>6 DEF n

LEMMA StoreStepTypes ==
  ASSUME FilesTyping, Pulling
  PROVE  FilesTyping'
<1> USE DEF FilesTyping, FilesTypeOK, StoreTypeOK, CacheTypeOK, Opened, PullState, Running
<1>0. UNCHANGED cacheVars /\ StoreNext
  BY DEF Pulling
<1> USE <1>0 DEF cacheVars
<1> USE StoreAssumption
<1>1. CASE StoreCrash
  BY <1>1 DEF StoreCrash
<1>2. ASSUME NEW p \in Pulls, CreatePartial(p) PROVE FilesTyping'
  <2>1. <<>> \in Seq(Block) /\ Len(<<>>) = 0 /\ Blocks \in Nat
    BY DiskAssumption
  <2>2. partial' \in Pulls /\ fd' = [fd EXCEPT ![p] = partial']
        /\ data' = [data EXCEPT ![partial'] = <<>>]
        /\ pull' = [pull EXCEPT ![p] = "copying"] /\ UNCHANGED <<final, src, off>>
    BY <1>2 DEF CreatePartial
  <2> QED
    BY <2>1, <2>2
<1>3. ASSUME NEW p \in Pulls, CopyBlock(p) PROVE FilesTyping'
  <2> DEFINE k == off[p] + 1
             file == fd[p]
             new == WriteAt(data[file], k, Model(src[p])[k])
  <2>0. pull[p] = "copying" /\ off[p] < Blocks /\ off[p] \in 0..Blocks /\ Blocks \in Nat
    BY <1>3, DiskAssumption DEF CopyBlock
  <2>1. /\ k \in 1..Blocks /\ k \in Nat \ {0} /\ Blocks \in Nat
        /\ file \in Pulls /\ data[file] \in Seq(Block) /\ Len(data[file]) <= Blocks
    <3>1. fd[p] \in Pulls
      BY <2>0
    <3>2. data[fd[p]] \in Seq(Block) /\ Len(data[fd[p]]) <= Blocks
      BY <3>1
    <3>3. k \in 1..Blocks /\ k \in Nat \ {0}
      <4>1. \A i \in 0..Blocks : i < Blocks => i + 1 \in 1..Blocks /\ i + 1 \in Nat \ {0}
        BY <2>0
      <4> QED
        BY <2>0, <4>1
    <3> QED
      BY <2>0, <3>1, <3>2, <3>3
  <2>2. Model(src[p])[k] \in Block
    <3> HIDE DEF k
    <3> QED
      BY <2>1 DEF Model, Block
  <2>3. new \in Seq(Block) /\ Len(new) = IF k > Len(data[file]) THEN k ELSE Len(data[file])
    <3> HIDE DEF k, file
    <3> QED
      BY <2>1, <2>2, WriteAtType
  <2>4. Len(new) <= Blocks
    <3> HIDE DEF new, k, file
    <3> QED
      BY <2>1, <2>3
  <2>5. off' = [off EXCEPT ![p] = k] /\ data' = [data EXCEPT ![file] = new]
        /\ UNCHANGED <<final, partial, pull, src, fd>>
    BY <1>3 DEF CopyBlock
  <2> HIDE DEF new, file, k
  <2>6. data' \in [Pulls -> Seq(Block)] /\ \A q \in Pulls : Len(data'[q]) <= Blocks
    BY <2>1, <2>3, <2>4, <2>5
  <2>7. off' \in [Pulls -> 0..Blocks]
    BY <2>1, <2>5
  <2> QED
    BY <2>5, <2>6, <2>7
<1>4. ASSUME NEW p \in Pulls,
             RequestFails(p) \/ CopyFails(p) \/ CopyEnds(p) \/ VerifyGGUF(p)
               \/ RenameFails(p) \/ StatFinal(p)
      PROVE  FilesTyping'
  BY <1>4 DEF RequestFails, CopyFails, CopyEnds, VerifyGGUF, RenameFails, StatFinal
<1>5. ASSUME NEW p \in Pulls, RemoveRejected(p) \/ RenamePartial(p) \/ RemovePartial(p)
      PROVE  FilesTyping'
  BY <1>5 DEF RemoveRejected, RenamePartial, RemovePartial
<1> QED
  BY <1>1, <1>2, <1>3, <1>4, <1>5 DEF StoreNext, PullStep

LEMMA FetchStepTypes ==
  ASSUME FilesTyping, FetchNext
  PROVE  FilesTyping'
<1> USE DEF FilesTyping, FilesTypeOK, StoreTypeOK, CacheTypeOK, Opened, FetchState,
            Fetching, Goes
<1>0. PICK f \in Fetches : FetchStep(f) /\ UNCHANGED storeVars
  BY DEF FetchNext
<1> USE <1>0 DEF storeVars
<1> USE FetchAssumption, StoreAssumption
<1>1. CASE Get(f)
  <2>1. final \in Pulls /\ Len(data[final]) \in 0..Blocks
    BY <1>1, DiskAssumption DEF Get
  <2> QED
    BY <1>1, <2>1 DEF Get
<1>2. CASE CreateTmp(f)
  <2>1. <<>> \in Seq(Block)
    OBVIOUS
  <2> QED
    BY <1>2, <2>1 DEF CreateTmp
<1>3. CASE FetchBlock(f)
  <2> DEFINE k == pos[f] + 1
             file == cfd[f]
             new == WriteAt(cdata[file], k, data[body[f]][k])
  <2>1. /\ file \in Fetches /\ cdata[file] \in Seq(Block)
        /\ body[f] \in Pulls /\ data[body[f]] \in Seq(Block)
    BY <1>3 DEF FetchBlock
  <2>2. k \in 1..Len(data[body[f]]) /\ k \in 0..Blocks /\ k \in Nat \ {0}
    <3>1. /\ pos[f] < Len(data[body[f]]) /\ pos[f] < size[f]
          /\ pos[f] \in 0..Blocks /\ size[f] \in 0..Blocks
      BY <1>3 DEF FetchBlock
    <3>2. Len(data[body[f]]) \in Nat /\ Blocks \in Nat
      BY <2>1, DiskAssumption
    <3>3. \A i, b \in 0..Blocks : \A n \in Nat : i < n /\ i < b =>
            i + 1 \in 1..n /\ i + 1 \in 0..Blocks /\ i + 1 \in Nat \ {0}
      BY <3>2
    <3> QED
      BY <3>1, <3>2, <3>3
  <2>3. data[body[f]][k] \in Block
    <3> HIDE DEF k
    <3> QED
      BY <2>1, <2>2
  <2>5. new \in Seq(Block)
    <3> HIDE DEF k, file
    <3> QED
      BY <2>1, <2>2, <2>3, WriteAtType
  <2>4. pos' = [pos EXCEPT ![f] = k] /\ cdata' = [cdata EXCEPT ![file] = new]
        /\ UNCHANGED <<target, tmp, fetch, body, size, cfd>>
    BY <1>3 DEF FetchBlock
  <2> HIDE DEF new, file, k
  <2>6. cdata' \in [Fetches -> Seq(Block)]
    BY <2>1, <2>4, <2>5
  <2>7. pos' \in [Fetches -> 0..Blocks]
    BY <2>2, <2>4
  <2> QED
    BY <2>4, <2>6, <2>7
<1>4. CASE CheckCache(f) \/ RemoveLeftover(f)
  BY <1>4 DEF CheckCache, RemoveLeftover
<1>5. CASE GetFails(f) \/ FetchFails(f) \/ FetchEnds(f) \/ WorkerDies(f)
  BY <1>5 DEF GetFails, FetchFails, FetchEnds, WorkerDies
<1>6. CASE VerifyTmp(f) \/ RemoveTmp(f) \/ RenameTmp(f)
  BY <1>6 DEF VerifyTmp, RemoveTmp, RenameTmp
<1> QED
  BY <1>0, <1>1, <1>2, <1>3, <1>4, <1>5, <1>6 DEF FetchStep

LEMMA FilesTypingHolds == FilesSpec => []FilesTyping
<1>1. FilesInit => FilesTyping
  <2>1. <<>> \in Seq(Block) /\ Len(<<>>) = 0 /\ Blocks \in Nat
    BY DiskAssumption
  <2> QED
    BY <2>1 DEF FilesInit, StoreInit, CacheInit, FilesTyping, FilesTypeOK, StoreTypeOK,
           CacheTypeOK, Opened, PullState, Running, FetchState, Fetching
<1>2. FilesTyping /\ [FilesNext]_filesVars => FilesTyping'
  <2>1. FilesTyping /\ UNCHANGED filesVars => FilesTyping'
    BY DEF filesVars, storeVars, cacheVars, FilesTyping, FilesTypeOK, StoreTypeOK,
           CacheTypeOK, Opened
  <2> QED
    BY <2>1, StoreStepTypes, FetchStepTypes DEF FilesNext
<1> QED
  BY <1>1, <1>2, PTL DEF FilesSpec

\* Every variable of the two directories keeps its type, and no file of the
\* catalog grows beyond a model, even when pulls of one name write to one file.
THEOREM FilesTyped == FilesSpec => []FilesTypeOK
<1>1. FilesTyping => FilesTypeOK
  BY DEF FilesTyping
<1> QED
  BY <1>1, FilesTypingHolds, PTL
-----------------------------------------------------------------------------
(* The steps of the store. *)

LEMMA StoreStepKeeps ==
  ASSUME FilesInv, ~Overlap, Pulling
  PROVE  FilesInv'
<1> USE DEF FilesInv, FilesTypeOK, StoreTypeOK, CacheTypeOK, Alone, Unborn, Apart,
            Progress, Served, Fresh, PullState, Running
<1>0. UNCHANGED cacheVars /\ StoreNext
  BY DEF Pulling
<1> USE <1>0 DEF cacheVars
<1> USE StoreAssumption
<1>1. CASE StoreCrash
  BY <1>1 DEF StoreCrash
<1>2. ASSUME NEW p \in Pulls, RequestFails(p) PROVE FilesInv'
  BY <1>2 DEF RequestFails, CanStart
<1>4. ASSUME NEW p \in Pulls, CopyFails(p) PROVE FilesInv'
  BY <1>4 DEF CopyFails
<1>5. ASSUME NEW p \in Pulls, CopyEnds(p) PROVE FilesInv'
  BY <1>5 DEF CopyEnds
<1>7. ASSUME NEW p \in Pulls, RemoveRejected(p) PROVE FilesInv'
  BY <1>7 DEF RemoveRejected
<1>9. ASSUME NEW p \in Pulls, RenameFails(p) PROVE FilesInv'
  BY <1>9 DEF RenameFails
<1>10. ASSUME NEW p \in Pulls, StatFinal(p) PROVE FilesInv'
  BY <1>10 DEF StatFinal
<1>11. ASSUME NEW p \in Pulls, RemovePartial(p) PROVE FilesInv'
  BY <1>11 DEF RemovePartial
<1>3. ASSUME NEW p \in Pulls, CreatePartial(p) PROVE FilesInv'
  <2>1. /\ pull[p] = "idle" /\ \A q \in Pulls : pull[q] \notin Running
        /\ pull' = [pull EXCEPT ![p] = "copying"]
        /\ partial' = (IF partial = None THEN p ELSE partial)
        /\ fd' = [fd EXCEPT ![p] = partial']
        /\ data' = [data EXCEPT ![partial'] = <<>>]
        /\ final' = final /\ src' = src /\ off' = off
    BY <1>3 DEF CreatePartial, CanStart
  <2>2. partial' \in Pulls /\ partial' # final
    BY <2>1
  <2>3. \A f \in Fetches : body[f] # None /\ body[f] # partial => body[f] # partial'
    BY <2>1
  <2>4. <<>> \in Seq(Block) /\ Len(<<>>) = 0 /\ Blocks \in Nat
    BY DiskAssumption
  <2>5. data'[partial'] = <<>>
    BY <2>1, <2>2
  <2>6. UpTo(Model(src[p]), 0) = <<>>
    BY DEF UpTo
  <2>7. FilesTypeOK'
    BY <2>1, <2>2, <2>4
  <2>8. Alone' /\ Unborn' /\ Apart' /\ Fresh'
    BY <2>1, <2>2, <2>3
  <2>9. \A file \in Pulls : file # partial' => data'[file] = data[file]
    BY <2>1, <2>2
  <2>10. Served'
    BY <2>1, <2>3, <2>9
  <2>11. /\ final' # None => Whole(data'[final'])
         /\ target' # None => Whole(cdata'[target'])
    BY <2>1, <2>2, <2>9
  <2>12. \A q \in Pulls : pull'[q] \in {"copying", "copied", "verified"} => q = p
    BY <2>1
  <2>13. ASSUME NEW f \in Fetches, fetch[f] \in {"copying", "copied", "verified"}
         PROVE  data'[body[f]] = data[body[f]]
    BY <2>3, <2>9, <2>13
  <2>14. Progress'
    BY <2>1, <2>2, <2>5, <2>6, <2>12, <2>13
  <2>15. QED
    BY <2>7, <2>8, <2>10, <2>11, <2>14
<1>6. ASSUME NEW p \in Pulls, CopyBlock(p) PROVE FilesInv'
  <2>1. /\ pull[p] = "copying" /\ off[p] < Blocks
        /\ off' = [off EXCEPT ![p] = off[p] + 1]
        /\ data' = [data EXCEPT ![fd[p]] =
             WriteAt(data[fd[p]], off[p] + 1, Model(src[p])[off[p] + 1])]
        /\ final' = final /\ partial' = partial /\ pull' = pull /\ src' = src /\ fd' = fd
    BY <1>6 DEF CopyBlock
  <2>2. fd[p] = partial /\ partial \in Pulls /\ partial # final
    BY <2>1
  <2>3. off[p] \in Nat /\ Blocks \in Nat /\ off[p] + 1 \in 0..Blocks
    BY <2>1, DiskAssumption
  <2>4. Model(src[p]) \in Seq(Block) /\ Len(Model(src[p])) = Blocks
    BY ModelType
  <2>5. data'[partial] = UpTo(Model(src[p]), off[p] + 1)
    BY <2>1, <2>2, <2>3, <2>4, UpToGrows
  <2>6. data'[partial] \in Seq(Block) /\ Len(data'[partial]) <= Blocks
    BY <2>3, <2>4, <2>5, UpToType
  <2>7. \A file \in Pulls : file # partial => data'[file] = data[file]
    BY <2>1, <2>2
  <2>8. FilesTypeOK'
    BY <2>1, <2>2, <2>3, <2>6
  <2>9. Alone' /\ Unborn' /\ Apart' /\ Fresh'
    BY <2>1, <2>2
  <2>10. Served'
    BY <2>1, <2>7
  <2>11. /\ final' # None => Whole(data'[final'])
         /\ target' # None => Whole(cdata'[target'])
    BY <2>1, <2>2, <2>7
  <2>12. \A q \in Pulls : pull[q] \in {"copying", "copied", "verified"} => q = p
    BY <2>1
  <2>13. \A f \in Fetches : fetch[f] \in {"copying", "copied", "verified"} =>
            data'[body[f]] = data[body[f]]
    BY <2>7
  <2>14. Progress'
    BY <2>1, <2>2, <2>5, <2>12, <2>13
  <2>15. QED
    BY <2>8, <2>9, <2>10, <2>11, <2>14
<1>8. ASSUME NEW p \in Pulls, VerifyGGUF(p) PROVE FilesInv'
  <2>1. Model(src[p]) \in Seq(Block) /\ Len(Model(src[p])) = Blocks
    BY ModelType
  <2>2. pull[p] = "copied" /\ data[partial] = Model(src[p])
    BY <1>8, <2>1, UpToAll DEF VerifyGGUF
  <2>3. HasMagic(data[partial]) => src[p] \in Gguf
    BY <2>2, MagicTells
  <2>4. QED
    BY <1>8, <2>2, <2>3 DEF VerifyGGUF
<1>12. ASSUME NEW p \in Pulls, RenamePartial(p) PROVE FilesInv'
  <2>1. Model(src[p]) \in Seq(Block) /\ Len(Model(src[p])) = Blocks
    BY ModelType
  <2>2. pull[p] = "verified" /\ src[p] \in Gguf /\ data[partial] = Model(src[p])
    BY <1>12, <2>1, UpToAll DEF RenamePartial
  <2>3. Whole(data[partial])
    BY <2>2 DEF Whole
  <2>4. QED
    BY <1>12, <2>2, <2>3 DEF RenamePartial
<1>13. QED
  BY <1>0, <1>1, <1>2, <1>3, <1>4, <1>5, <1>6, <1>7, <1>8, <1>9, <1>10, <1>11, <1>12
     DEF StoreNext, PullStep
-----------------------------------------------------------------------------
(* The steps of a fetch. *)

LEMMA FetchStepKeeps ==
  ASSUME FilesInv, FetchNext
  PROVE  FilesInv'
<1> USE DEF FilesInv, FilesTypeOK, StoreTypeOK, CacheTypeOK, Alone, Unborn, Apart,
            Progress, Served, Fresh, FetchState, Fetching
<1>0. UNCHANGED storeVars /\ \E f \in Fetches : FetchStep(f)
  BY DEF FetchNext
<1> USE <1>0 DEF storeVars
<1> USE FetchAssumption DEF Goes
<1>1. ASSUME NEW f \in Fetches, CheckCache(f) PROVE FilesInv'
  BY <1>1 DEF CheckCache
<1>2. ASSUME NEW f \in Fetches, RemoveLeftover(f) PROVE FilesInv'
  <2>1. fetch[f] = "clearing" /\ tmp' = None
        /\ fetch' = [fetch EXCEPT ![f] = "requesting"]
        /\ UNCHANGED <<target, cdata, body, size, cfd, pos>>
    BY <1>2 DEF RemoveLeftover
  <2>2. \A g \in Fetches : fetch'[g] \in Fetching => g = f
    BY <2>1
  <2>3. FilesTypeOK' /\ Alone' /\ Unborn' /\ Served' /\ Fresh'
    BY <2>1, <2>2
  <2>4. Apart' /\ Progress'
    BY <2>1, <2>2
  <2>5. QED
    BY <2>1, <2>3, <2>4
<1>3. ASSUME NEW f \in Fetches, Get(f) PROVE FilesInv'
  <2>1. Whole(data[final]) /\ final \in Pulls
    BY <1>3 DEF Get
  <2>2. PICK v \in Gguf : data[final] = Model(v)
    BY <2>1 DEF Whole
  <2>3. Len(data[final]) = Blocks /\ Blocks \in Nat
    BY <2>2, ModelType, DiskAssumption
  <2>4. /\ fetch[f] = "requesting" /\ final # None
        /\ body' = [body EXCEPT ![f] = final] /\ size' = [size EXCEPT ![f] = Blocks]
        /\ fetch' = [fetch EXCEPT ![f] = "answered"]
        /\ UNCHANGED <<target, tmp, cdata, cfd, pos>>
    BY <1>3, <2>3 DEF Get
  <2>5. FilesTypeOK'
    BY <2>1, <2>3, <2>4
  <2>6. Alone' /\ Unborn' /\ Apart' /\ Fresh'
    BY <2>4
  <2>7. Progress' /\ Served'
    BY <2>1, <2>4
  <2>8. QED
    BY <2>4, <2>5, <2>6, <2>7
<1>4. ASSUME NEW f \in Fetches, GetFails(f) PROVE FilesInv'
  BY <1>4 DEF GetFails
<1>7. ASSUME NEW f \in Fetches, FetchFails(f) PROVE FilesInv'
  BY <1>7 DEF FetchFails
<1>8. ASSUME NEW f \in Fetches, FetchEnds(f) PROVE FilesInv'
  <2>1. fetch[f] = "copying" /\ pos[f] = Blocks
        /\ fetch' = [fetch EXCEPT ![f] = "copied"]
        /\ UNCHANGED <<target, tmp, cdata, body, size, cfd, pos>>
    BY <1>8 DEF FetchEnds
  <2>2. FilesTypeOK' /\ Alone' /\ Unborn' /\ Apart' /\ Fresh'
    BY <2>1
  <2>3. Progress' /\ Served'
    BY <2>1
  <2>4. QED
    BY <2>1, <2>2, <2>3
<1>9. ASSUME NEW f \in Fetches, VerifyTmp(f) PROVE FilesInv'
  BY <1>9 DEF VerifyTmp
<1>10. ASSUME NEW f \in Fetches, RemoveTmp(f) PROVE FilesInv'
  BY <1>10 DEF RemoveTmp
<1>12. ASSUME NEW f \in Fetches, WorkerDies(f) PROVE FilesInv'
  BY <1>12 DEF WorkerDies
<1>5. ASSUME NEW f \in Fetches, CreateTmp(f) PROVE FilesInv'
  <2>1. /\ fetch[f] = "answered"
        /\ fetch' = [fetch EXCEPT ![f] = "copying"]
        /\ tmp' = (IF tmp = None THEN f ELSE tmp)
        /\ cfd' = [cfd EXCEPT ![f] = tmp']
        /\ cdata' = [cdata EXCEPT ![tmp'] = <<>>]
        /\ target' = target /\ body' = body /\ size' = size /\ pos' = pos
    BY <1>5 DEF CreateTmp
  <2>2. tmp' \in Fetches /\ tmp' # target
    BY <2>1
  <2>3. <<>> \in Seq(Block) /\ Len(<<>>) = 0
    OBVIOUS
  <2>4. cdata'[tmp'] = <<>>
    BY <2>1, <2>2
  <2>5. \A file \in Fetches : file # tmp' => cdata'[file] = cdata[file]
    BY <2>1, <2>2
  <2>6. UpTo(data[body[f]], 0) = <<>>
    BY DEF UpTo
  <2>7. \A g \in Fetches : fetch'[g] \in Fetching => g = f
    BY <2>1
  <2>8. FilesTypeOK'
    BY <2>1, <2>2, <2>3
  <2>9. Alone' /\ Unborn' /\ Apart' /\ Served' /\ Fresh'
    BY <2>1, <2>2, <2>7
  <2>10. Progress'
    BY <2>1, <2>2, <2>4, <2>6, <2>7
  <2>11. target' # None => Whole(cdata'[target'])
    BY <2>1, <2>2, <2>5
  <2>12. QED
    BY <2>8, <2>9, <2>10, <2>11
<1>6. ASSUME NEW f \in Fetches, FetchBlock(f) PROVE FilesInv'
  <2>1. /\ fetch[f] = "copying" /\ pos[f] < size[f] /\ pos[f] < Len(data[body[f]])
        /\ pos' = [pos EXCEPT ![f] = pos[f] + 1]
        /\ cdata' = [cdata EXCEPT ![cfd[f]] =
             WriteAt(cdata[cfd[f]], pos[f] + 1, data[body[f]][pos[f] + 1])]
        /\ target' = target /\ tmp' = tmp /\ fetch' = fetch
        /\ body' = body /\ size' = size /\ cfd' = cfd
    BY <1>6 DEF FetchBlock
  <2>2. cfd[f] = tmp /\ tmp \in Fetches /\ tmp # target /\ body[f] \in Pulls
    BY <2>1
  <2>3. /\ pos[f] \in Nat /\ pos[f] + 1 \in 0..Len(data[body[f]])
        /\ Blocks \in Nat /\ pos[f] + 1 \in 0..Blocks
    BY <2>1, <2>2, DiskAssumption
  <2>4. cdata'[tmp] = UpTo(data[body[f]], pos[f] + 1)
    BY <2>1, <2>2, <2>3, UpToGrows
  <2>5. cdata'[tmp] \in Seq(Block) /\ Len(cdata'[tmp]) <= Blocks
    BY <2>2, <2>3, <2>4, UpToType
  <2>6. \A file \in Fetches : file # tmp => cdata'[file] = cdata[file]
    BY <2>1, <2>2
  <2>7. \A g \in Fetches : fetch[g] \in Fetching => g = f
    BY <2>1
  <2>8. FilesTypeOK'
    BY <2>1, <2>2, <2>3, <2>5
  <2>9. Alone' /\ Unborn' /\ Apart' /\ Served' /\ Fresh'
    BY <2>1, <2>2
  <2>10. Progress'
    BY <2>1, <2>2, <2>4, <2>7
  <2>11. target' # None => Whole(cdata'[target'])
    BY <2>1, <2>2, <2>6
  <2>12. QED
    BY <2>8, <2>9, <2>10, <2>11
<1>11. ASSUME NEW f \in Fetches, RenameTmp(f) PROVE FilesInv'
  <2>1. fetch[f] = "verified" /\ tmp # None /\ cdata[tmp] = UpTo(data[body[f]], Blocks)
    BY <1>11 DEF RenameTmp
  <2>2. body[f] \in Pulls /\ Whole(data[body[f]])
    BY <2>1
  <2>3. PICK v \in Gguf : data[body[f]] = Model(v)
    BY <2>2 DEF Whole
  <2>4. cdata[tmp] = Model(v)
    BY <2>1, <2>3, ModelType, UpToAll, DiskAssumption
  <2>5. Whole(cdata[tmp])
    BY <2>4 DEF Whole
  <2>6. UNCHANGED <<cdata, body, size, cfd, pos>>
    BY <1>11 DEF RenameTmp
  <2>7. \A g \in Fetches : fetch[g] \in Fetching => g = f
    BY <2>1
  <2>8. CASE target' = tmp /\ tmp' = None /\ fetch' = [fetch EXCEPT ![f] = "have"]
    <3>1. \A g \in Fetches : fetch'[g] \notin Fetching
      BY <2>7, <2>8
    <3>2. FilesTypeOK' /\ Alone'
      BY <2>1, <2>6, <2>8
    <3>3. Unborn' /\ Apart' /\ Progress' /\ Served' /\ Fresh'
      BY <2>1, <2>6, <2>8, <3>1
    <3>4. QED
      BY <2>5, <2>6, <2>8, <3>2, <3>3
  <2>9. CASE UNCHANGED <<target, tmp>> /\ fetch' = [fetch EXCEPT ![f] = "error"]
    <3>1. FilesTypeOK' /\ Alone' /\ Unborn'
      BY <2>6, <2>9
    <3>2. Apart' /\ Progress' /\ Served' /\ Fresh'
      BY <2>6, <2>9
    <3>3. QED
      BY <2>6, <2>9, <3>1, <3>2
  <2>10. QED
    BY <1>11, <2>8, <2>9 DEF RenameTmp
<1>13. QED
  BY <1>0, <1>1, <1>2, <1>3, <1>4, <1>5, <1>6, <1>7, <1>8, <1>9, <1>10, <1>11, <1>12
     DEF FetchStep
-----------------------------------------------------------------------------
(* The theorems. *)

LEMMA FilesInvHolds ==
  ASSUME ~Overlap
  PROVE  FilesSpec => []FilesInv
<1>1. FilesInit => FilesInv
  <2>1. <<>> \in Seq(Block) /\ Len(<<>>) = 0 /\ Blocks \in Nat
    BY DiskAssumption
  <2>2. QED
    BY <2>1, StoreAssumption, FetchAssumption
       DEF FilesInit, StoreInit, CacheInit, FilesInv, FilesTypeOK, StoreTypeOK,
           CacheTypeOK, Alone, Unborn, Apart, Progress, Served, Fresh, PullState,
           Running, FetchState, Fetching
<1>2. FilesInv /\ [FilesNext]_filesVars => FilesInv'
  <2> SUFFICES ASSUME FilesInv, [FilesNext]_filesVars
               PROVE  FilesInv'
    OBVIOUS
  <2>1. CASE Pulling
    BY <2>1, StoreStepKeeps
  <2>2. CASE FetchNext
    BY <2>2, FetchStepKeeps
  <2>3. CASE UNCHANGED filesVars
    BY <2>3 DEF filesVars, storeVars, cacheVars, FilesInv, FilesTypeOK, StoreTypeOK,
                CacheTypeOK, Alone, Unborn, Apart, Progress, Served, Fresh
  <2>4. QED
    BY <2>1, <2>2, <2>3 DEF FilesNext
<1>3. QED
  BY <1>1, <1>2, PTL DEF FilesSpec

\* What the catalog lists is a whole GGUF model.
THEOREM CatalogStaysWhole ==
  ASSUME ~Overlap
  PROVE  FilesSpec => []CatalogWhole
<1>1. FilesInv => CatalogWhole
  BY DEF FilesInv, CatalogWhole, Listed
<1>2. QED
  BY <1>1, FilesInvHolds, PTL

\* No step writes to a file that the catalog or the cache has published.
LEMMA NothingOverwritten ==
  ASSUME FilesInv, FilesNext
  PROVE  /\ final # None => data'[final] = data[final]
         /\ target # None => cdata'[target] = cdata[target]
<1> USE DEF FilesInv, FilesTypeOK, StoreTypeOK, CacheTypeOK, Unborn, Apart
<1>1. CASE Pulling
  <2>1. cdata' = cdata /\ StoreNext
    BY <1>1 DEF Pulling, cacheVars
  <2>2. ASSUME NEW p \in Pulls, CreatePartial(p)
        PROVE  final # None => data'[final] = data[final]
    BY <2>2 DEF CreatePartial, CanStart
  <2>3. ASSUME NEW p \in Pulls, CopyBlock(p)
        PROVE  final # None => data'[final] = data[final]
    <3>1. fd[p] = partial /\ (final # None => final # partial)
      BY <2>3 DEF CopyBlock
    <3>2. final # None => final # fd[p]
      BY <3>1
    <3>3. QED
      BY <2>3, <3>2 DEF CopyBlock
  <2>4. \/ \E p \in Pulls : CreatePartial(p) \/ CopyBlock(p)
        \/ data' = data
    BY <2>1 DEF StoreNext, StoreCrash, PullStep, RequestFails, CopyFails, CopyEnds,
                VerifyGGUF, RemoveRejected, RenamePartial, RenameFails, StatFinal,
                RemovePartial
  <2>5. QED
    BY <2>1, <2>2, <2>3, <2>4
<1>2. CASE FetchNext
  <2>1. data' = data /\ \E f \in Fetches : FetchStep(f)
    BY <1>2 DEF FetchNext, storeVars
  <2>2. ASSUME NEW f \in Fetches, CreateTmp(f)
        PROVE  target # None => cdata'[target] = cdata[target]
    BY <2>2 DEF CreateTmp
  <2>3. ASSUME NEW f \in Fetches, FetchBlock(f)
        PROVE  target # None => cdata'[target] = cdata[target]
    <3>1. cfd[f] = tmp /\ (target # None => target # tmp)
      BY <2>3 DEF FetchBlock
    <3>2. target # None => target # cfd[f]
      BY <3>1
    <3>3. QED
      BY <2>3, <3>2 DEF FetchBlock
  <2>4. \/ \E f \in Fetches : CreateTmp(f) \/ FetchBlock(f)
        \/ cdata' = cdata
    BY <2>1 DEF FetchStep, CheckCache, RemoveLeftover, Get, GetFails, FetchFails,
                FetchEnds, VerifyTmp, RemoveTmp, RenameTmp, WorkerDies
  <2>5. QED
    BY <2>1, <2>2, <2>3, <2>4
<1>3. QED
  BY <1>1, <1>2 DEF FilesNext

\* A published file is never written again.
THEOREM PublishedStaysFrozen ==
  ASSUME ~Overlap
  PROVE  FilesSpec => PublishedIsFrozen
<1> DEFINE Frozen == /\ final # None => data'[final] = data[final]
                     /\ target # None => cdata'[target] = cdata[target]
<1>1. FilesInv /\ [FilesNext]_filesVars => [Frozen]_filesVars
  BY NothingOverwritten
<1>2. QED
  BY <1>1, FilesInvHolds, PTL DEF FilesSpec, PublishedIsFrozen

\* No interrupted download poisons a cache.
THEOREM CacheStaysWhole ==
  ASSUME ~Overlap
  PROVE  FilesSpec => []CacheWhole
<1>1. FilesInv => CacheWhole
  BY DEF FilesInv, CacheWhole
<1>2. QED
  BY <1>1, FilesInvHolds, PTL

\* A download reads the whole of one version, even one that is replaced.
THEOREM BodyStaysOneVersion ==
  ASSUME ~Overlap
  PROVE  FilesSpec => []BodyIsOneVersion
<1>1. FilesInv => BodyIsOneVersion
  BY DEF FilesInv, BodyIsOneVersion, Served, Progress, Apart
<1>2. QED
  BY <1>1, FilesInvHolds, PTL

\* What a failed download leaves has a reason, though pulls may overlap: the last
\* of them removes the partial file, publishes it or leaves it beside a model.
THEOREM LeftoverStaysExplained == FilesSpec => []LeftoverExplained
<1>1. FilesInit => LeftoverExplained
  BY DEF FilesInit, StoreInit, LeftoverExplained
<1>2. FilesTyping /\ LeftoverExplained /\ [FilesNext]_filesVars => LeftoverExplained'
  <2> SUFFICES ASSUME FilesTyping, LeftoverExplained, [FilesNext]_filesVars
               PROVE  LeftoverExplained'
    OBVIOUS
  <2>0. pull \in [Pulls -> PullState]
    BY DEF FilesTyping, FilesTypeOK, StoreTypeOK
  <2>1. CASE Pulling
    <3>1. StoreNext
      BY <2>1 DEF Pulling
    <3>2. CASE StoreCrash
      BY <2>0, <3>2 DEF StoreCrash, LeftoverExplained, Running, PullState
    <3>3. ASSUME NEW p \in Pulls,
                 RequestFails(p) \/ CreatePartial(p) \/ CopyBlock(p) \/ CopyFails(p)
                   \/ CopyEnds(p) \/ VerifyGGUF(p) \/ RenameFails(p)
          PROVE  LeftoverExplained'
      BY <2>0, <3>3 DEF RequestFails, CreatePartial, CanStart, CopyBlock, CopyFails, CopyEnds,
         VerifyGGUF, RenameFails, LeftoverExplained, Running, PullState
    <3>4. ASSUME NEW p \in Pulls,
                 RemoveRejected(p) \/ RenamePartial(p) \/ StatFinal(p) \/ RemovePartial(p)
          PROVE  LeftoverExplained'
      BY <2>0, <3>4 DEF RemoveRejected, RenamePartial, StatFinal, RemovePartial,
         LeftoverExplained, Running, PullState
    <3>5. QED
      BY <3>1, <3>2, <3>3, <3>4 DEF StoreNext, PullStep
  <2>2. CASE UNCHANGED storeVars
    BY <2>2 DEF storeVars, LeftoverExplained
  <2>3. QED
    BY <2>1, <2>2 DEF FilesNext, FetchNext, filesVars
<1>3. QED
  BY <1>1, <1>2, FilesTypingHolds, PTL DEF FilesSpec
-----------------------------------------------------------------------------
(* PullCommand *)

\* A catalog whose pulls are asked for by commands is a catalog.
THEOREM PullRefinesFiles == PullSpec => FilesSpec
<1>1. PullInit => FilesInit
  BY DEF PullInit
<1>2. [PullNext]_pullVars => [FilesNext]_filesVars
  <2> USE DEF filesVars, FilesNext
  <2>1. ASSUME NEW p \in Pulls, PullMoves(p) PROVE Pulling
    BY <2>1 DEF PullMoves, Pulling, StoreNext
  <2>2. CASE OrchestratorDies
    BY <2>2 DEF OrchestratorDies, Pulling, StoreNext
  <2>3. QED
    BY <2>1, <2>2
       DEF PullNext, pullVars, Ask, AskFails, Emit, ReadEvent, Exit, Interrupted,
           ConnectionBreaks
<1>3. QED
  BY <1>1, <1>2, PTL DEF PullSpec, FilesSpec

Holds(s, e) == \E i \in 1..Len(s) : s[i] = e

LEMMA AppendHolds ==
  ASSUME NEW s \in Seq(Event), NEW e \in Event, NEW x
  PROVE  /\ Append(s, e) \in Seq(Event)
         /\ Len(Append(s, e)) = Len(s) + 1
         /\ Holds(Append(s, e), x) <=> Holds(s, x) \/ x = e
<1>1. /\ Append(s, e) \in Seq(Event)
      /\ Len(Append(s, e)) = Len(s) + 1
      /\ \A i \in 1..Len(s) : Append(s, e)[i] = s[i]
      /\ Append(s, e)[Len(s) + 1] = e
  OBVIOUS
<1>2. Len(s) \in Nat
  OBVIOUS
<1> DEFINE n == Len(s)
           t == Append(s, e)
<1>3. Len(t) = n + 1 /\ n \in Nat /\ t[n + 1] = e /\ \A i \in 1..n : t[i] = s[i]
  BY <1>1, <1>2
<1>4. Holds(s, x) <=> \E i \in 1..n : s[i] = x
  BY DEF Holds
<1> HIDE DEF n, t
<1>5. Holds(t, x) <=> \E i \in 1..(n + 1) : t[i] = x
  BY <1>3 DEF Holds
<1>6. \A i : i \in 1..(n + 1) <=> i \in 1..n \/ i = n + 1
  BY <1>3
<1>7. Holds(t, x) <=> Holds(s, x) \/ x = e
  BY <1>3, <1>4, <1>5, <1>6
<1>8. QED
  BY <1>1, <1>7 DEF t

LEMMA TailHolds ==
  ASSUME NEW s \in Seq(Event), s # <<>>, NEW x
  PROVE  /\ Tail(s) \in Seq(Event)
         /\ Len(Tail(s)) <= Len(s)
         /\ Head(s) \in Event
         /\ Holds(s, x) <=> Holds(Tail(s), x) \/ Head(s) = x
<1>1. \A i \in 1..Len(s) : i = 1 \/ i - 1 \in 1..Len(Tail(s))
  OBVIOUS
<1>2. \A i \in 1..Len(Tail(s)) : i + 1 \in 1..Len(s) /\ Tail(s)[i] = s[i + 1]
  OBVIOUS
<1>3. Holds(Tail(s), x) => Holds(s, x)
  BY <1>2 DEF Holds
<1>4. Head(s) = s[1] /\ 1 \in 1..Len(s)
  OBVIOUS
<1>5. Holds(s, x) => Holds(Tail(s), x) \/ Head(s) = x
  <2> SUFFICES ASSUME NEW i \in 1..Len(s), s[i] = x, i # 1
               PROVE  Holds(Tail(s), x)
    BY <1>4 DEF Holds
  <2>1. i - 1 \in 1..Len(Tail(s)) /\ Tail(s)[i - 1] = s[i]
    OBVIOUS
  <2>2. QED
    BY <2>1 DEF Holds
<1>6. QED
  BY <1>3, <1>4, <1>5 DEF Holds

\* A done event is written once the model is published, and is not lost on a
\* connection that holds.
Reported ==
  \A p \in Pulls :
     /\ cmd[p] \in {"told", "exit0"} \/ due[p] = "done" \/ Holds(events[p], "done")
          => pull[p] = "done"
     /\ pull[p] = "done" => final # None
     /\ cmd[p] = "reads" /\ p \notin lost /\ pull[p] = "done" =>
          due[p] = "done" \/ Holds(events[p], "done")
     /\ cmd[p] = "exit1" /\ p \notin lost => pull[p] = "error"

\* Where the handler of a pull stands.
HandlerOf ==
  \A p \in Pulls :
     /\ cmd[p] = "none" => pull[p] = "idle"
     /\ Waits(p) => p \in Watched
     /\ due[p] = "dead" => pull[p] \notin Running
     /\ pull[p] = "dead" => due[p] = "dead"
     /\ due[p] = "dead" /\ Waits(p) => p \in lost

CommandInv == CommandTypeOK /\ Reported /\ HandlerOf

LEMMA CommandInvStep ==
  ASSUME FilesTyping, CommandInv, [PullNext]_pullVars
  PROVE  CommandInv'
<1>0. pull \in [Pulls -> PullState] /\ <<>> \in Seq(Event) /\ Len(<<>>) = 0 /\ EventCap \in Nat
  BY EventAssumption DEF FilesTyping, FilesTypeOK, StoreTypeOK
<1>00. \A e : ~Holds(<<>>, e)
  BY DEF Holds
<1> USE <1>0, <1>00
    DEF CommandInv, CommandTypeOK, Reported, HandlerOf, Waits, Connected, CommandState, Event
<1>1. ASSUME NEW p \in Pulls, Ask(p) \/ AskFails(p) PROVE CommandInv'
  <2>1. CASE Ask(p)
    <3>1. /\ cmd[p] = "none" /\ pull[p] = "idle" /\ UNCHANGED <<pull, final, events, lost>>
          /\ \/ p \in Watched /\ cmd' = [cmd EXCEPT ![p] = "reads"]
                            /\ due' = [due EXCEPT ![p] = "note"]
             \/ cmd' = [cmd EXCEPT ![p] = "other"] /\ due' = due
      BY <2>1 DEF Ask, filesVars, storeVars
    <3>2. CommandTypeOK'
      BY <3>1
    <3>3. Reported'
      BY <3>1
    <3>4. HandlerOf'
      BY <3>1
    <3>5. QED
      BY <3>2, <3>3, <3>4
  <2>2. CASE AskFails(p)
    <3>1. /\ cmd[p] = "none" /\ pull[p] = "idle" /\ UNCHANGED <<pull, final, events>>
          /\ cmd' = [cmd EXCEPT ![p] = "exit1"] /\ due' = [due EXCEPT ![p] = "dead"]
          /\ lost' = lost \union {p}
      BY <2>2 DEF AskFails, filesVars, storeVars
    <3>2. CommandTypeOK'
      BY <3>1
    <3>3. Reported'
      BY <3>1
    <3>4. HandlerOf'
      BY <3>1 DEF Running
    <3>5. QED
      BY <3>2, <3>3, <3>4
  <2>3. QED
    BY <1>1, <2>1, <2>2
<1>2. ASSUME NEW p \in Pulls, Emit(p) PROVE CommandInv'
  <2>1. /\ due[p] \in Event /\ due' = [due EXCEPT ![p] = "no"]
        /\ UNCHANGED <<pull, final, cmd, lost>>
    BY <1>2 DEF Emit, filesVars, storeVars
  <2>2. CASE ~Connected(p) /\ events' = events
    BY <2>1, <2>2
  <2>3. CASE /\ Connected(p) /\ Len(events[p]) < EventCap
             /\ events' = [events EXCEPT ![p] = Append(@, due[p])]
    <3>1. \A x : /\ Append(events[p], due[p]) \in Seq(Event)
                 /\ Len(Append(events[p], due[p])) = Len(events[p]) + 1
                 /\ Holds(Append(events[p], due[p]), x) <=> Holds(events[p], x) \/ x = due[p]
      BY <2>1, AppendHolds
    <3> DEFINE new == Append(events[p], due[p])
    <3>2. events' = [events EXCEPT ![p] = new]
      BY <2>3
    <3>3. Len(events[p]) \in Nat
      OBVIOUS
    <3>4. new \in Seq(Event) /\ Len(new) <= EventCap
          /\ \A x : Holds(new, x) <=> Holds(events[p], x) \/ x = due[p]
      BY <2>3, <3>1, <3>3
    <3> HIDE DEF new
    <3>5. CommandTypeOK' /\ HandlerOf'
      BY <2>1, <3>2, <3>4
    <3>6. Reported'
      BY <2>1, <3>2, <3>4
    <3>7. QED
      BY <3>5, <3>6
  <2>4. QED
    BY <1>2, <2>2, <2>3 DEF Emit
<1>3. ASSUME NEW p \in Pulls, PullMoves(p) PROVE CommandInv'
  <2>1. /\ cmd[p] # "none" /\ due[p] = "no" /\ UNCHANGED <<cmd, events, lost>>
        /\ due' \in {[due EXCEPT ![p] = e] : e \in Event \union {"no"}}
        /\ p \notin Watched => due' = [due EXCEPT ![p] = "no"]
        /\ p \in Watched /\ pull'[p] \in {"done", "error"} =>
             due' = [due EXCEPT ![p] = pull'[p]]
        /\ pull'[p] # "done" => due'[p] # "done"
    <3>1. PICK e \in IF p \notin Watched THEN {"no"}
                   ELSE IF pull'[p] \in {"done", "error"} THEN {pull'[p]}
                   ELSE IF pull'[p] = "copied" /\ pull[p] = "copying" THEN {"note"}
                   ELSE IF off'[p] # off[p] THEN {"note", "no"}
                   ELSE {"no"} : due' = [due EXCEPT ![p] = e]
      BY <1>3 DEF PullMoves
    <3>2. e \in Event \union {"no"} /\ (p \notin Watched => e = "no")
          /\ (p \in Watched /\ pull'[p] \in {"done", "error"} => e = pull'[p])
          /\ (pull'[p] # "done" => e # "done")
      BY <3>1
    <3>3. QED
      BY <1>3, <3>1, <3>2 DEF PullMoves
  <2>2. /\ pull[p] \notin {"done", "error", "dead"}
        /\ \E t \in PullState \ {"dead"} : pull' = [pull EXCEPT ![p] = t]
        /\ pull'[p] = "done" \/ final # None => final' # None
    <3> USE DEF PullState, Running
    <3>1. PullStep(p)
      BY <1>3 DEF PullMoves
    <3>2. CASE RequestFails(p) \/ CreatePartial(p)
      <4>1. \E t \in {"error", "copying"} : pull' = [pull EXCEPT ![p] = t]
        BY <3>2 DEF RequestFails, CreatePartial
      <4>2. pull[p] = "idle" /\ final' = final
        BY <3>2 DEF RequestFails, CreatePartial, CanStart
      <4>3. QED
        BY <4>1, <4>2
    <3>3. CASE CopyBlock(p)
      <4>1. pull' = pull /\ final' = final /\ pull[p] = "copying"
        BY <3>3 DEF CopyBlock
      <4>2. pull' = [pull EXCEPT ![p] = "copying"]
        BY <4>1
      <4>3. QED
        BY <4>1, <4>2
    <3>4. CASE CopyFails(p) \/ CopyEnds(p) \/ VerifyGGUF(p) \/ RemoveRejected(p)
      <4>1. \E t \in {"failing", "copied", "verified", "rejected"} :
              pull' = [pull EXCEPT ![p] = t]
        BY <3>4 DEF CopyFails, CopyEnds, VerifyGGUF, RemoveRejected
      <4>2. pull[p] \in {"copying", "copied", "rejected"} /\ final' = final
        BY <3>4 DEF CopyFails, CopyEnds, VerifyGGUF, RemoveRejected
      <4>3. QED
        BY <4>1, <4>2
    <3>5. CASE RenamePartial(p) \/ RenameFails(p) \/ StatFinal(p) \/ RemovePartial(p)
      <4>1. \E t \in {"done", "failing", "removing", "error"} : pull' = [pull EXCEPT ![p] = t]
        BY <3>5 DEF RenamePartial, RenameFails, StatFinal, RemovePartial
      <4>2. /\ pull[p] \in {"verified", "failing", "removing"}
            /\ final' = final \/ final' # None
            /\ pull'[p] = "done" => final' # None
        BY <3>5 DEF RenamePartial, RenameFails, StatFinal, RemovePartial
      <4>3. QED
        BY <4>1, <4>2
    <3>6. QED
      BY <3>1, <3>2, <3>3, <3>4, <3>5 DEF PullStep
  <2>3. CommandTypeOK'
    BY <2>1
  <2>4. Reported'
    BY <2>1, <2>2
  <2>5. HandlerOf'
    BY <2>1, <2>2
  <2>6. QED
    BY <2>3, <2>4, <2>5
<1>4. CASE OrchestratorDies
  <2>1. /\ final' = final /\ UNCHANGED <<cmd, events>>
        /\ due' = [q \in Pulls |-> IF Handled(q) THEN "dead" ELSE due[q]]
        /\ lost' = lost \union {q \in Pulls : Waits(q) /\ Handled(q)}
        /\ pull' = [q \in Pulls |-> IF pull[q] \in Running THEN "dead" ELSE pull[q]]
    BY <1>4 DEF OrchestratorDies, StoreCrash, storeVars
  <2>2. \A q \in Pulls : pull[q] \in Running => Handled(q)
    BY DEF Handled, Running, Settled
  <2>3. \A q \in Pulls : pull'[q] = pull[q] \/ (Handled(q) /\ pull[q] \in Running /\ pull'[q] = "dead")
    BY <2>1, <2>2
  <2>4. CommandTypeOK'
    BY <2>1
  <2>5. Reported'
    BY <2>1, <2>3 DEF Running
  <2>6. HandlerOf'
    BY <2>1, <2>3 DEF Running, Handled
  <2>7. QED
    BY <2>4, <2>5, <2>6
<1>5. ASSUME NEW p \in Pulls, ReadEvent(p) PROVE CommandInv'
  <2>1. /\ Waits(p) /\ events[p] # <<>> /\ UNCHANGED <<pull, final, due, lost>>
        /\ events' = [events EXCEPT ![p] = Tail(events[p])]
        /\ cmd' = [cmd EXCEPT ![p] = IF Head(events[p]) = "done" THEN "told" ELSE cmd[p]]
    BY <1>5 DEF ReadEvent, filesVars, storeVars
  <2> DEFINE rest == Tail(events[p])
             first == Head(events[p])
  <2>2. /\ rest \in Seq(Event) /\ Len(rest) <= Len(events[p])
        /\ \A x : Holds(events[p], x) <=> Holds(rest, x) \/ first = x
    BY <2>1, TailHolds
  <2>3. Len(rest) <= EventCap
    <3>1. Len(rest) \in Nat /\ Len(events[p]) \in Nat
      BY <2>2
    <3>2. QED
      BY <2>2, <3>1
  <2>4. /\ events' = [events EXCEPT ![p] = rest]
        /\ cmd' = [cmd EXCEPT ![p] = IF first = "done" THEN "told" ELSE cmd[p]]
    BY <2>1
  <2> HIDE DEF rest, first
  <2>5. CommandTypeOK'
    BY <2>1, <2>2, <2>3, <2>4
  <2>6. Reported'
    <3> SUFFICES ASSUME NEW q \in Pulls
                 PROVE  /\ \/ cmd'[q] \in {"told", "exit0"}
                           \/ due'[q] = "done"
                           \/ Holds(events'[q], "done")
                           => pull'[q] = "done"
                        /\ pull'[q] = "done" => final' # None
                        /\ cmd'[q] = "reads" /\ q \notin lost' /\ pull'[q] = "done" =>
                             due'[q] = "done" \/ Holds(events'[q], "done")
                        /\ cmd'[q] = "exit1" /\ q \notin lost' => pull'[q] = "error"
      BY DEF Reported
    <3>1. CASE q # p
      BY <2>1, <2>4, <3>1
    <3>2. CASE q = p
      BY <2>1, <2>2, <2>4, <3>2
    <3> QED
      BY <3>1, <3>2
  <2>7. HandlerOf'
    BY <2>1, <2>4
  <2>8. QED
    BY <2>5, <2>6, <2>7
<1>6. ASSUME NEW p \in Pulls, Exit(p) PROVE CommandInv'
  <2>1. /\ Waits(p) /\ UNCHANGED <<pull, final, due, lost>>
        /\ events' = [events EXCEPT ![p] = <<>>]
        /\ cmd' = [cmd EXCEPT ![p] = IF cmd[p] = "told" THEN "exit0" ELSE "exit1"]
        /\ p \in lost \/ (~Handled(p) /\ events[p] = <<>>)
    BY <1>6 DEF Exit, filesVars, storeVars
  <2>2. p \notin lost /\ cmd[p] = "reads" => pull[p] = "error"
    <3>1. p \notin lost => due[p] = "no" /\ pull[p] \in {"done", "error"}
      BY <2>1 DEF Handled, Settled
    <3>2. QED
      BY <2>1, <3>1
  <2>3. CommandTypeOK' /\ HandlerOf'
    BY <2>1
  <2>4. Reported'
    BY <2>1, <2>2
  <2>5. QED
    BY <2>3, <2>4
<1>7. ASSUME NEW p \in Pulls, Interrupted(p) PROVE CommandInv'
  BY <1>7 DEF Interrupted, filesVars, storeVars
<1>8. ASSUME NEW p \in Pulls, ConnectionBreaks(p) PROVE CommandInv'
  BY <1>8 DEF ConnectionBreaks, filesVars, storeVars
<1>9. CASE UNCHANGED <<storeVars, commandVars>>
  BY <1>9 DEF storeVars, commandVars
<1>10. QED
  BY <1>1, <1>2, <1>3, <1>4, <1>5, <1>6, <1>7, <1>8, <1>9
     DEF PullNext, pullVars, filesVars, FetchNext

LEMMA CommandInvHolds == PullSpec => [](FilesTyping /\ CommandInv)
<1>1. PullInit => CommandInv
  <2>1. <<>> \in Seq(Event) /\ Len(<<>>) = 0 /\ EventCap \in Nat /\ \A e : ~Holds(<<>>, e)
    BY EventAssumption DEF Holds
  <2>2. QED
    BY <2>1 DEF PullInit, CommandInit, FilesInit, StoreInit, CommandInv, CommandTypeOK, Reported,
       HandlerOf, Waits, CommandState, Running
<1>2. FilesTyping /\ CommandInv /\ [PullNext]_pullVars => CommandInv'
  BY CommandInvStep
<1>3. QED
  BY <1>1, <1>2, PullRefinesFiles, FilesTypingHolds, PTL DEF PullSpec

\* Every variable keeps its type, and no connection holds more than it can.
THEOREM PullTyped == PullSpec => []PullTypeOK
<1>1. FilesTyping /\ CommandInv => PullTypeOK
  BY DEF FilesTyping, CommandInv, PullTypeOK
<1>2. QED
  BY <1>1, CommandInvHolds, PTL

\* A command succeeds only if its pull did, and fails, on a connection that
\* held, only if its pull did, whatever other pulls of the model run meanwhile.
THEOREM ExitCodeIsTrue == PullSpec => []ExitTellsOutcome
<1>1. CommandInv => ExitTellsOutcome
  BY DEF CommandInv, Reported, ExitTellsOutcome
<1>2. QED
  BY <1>1, CommandInvHolds, PTL

\* A running pull has its handler, and without overlap there is one handler.
HandlersAlone ==
  /\ \A p \in Pulls : pull[p] \in Running => Handled(p)
  /\ ~Overlap => \A p, q \in Pulls : Handled(p) /\ Handled(q) => p = q

LEMMA HandlersAloneStep ==
  ASSUME FilesTyping, CommandInv, HandlersAlone, [PullNext]_pullVars
  PROVE  HandlersAlone'
<1>0. /\ pull \in [Pulls -> PullState] /\ due \in [Pulls -> Event \union {"no", "dead"}]
      /\ cmd \in [Pulls -> CommandState]
      /\ \A p \in Pulls : cmd[p] = "none" => pull[p] = "idle"
  BY DEF FilesTyping, FilesTypeOK, StoreTypeOK, CommandInv, CommandTypeOK, HandlerOf
<1>1. ASSUME \A p \in Pulls : Handled(p)' => Handled(p),
             \A p \in Pulls : pull'[p] \in Running => Handled(p)'
      PROVE  HandlersAlone'
  BY <1>1 DEF HandlersAlone
<1>2. ASSUME NEW p \in Pulls, Ask(p) PROVE HandlersAlone'
  <2>1. /\ pull' = pull /\ pull[p] = "idle" /\ ~Handled(p)
        /\ \A q \in Pulls : q # p => (Handled(q)' <=> Handled(q))
        /\ Overlap \/ \A q \in Pulls : ~Handled(q)
    BY <1>0, <1>2 DEF Ask, Handled, filesVars, storeVars
  <2> QED
    BY <2>1 DEF HandlersAlone, Running
<1>3. ASSUME NEW p \in Pulls, AskFails(p) PROVE HandlersAlone'
  <2>1. \A q \in Pulls : (Handled(q)' => Handled(q)) /\ (q # p => (Handled(q)' <=> Handled(q)))
    BY <1>0, <1>3 DEF AskFails, Handled, Event, filesVars, storeVars
  <2>2. pull' = pull /\ pull[p] \notin Running
    BY <1>0, <1>3 DEF AskFails, Running, filesVars, storeVars
  <2> QED
    BY <1>1, <2>1, <2>2 DEF HandlersAlone
<1>4. ASSUME NEW p \in Pulls, Emit(p) PROVE HandlersAlone'
  <2>1. \A q \in Pulls : Handled(q)' => Handled(q)
    BY <1>0, <1>4 DEF Emit, Handled, Event, filesVars, storeVars
  <2>2. \A q \in Pulls : pull'[q] \in Running => Handled(q)'
    BY <1>0, <1>4 DEF Emit, Handled, HandlersAlone, Event, Running, Settled, filesVars, storeVars
  <2> QED
    BY <1>1, <2>1, <2>2
<1>5. ASSUME NEW p \in Pulls, PullMoves(p) PROVE HandlersAlone'
  <2>1. /\ cmd' = cmd /\ cmd[p] # "none" /\ due[p] = "no" /\ pull[p] \notin Settled
        /\ \A q \in Pulls : q # p => pull'[q] = pull[q] /\ due'[q] = due[q]
    BY <1>0, <1>5 DEF PullMoves, PullStep, RequestFails, CreatePartial, CanStart, CopyBlock,
       CopyFails, CopyEnds, VerifyGGUF, RemoveRejected, RenamePartial, RenameFails, StatFinal,
       RemovePartial, Settled
  <2>2. due'[p] \in {"no"} \union Event
    BY <1>0, <1>5 DEF PullMoves, Event
  <2>3. Handled(p) /\ \A q \in Pulls : q # p => (Handled(q)' <=> Handled(q))
    BY <2>1 DEF Handled
  <2>4. pull'[p] \in Running => Handled(p)'
    BY <2>1, <2>2 DEF Handled, Running, Settled
  <2> QED
    BY <1>1, <2>1, <2>3, <2>4 DEF HandlersAlone
<1>6. CASE OrchestratorDies
  <2>1. cmd' = cmd /\ \A p \in Pulls : due'[p] = IF Handled(p) THEN "dead" ELSE due[p]
    BY <1>6 DEF OrchestratorDies
  <2>2. \A p \in Pulls : pull'[p] = pull[p] \/ (pull[p] \in Running /\ pull'[p] = "dead")
    BY <1>0, <1>6 DEF OrchestratorDies, StoreCrash, storeVars
  <2>3. \A p \in Pulls : ~Handled(p)'
    BY <2>1, <2>2 DEF Handled, Event, Settled, Running
  <2>4. \A p \in Pulls : pull'[p] \notin Running
    BY <1>0, <1>6 DEF OrchestratorDies, StoreCrash, storeVars, Running
  <2> QED
    BY <1>1, <2>3, <2>4
<1>7. ASSUME NEW p \in Pulls, ReadEvent(p) \/ Exit(p) \/ Interrupted(p) \/ ConnectionBreaks(p)
      PROVE  HandlersAlone'
  <2>1. pull' = pull /\ \A q \in Pulls : Handled(q)' <=> Handled(q)
    BY <1>0, <1>7 DEF ReadEvent, Exit, Interrupted, ConnectionBreaks, Connected, Waits, Handled,
       filesVars, storeVars
  <2> QED
    BY <1>1, <2>1 DEF HandlersAlone
<1>8. CASE UNCHANGED <<storeVars, commandVars>>
  BY <1>8 DEF HandlersAlone, Handled, storeVars, commandVars
<1> QED
  BY <1>2, <1>3, <1>4, <1>5, <1>6, <1>7, <1>8
     DEF PullNext, pullVars, filesVars, FetchNext

\* The guards of the steps GoneNeverBlocks is about: the write that cannot wait, a
\* step of a pull that runs (its copy fails, its magic is read, its rename fails, it
\* is cleaned up), or the request that fails.
GoesOn(p) == \/ due[p] \in Event
             \/ due[p] = "no" /\ (pull[p] \in Running \/ CanStart(p))

\* No handler of a command that has gone waits for it, nor for the source: a step is
\* always open to it.
THEOREM GoneGoesOn ==
  PullSpec => [](\A p \in Watched : Handled(p) /\ ~Connected(p) => GoesOn(p))
<1>1. PullInit => HandlersAlone
  BY DEF PullInit, FilesInit, StoreInit, CommandInit, HandlersAlone, Handled, Running
<1>2. FilesTyping /\ CommandInv /\ HandlersAlone /\ [PullNext]_pullVars => HandlersAlone'
  BY HandlersAloneStep
<1>3. FilesTyping /\ HandlersAlone =>
        \A p \in Watched : Handled(p) /\ ~Connected(p) => GoesOn(p)
  <2> SUFFICES ASSUME FilesTyping, HandlersAlone, NEW p \in Watched, Handled(p)
               PROVE  GoesOn(p)
    OBVIOUS
  <2>1. p \in Pulls /\ pull \in [Pulls -> PullState] /\ Overlap \in BOOLEAN
    BY EventAssumption, StoreAssumption DEF FilesTyping, FilesTypeOK, StoreTypeOK
  <2>2. CASE pull[p] = "idle"
    <3>1. \A q \in Pulls : pull[q] \in Running => q # p /\ Handled(q)
      BY <2>2 DEF HandlersAlone, Running
    <3>2. CanStart(p)
      BY <2>1, <2>2, <3>1 DEF HandlersAlone, CanStart
    <3> QED
      BY <2>2, <3>2 DEF Handled, GoesOn
  <2> QED
    BY <2>1, <2>2 DEF Handled, GoesOn, PullState, Settled
<1> QED
  BY <1>1, <1>2, <1>3, CommandInvHolds, PTL DEF PullSpec
-----------------------------------------------------------------------------
(* PullCommand implements CatalogService. *)

\* Files that have been published: no pull writes to them.
Old(file) == file \in Pulls /\ file # partial /\ pull[file] # "idle"

\* A launch is given one published file, once, and its body is never another.
Given ==
  \A f \in Fetches :
     /\ fetch[f] \in {"idle", "clearing", "requesting"} => body[f] = None
     /\ body[f] # None => Old(body[f]) /\ Whole(data[body[f]])

\* A published file stays one, unchanged, in each step of a pull.
LEMMA OldIsFrozen ==
  ASSUME FilesInv, StoreNext, NEW file, Old(file)
  PROVE  Old(file)' /\ data'[file] = data[file]
<1> USE DEF FilesInv, FilesTypeOK, StoreTypeOK, Apart, Old, PullState, Running
<1>0. CASE StoreCrash
  BY <1>0 DEF StoreCrash
<1> SUFFICES ASSUME NEW p \in Pulls, PullStep(p)
             PROVE  Old(file)' /\ data'[file] = data[file]
  BY <1>0 DEF StoreNext
<1>1. CASE CreatePartial(p)
  BY <1>1 DEF CreatePartial, CanStart
<1>2. CASE CopyBlock(p)
  <2>1. fd[p] = partial /\ pull' = pull /\ partial' = partial
    BY <1>2 DEF CopyBlock
  <2>2. file # fd[p]
    BY <2>1
  <2> QED
    BY <1>2, <2>1, <2>2 DEF CopyBlock
<1>3. CASE RequestFails(p) \/ CopyFails(p) \/ CopyEnds(p) \/ RenameFails(p) \/ StatFinal(p)
  BY <1>3 DEF RequestFails, CopyFails, CopyEnds, RenameFails, StatFinal
<1>4. CASE VerifyGGUF(p)
  BY <1>4 DEF VerifyGGUF
<1>5. CASE RemoveRejected(p) \/ RenamePartial(p) \/ RemovePartial(p)
  <2>1. data' = data /\ partial' = None
    BY <1>5 DEF RemoveRejected, RenamePartial, RemovePartial
  <2>2. file # None
    BY StoreAssumption
  <2>3. pull'[file] # "idle"
    BY <1>5 DEF RemoveRejected, RenamePartial, RemovePartial
  <2> QED
    BY <2>1, <2>2, <2>3
<1> QED
  BY <1>1, <1>2, <1>3, <1>4, <1>5 DEF PullStep

LEMMA GivenStep ==
  ASSUME FilesInv, Given, [FilesNext]_filesVars
  PROVE  Given'
<1>0. body \in [Fetches -> Pulls \union {None}] /\ fetch \in [Fetches -> FetchState]
  BY DEF FilesInv, FilesTypeOK, CacheTypeOK
<1>1. CASE Pulling
  <2>1. UNCHANGED <<fetch, body>> /\ StoreNext
    BY <1>1 DEF Pulling, cacheVars
  <2>2. ASSUME NEW f \in Fetches, body[f] # None
        PROVE  Old(body[f])' /\ Whole(data[body[f]])'
    <3> DEFINE file == body[f]
    <3>1. Old(file) /\ Whole(data[file]) /\ body'[f] = file
      BY <2>1, <2>2 DEF Given
    <3>2. PICK x : x = file
      OBVIOUS
    <3>3. Old(x)' /\ data'[x] = data[x]
      BY <2>1, <3>1, <3>2, OldIsFrozen
    <3> QED
      BY <3>1, <3>2, <3>3 DEF Whole, Old
  <2> QED
    BY <2>1, <2>2 DEF Given
<1>2. CASE FetchNext
  <2>1. UNCHANGED <<final, partial, data, pull>> /\ \E f \in Fetches : FetchStep(f)
    BY <1>2 DEF FetchNext, storeVars
  <2>2. PICK g \in Fetches : FetchStep(g)
    BY <2>1
  <2>3. CASE Get(g)
    <3>1. /\ final # None
          /\ body' = [body EXCEPT ![g] = final]
          /\ fetch' = [fetch EXCEPT ![g] = "answered"]
      BY <2>3 DEF Get, Goes
    <3>2. Old(final) /\ Whole(data[final])
      BY <3>1 DEF FilesInv, FilesTypeOK, StoreTypeOK, Unborn, Apart, Old
    <3> QED
      BY <1>0, <2>1, <3>1, <3>2 DEF Given, Old
  <2>4. CASE ~Get(g)
    <3>1. /\ body' = body
          /\ \E t \in FetchState : fetch' = [fetch EXCEPT ![g] = t]
          /\ fetch'[g] \in {"idle", "clearing", "requesting"} =>
               fetch[g] \in {"idle", "clearing", "requesting"}
      <4> USE <1>0 DEF FetchState, Fetching, Goes
      <4>1. CASE FetchBlock(g)
        BY <4>1 DEF FetchBlock
      <4>2. CASE CheckCache(g) \/ RemoveLeftover(g)
        BY <4>2 DEF CheckCache, RemoveLeftover
      <4>3. CASE GetFails(g) \/ CreateTmp(g) \/ FetchFails(g) \/ FetchEnds(g)
        BY <4>3 DEF GetFails, CreateTmp, FetchFails, FetchEnds
      <4>4. CASE VerifyTmp(g) \/ RemoveTmp(g) \/ RenameTmp(g) \/ WorkerDies(g)
        BY <4>4 DEF VerifyTmp, RemoveTmp, RenameTmp, WorkerDies
      <4> QED
        BY <2>2, <2>4, <4>1, <4>2, <4>3, <4>4 DEF FetchStep
    <3> QED
      BY <1>0, <2>1, <3>1 DEF Given, Old
  <2> QED
    BY <2>3, <2>4
<1>3. CASE UNCHANGED filesVars
  BY <1>3 DEF filesVars, storeVars, cacheVars, Given, Old
<1> QED
  BY <1>1, <1>2, <1>3 DEF FilesNext

LEMMA GivenHolds ==
  ASSUME ~Overlap
  PROVE  FilesSpec => []Given
<1>1. FilesInit => Given
  BY DEF FilesInit, CacheInit, Given
<1>2. FilesInv /\ Given /\ [FilesNext]_filesVars => Given'
  BY GivenStep
<1> QED
  BY <1>1, <1>2, FilesInvHolds, PTL DEF FilesSpec

\* What is shown of the pulls, the launches and the commands is one of four
\* functions: a step leaves it alone, or changes it at one place.
LEMMA OutcomeShown ==
  ASSUME NEW S, \A p \in Pulls \ S : OutcomeOf(p)' = OutcomeOf(p)
  PROVE  /\ S = {} => [p \in Pulls |-> OutcomeOf(p)]' = [p \in Pulls |-> OutcomeOf(p)]
         /\ \A q \in Pulls : S = {q} =>
              [p \in Pulls |-> OutcomeOf(p)]' =
                [[p \in Pulls |-> OutcomeOf(p)] EXCEPT ![q] = OutcomeOf(q)']
OBVIOUS

LEMMA LaunchShown ==
  ASSUME NEW S, \A f \in Fetches \ S : LaunchOf(f)' = LaunchOf(f)
  PROVE  /\ S = {} => [f \in Fetches |-> LaunchOf(f)]' = [f \in Fetches |-> LaunchOf(f)]
         /\ \A g \in Fetches : S = {g} =>
              [f \in Fetches |-> LaunchOf(f)]' =
                [[f \in Fetches |-> LaunchOf(f)] EXCEPT ![g] = LaunchOf(g)']
OBVIOUS

LEMMA ToldShown ==
  ASSUME NEW S, \A p \in Pulls \ S : ToldBy(p)' = ToldBy(p)
  PROVE  /\ S = {} => [p \in Pulls |-> ToldBy(p)]' = [p \in Pulls |-> ToldBy(p)]
         /\ \A q \in Pulls : S = {q} =>
              [p \in Pulls |-> ToldBy(p)]' =
                [[p \in Pulls |-> ToldBy(p)] EXCEPT ![q] = ToldBy(q)']
OBVIOUS

LEMMA GivenShown ==
  ASSUME NEW S, \A f \in Fetches \ S : Contents(data', body'[f]) = Contents(data, body[f])
  PROVE  /\ S = {} => [f \in Fetches |-> Contents(data, body[f])]' =
                        [f \in Fetches |-> Contents(data, body[f])]
         /\ \A g \in Fetches : S = {g} =>
              [f \in Fetches |-> Contents(data, body[f])]' =
                [[f \in Fetches |-> Contents(data, body[f])]
                   EXCEPT ![g] = Contents(data', body'[g])]
BY DEF Contents

\* A whole model is a version of the service, and is something.
LEMMA WholeIsVersion ==
  ASSUME NEW s, Whole(s)
  PROVE  s \in {Model(v) : v \in Gguf} /\ s # <<>>
<1>1. PICK v \in Gguf : s = Model(v)
  BY DEF Whole
<1>2. Len(Model(v)) = Blocks /\ Blocks # 0
  BY ModelType, DiskAssumption
<1>3. Len(<<>>) = 0
  OBVIOUS
<1> QED
  BY <1>1, <1>2, <1>3

\* A step of the store shows nothing to those who have been given a file.
LEMMA StoreKeepsGiven ==
  ASSUME FilesInv, Given, StoreNext, UNCHANGED cacheVars
  PROVE  \A f \in Fetches : Contents(data', body'[f]) = Contents(data, body[f])
<1> TAKE f \in Fetches
<1>1. body' = body
  BY DEF cacheVars
<1>2. PICK x : x = body[f]
  OBVIOUS
<1>3. CASE x = None
  BY <1>1, <1>2, <1>3 DEF Contents
<1>4. CASE x # None
  <2>1. Old(x)
    BY <1>2, <1>4 DEF Given
  <2>2. data'[x] = data[x]
    BY <2>1, OldIsFrozen
  <2> QED
    BY <1>1, <1>2, <2>2 DEF Contents
<1> QED
  BY <1>3, <1>4

\* A step of a pull publishes the model it has downloaded, fails, or is unseen.
LEMMA PullServes ==
  ASSUME FilesInv, Given, NEW p \in Pulls, PullMoves(p)
  PROVE  Service!Publish(p) \/ Service!PullFails(p) \/ UNCHANGED Service!serviceVars
<1>0. /\ pull \in [Pulls -> PullState] /\ final \in Pulls \union {None}
      /\ data \in [Pulls -> Seq(Block)]
  BY DEF FilesInv, FilesTypeOK, StoreTypeOK
<1>1. PullStep(p) /\ UNCHANGED cacheVars /\ UNCHANGED <<cmd, events, lost>>
  BY DEF PullMoves
<1>2. StoreNext /\ FilesNext
  BY <1>1 DEF StoreNext, FilesNext, Pulling
<1>3. /\ Contents(cdata', target') = Contents(cdata, target)
      /\ [f \in Fetches |-> LaunchOf(f)]' = [f \in Fetches |-> LaunchOf(f)]
  BY <1>1 DEF cacheVars, LaunchOf
<1>4. [q \in Pulls |-> ToldBy(q)]' = [q \in Pulls |-> ToldBy(q)]
  BY <1>1 DEF ToldBy
<1>5. [f \in Fetches |-> Contents(data, body[f])]' = [f \in Fetches |-> Contents(data, body[f])]
  BY <1>1, <1>2, StoreKeepsGiven, GivenShown
<1>6. CASE RenamePartial(p)
  <2>1. /\ pull[p] = "verified" /\ pull' = [pull EXCEPT ![p] = "done"]
        /\ final' = partial /\ partial # None /\ data' = data
    BY <1>6 DEF RenamePartial
  <2>2. OutcomeOf(p) = "open" /\ OutcomeOf(p)' = "done"
        /\ \A q \in Pulls \ {p} : OutcomeOf(q)' = OutcomeOf(q)
    BY <1>0, <2>1 DEF OutcomeOf
  <2>3. /\ src[p] \in Gguf /\ src[p] \in Sources /\ off[p] = Blocks
        /\ data[partial] = UpTo(Model(src[p]), off[p])
    BY <2>1, DiskAssumption DEF FilesInv, Progress
  <2>4. data[partial] = Model(src[p])
    BY <2>3, ModelType, UpToAll
  <2>5. Contents(data', final') \in {Model(v) : v \in Gguf}
    BY <2>1, <2>3, <2>4 DEF Contents
  <2>6. [q \in Pulls |-> OutcomeOf(q)]' =
          [[q \in Pulls |-> OutcomeOf(q)] EXCEPT ![p] = "done"]
    BY <2>2, OutcomeShown
  <2> QED
    BY <1>1, <1>3, <1>4, <1>5, <2>2, <2>5, <2>6 DEF Service!Publish
<1>7. CASE ~RenamePartial(p)
  <2>1. /\ final' = final
        /\ \E t \in PullState \ {"done", "dead"} : pull' = [pull EXCEPT ![p] = t]
        /\ pull[p] \notin {"done", "error", "dead"}
    <3> USE <1>0 DEF PullState, Running
    <3>1. CASE CopyBlock(p)
      <4>1. pull' = [pull EXCEPT ![p] = "copying"]
        BY <3>1 DEF CopyBlock
      <4> QED
        BY <3>1, <4>1 DEF CopyBlock
    <3>2. CASE RequestFails(p) \/ CreatePartial(p)
      <4>1. \E t \in {"error", "copying"} : pull' = [pull EXCEPT ![p] = t]
        BY <3>2 DEF RequestFails, CreatePartial
      <4> QED
        BY <3>2, <4>1 DEF RequestFails, CreatePartial, CanStart
    <3>3. CASE CopyFails(p) \/ CopyEnds(p) \/ VerifyGGUF(p)
      <4>1. \E t \in {"failing", "copied", "verified", "rejected"} :
              pull' = [pull EXCEPT ![p] = t]
        BY <3>3 DEF CopyFails, CopyEnds, VerifyGGUF
      <4> QED
        BY <3>3, <4>1 DEF CopyFails, CopyEnds, VerifyGGUF
    <3>4. CASE RemoveRejected(p) \/ RenameFails(p) \/ StatFinal(p) \/ RemovePartial(p)
      <4>1. \E t \in {"failing", "removing", "error"} : pull' = [pull EXCEPT ![p] = t]
        BY <3>4 DEF RemoveRejected, RenameFails, StatFinal, RemovePartial
      <4> QED
        BY <3>4, <4>1 DEF RemoveRejected, RenameFails, StatFinal, RemovePartial
    <3> QED
      BY <1>1, <1>7, <3>1, <3>2, <3>3, <3>4 DEF PullStep
  <2>2. Contents(data', final') = Contents(data, final)
    BY <1>2, <2>1, NothingOverwritten DEF Contents
  <2>3. PICK t \in PullState \ {"done", "dead"} : pull' = [pull EXCEPT ![p] = t]
    BY <2>1
  <2>4. \A q \in Pulls \ {p} : OutcomeOf(q)' = OutcomeOf(q)
    BY <1>0, <2>3 DEF OutcomeOf
  <2>5. OutcomeOf(p) = "open" /\ OutcomeOf(p)' = IF t = "error" THEN "error" ELSE "open"
    BY <1>0, <2>1, <2>3 DEF OutcomeOf
  <2>6. CASE t = "error"
    <3>1. [q \in Pulls |-> OutcomeOf(q)]' =
            [[q \in Pulls |-> OutcomeOf(q)] EXCEPT ![p] = "error"]
      BY <2>4, <2>5, <2>6, OutcomeShown
    <3> QED
      BY <1>1, <1>3, <1>4, <1>5, <2>2, <2>5, <3>1 DEF Service!PullFails
  <2>7. CASE t # "error"
    <3>1. \A q \in Pulls \ {} : OutcomeOf(q)' = OutcomeOf(q)
      BY <2>4, <2>5, <2>7
    <3>2. [q \in Pulls |-> OutcomeOf(q)]' = [q \in Pulls |-> OutcomeOf(q)]
      BY <3>1, OutcomeShown
    <3> QED
      BY <1>1, <1>3, <1>4, <1>5, <2>2, <3>2 DEF Service!serviceVars
  <2> QED
    BY <2>6, <2>7
<1> QED
  BY <1>6, <1>7

\* The end of the orchestrator ends its pulls and cuts off their commands.
LEMMA DeathServes ==
  ASSUME FilesInv, Given, OrchestratorDies
  PROVE  \E S, C \in SUBSET Pulls : Service!Breaks(S, C)
<1> DEFINE S == {p \in Pulls : pull[p] \in Running}
           C == {p \in Pulls : Waits(p) /\ Handled(p)}
<1>0. pull \in [Pulls -> PullState]
  BY DEF FilesInv, FilesTypeOK, StoreTypeOK
<1>1. /\ UNCHANGED <<final, data, body, fetch, target, cdata, cmd>>
      /\ lost' = lost \union C
      /\ pull' = [p \in Pulls |-> IF p \in S THEN "dead" ELSE pull[p]]
  BY <1>0 DEF OrchestratorDies, StoreCrash, storeVars, cacheVars
<1>2. \A p \in Pulls : OutcomeOf(p)' = IF p \in S THEN "dead" ELSE OutcomeOf(p)
  BY <1>0, <1>1 DEF OutcomeOf
<1>3. \A p \in S : OutcomeOf(p) = "open"
  BY DEF OutcomeOf, Running
<1>4. /\ Contents(data', final') = Contents(data, final)
      /\ Contents(cdata', target') = Contents(cdata, target)
      /\ [f \in Fetches |-> LaunchOf(f)]' = [f \in Fetches |-> LaunchOf(f)]
      /\ [f \in Fetches |-> Contents(data, body[f])]' =
           [f \in Fetches |-> Contents(data, body[f])]
      /\ [p \in Pulls |-> ToldBy(p)]' = [p \in Pulls |-> ToldBy(p)]
  BY <1>1 DEF Contents, LaunchOf, ToldBy
<1> DEFINE O == [p \in Pulls |-> OutcomeOf(p)]
<1>5. O' = [p \in Pulls |-> IF p \in S THEN "dead" ELSE O[p]]
  BY <1>2
<1>6. \A p \in S : O[p] = "open"
  BY <1>3
<1>7. PICK s, c : s = S /\ c = C
  OBVIOUS
<1>8. s \in SUBSET Pulls /\ c \in SUBSET Pulls
  BY <1>7
<1>9. Service!Breaks(s, c)
  BY <1>1, <1>4, <1>5, <1>6, <1>7 DEF Service!Breaks
<1> QED
  BY <1>8, <1>9

\* A step of a command reports, loses its orchestrator or is unseen.
LEMMA CommandServes ==
  ASSUME CommandInv, CommandInv', NEW p \in Pulls,
         \/ Ask(p) \/ AskFails(p) \/ Emit(p) \/ ReadEvent(p)
         \/ Exit(p) \/ Interrupted(p) \/ ConnectionBreaks(p)
  PROVE  \/ Service!ReportSuccess(p) \/ Service!ReportFailure(p)
         \/ \E S, C \in SUBSET Pulls : Service!Breaks(S, C)
         \/ UNCHANGED Service!serviceVars
<1>0. cmd \in [Pulls -> CommandState]
  BY DEF CommandInv, CommandTypeOK
<1>1. UNCHANGED filesVars
  BY DEF Ask, AskFails, Emit, ReadEvent, Exit, Interrupted, ConnectionBreaks
<1>2. /\ Contents(data', final') = Contents(data, final)
      /\ Contents(cdata', target') = Contents(cdata, target)
      /\ [q \in Pulls |-> OutcomeOf(q)]' = [q \in Pulls |-> OutcomeOf(q)]
      /\ [f \in Fetches |-> LaunchOf(f)]' = [f \in Fetches |-> LaunchOf(f)]
      /\ [f \in Fetches |-> Contents(data, body[f])]' =
           [f \in Fetches |-> Contents(data, body[f])]
  BY <1>1 DEF filesVars, storeVars, cacheVars, Contents, OutcomeOf, LaunchOf
<1>3. CASE AskFails(p)
  <2>1. cmd[p] = "none" /\ cmd' = [cmd EXCEPT ![p] = "exit1"] /\ lost' = lost \union {p}
    BY <1>3 DEF AskFails
  <2>2. ToldBy(p) = "nothing" /\ ToldBy(p)' = "failure"
        /\ \A q \in Pulls \ {p} : ToldBy(q)' = ToldBy(q)
    BY <1>0, <2>1 DEF ToldBy
  <2>3. [q \in Pulls |-> ToldBy(q)]' = [[q \in Pulls |-> ToldBy(q)] EXCEPT ![p] = "failure"]
    BY <2>2, ToldShown
  <2> QED
    BY <1>2, <2>1, <2>2, <2>3 DEF Service!ReportFailure
<1>4. CASE Exit(p)
  <2>1. /\ cmd[p] \in {"reads", "told"} /\ lost' = lost
        /\ cmd' = [cmd EXCEPT ![p] = IF cmd[p] = "told" THEN "exit0" ELSE "exit1"]
    BY <1>4 DEF Exit, Waits
  <2>2. \A q \in Pulls \ {p} : ToldBy(q)' = ToldBy(q)
    BY <1>0, <2>1 DEF ToldBy
  <2>3. ToldBy(p) = "nothing"
    BY <2>1 DEF ToldBy
  <2>4. CASE cmd[p] = "told"
    <3>1. ToldBy(p)' = "success"
      BY <1>0, <2>1, <2>4 DEF ToldBy
    <3>2. [q \in Pulls |-> ToldBy(q)]' = [[q \in Pulls |-> ToldBy(q)] EXCEPT ![p] = "success"]
      BY <2>2, <3>1, ToldShown
    <3>3. OutcomeOf(p) = "done"
      BY <2>4 DEF CommandInv, Reported, OutcomeOf
    <3> QED
      BY <1>2, <2>1, <2>3, <3>2, <3>3 DEF Service!ReportSuccess
  <2>5. CASE cmd[p] = "reads"
    <3>1. ToldBy(p)' = "failure" /\ cmd'[p] = "exit1"
      BY <1>0, <2>1, <2>5 DEF ToldBy
    <3>2. [q \in Pulls |-> ToldBy(q)]' = [[q \in Pulls |-> ToldBy(q)] EXCEPT ![p] = "failure"]
      BY <2>2, <3>1, ToldShown
    <3>3. p \notin lost => pull'[p] = "error" /\ pull' = pull
      BY <1>1, <2>1, <3>1 DEF CommandInv, Reported, filesVars, storeVars
    <3>4. OutcomeOf(p) = "error" \/ p \in lost'
      BY <2>1, <3>3 DEF OutcomeOf
    <3> QED
      BY <1>2, <2>1, <2>3, <3>2, <3>4 DEF Service!ReportFailure
  <2> QED
    BY <2>1, <2>4, <2>5
<1>5. CASE ConnectionBreaks(p)
  <2>1. lost' = lost \union {p} /\ cmd' = cmd
    BY <1>5 DEF ConnectionBreaks
  <2>2. [q \in Pulls |-> ToldBy(q)]' = [q \in Pulls |-> ToldBy(q)]
    BY <2>1 DEF ToldBy
  <2> DEFINE O == [q \in Pulls |-> OutcomeOf(q)]
  <2>3. O' = [q \in Pulls |-> IF q \in {} THEN "dead" ELSE O[q]]
    BY <1>2
  <2>4. Service!Breaks({}, {p})
    BY <1>2, <2>1, <2>2, <2>3 DEF Service!Breaks
  <2> QED
    BY <2>4
<1>6. CASE Ask(p) \/ Emit(p) \/ ReadEvent(p) \/ Interrupted(p)
  <2>1. lost' = lost /\ \A q \in Pulls \ {p} : cmd'[q] = cmd[q]
    BY <1>0, <1>6 DEF Ask, Emit, ReadEvent, Interrupted
  <2>2. \/ cmd[p] \notin {"exit0", "exit1"} /\ cmd'[p] \notin {"exit0", "exit1"}
        \/ cmd'[p] = cmd[p]
    BY <1>0, <1>6 DEF Ask, Emit, ReadEvent, Interrupted, Waits
  <2>3. \A q \in Pulls \ {} : ToldBy(q)' = ToldBy(q)
    BY <2>1, <2>2 DEF ToldBy
  <2>4. [q \in Pulls |-> ToldBy(q)]' = [q \in Pulls |-> ToldBy(q)]
    BY <2>3, ToldShown
  <2> QED
    BY <1>2, <2>1, <2>4 DEF Service!serviceVars
<1> QED
  BY <1>3, <1>4, <1>5, <1>6

\* A step of a launch is given the model, keeps it, finds it in the cache, stops
\* or is unseen: the blocks it copies while the catalog changes make one read.
LEMMA FetchServes ==
  ASSUME FilesInv, Given, NEW f \in Fetches, FetchStep(f),
         UNCHANGED <<storeVars, commandVars>>
  PROVE  \/ Service!Give(f) \/ Service!Keep(f) \/ Service!Reuse(f) \/ Service!Stop(f)
         \/ UNCHANGED Service!serviceVars
<1>0. /\ fetch \in [Fetches -> FetchState] /\ body \in [Fetches -> Pulls \union {None}]
      /\ cdata \in [Fetches -> Seq(Block)] /\ data \in [Pulls -> Seq(Block)]
  BY DEF FilesInv, FilesTypeOK, CacheTypeOK, StoreTypeOK
<1>1. FilesNext
  BY DEF FilesNext, FetchNext
<1>2. /\ Contents(data', final') = Contents(data, final)
      /\ [q \in Pulls |-> OutcomeOf(q)]' = [q \in Pulls |-> OutcomeOf(q)]
      /\ [q \in Pulls |-> ToldBy(q)]' = [q \in Pulls |-> ToldBy(q)]
      /\ lost' = lost /\ data' = data /\ final' = final
  BY DEF storeVars, commandVars, Contents, OutcomeOf, ToldBy
<1>3. target' = target => Contents(cdata', target') = Contents(cdata, target)
  BY <1>1, NothingOverwritten DEF Contents
<1>4. body' = body => [g \in Fetches |-> Contents(data, body[g])]' =
                      [g \in Fetches |-> Contents(data, body[g])]
  BY <1>2 DEF Contents
<1>5. ASSUME NEW t, fetch' = [fetch EXCEPT ![f] = t]
      PROVE  [g \in Fetches |-> LaunchOf(g)]' =
               [[g \in Fetches |-> LaunchOf(g)] EXCEPT ![f] = LaunchOf(f)']
  <2>1. \A g \in Fetches \ {f} : LaunchOf(g)' = LaunchOf(g)
    BY <1>0, <1>5 DEF LaunchOf
  <2> QED
    BY <2>1, LaunchShown
<1>6. ASSUME fetch[f] \in Fetching \union {"idle"}, target' = target, body' = body,
             NEW t \in {"error", "dead"}, fetch' = [fetch EXCEPT ![f] = t]
      PROVE  Service!Stop(f)
  <2>1. LaunchOf(f) = "open" /\ LaunchOf(f)' = "stopped"
    BY <1>0, <1>6 DEF LaunchOf, Fetching
  <2>2. [g \in Fetches |-> LaunchOf(g)]' =
          [[g \in Fetches |-> LaunchOf(g)] EXCEPT ![f] = "stopped"]
    BY <1>5, <1>6, <2>1
  <2> QED
    BY <1>2, <1>3, <1>4, <1>6, <2>1, <2>2 DEF Service!Stop
<1>7. ASSUME fetch[f] \in Fetching \union {"idle"}, target' = target, body' = body,
             NEW t \in Fetching, fetch' = [fetch EXCEPT ![f] = t]
      PROVE  UNCHANGED Service!serviceVars
  <2>0. fetch[f] \in Fetching \union {"idle"} /\ fetch'[f] \in Fetching \union {"idle"}
        /\ \A g \in Fetches \ {f} : fetch'[g] = fetch[g]
    BY <1>0, <1>7
  <2>1. LaunchOf(f) = "open" /\ LaunchOf(f)' = "open"
    BY <2>0 DEF LaunchOf, Fetching
  <2>2. \A g \in Fetches \ {} : LaunchOf(g)' = LaunchOf(g)
    BY <2>0, <2>1 DEF LaunchOf
  <2>3. [g \in Fetches |-> LaunchOf(g)]' = [g \in Fetches |-> LaunchOf(g)]
    BY <2>2, LaunchShown
  <2> QED
    BY <1>2, <1>3, <1>4, <1>7, <2>3 DEF Service!serviceVars
<1>8. CASE CheckCache(f)
  <2>1. /\ fetch[f] = "idle" /\ UNCHANGED <<target, cdata, body>>
        /\ \/ fetch' = [fetch EXCEPT ![f] = "clearing"]
           \/ fetch' = [fetch EXCEPT ![f] = "have"] /\ target # None
    BY <1>8 DEF CheckCache, Goes
  <2>2. CASE fetch' = [fetch EXCEPT ![f] = "clearing"]
    BY <1>7, <2>1, <2>2 DEF Fetching
  <2>3. CASE fetch' = [fetch EXCEPT ![f] = "have"] /\ target # None
    <3>1. LaunchOf(f) = "open" /\ LaunchOf(f)' = "ready"
      BY <1>0, <2>1, <2>3 DEF LaunchOf, Fetching
    <3>2. [g \in Fetches |-> LaunchOf(g)]' =
            [[g \in Fetches |-> LaunchOf(g)] EXCEPT ![f] = "ready"]
      BY <1>5, <2>3, <3>1
    <3>3. Contents(data, body[f]) = <<>>
      BY <2>1 DEF Given, Contents
    <3>4. Contents(cdata, target) # <<>>
      BY <2>3, WholeIsVersion DEF FilesInv, Contents
    <3> QED
      BY <1>2, <1>3, <1>4, <2>1, <3>1, <3>2, <3>3, <3>4 DEF Service!Reuse
  <2> QED
    BY <2>1, <2>2, <2>3
<1>9. CASE Get(f)
  <2>1. /\ fetch[f] = "requesting" /\ final # None /\ UNCHANGED <<target, cdata>>
        /\ body' = [body EXCEPT ![f] = final]
        /\ fetch' = [fetch EXCEPT ![f] = "answered"]
    BY <1>9 DEF Get, Goes
  <2>2. LaunchOf(f) = "open" /\ LaunchOf(f)' = "open"
        /\ \A g \in Fetches \ {} : LaunchOf(g)' = LaunchOf(g)
    BY <1>0, <2>1 DEF LaunchOf, Fetching
  <2>3. [g \in Fetches |-> LaunchOf(g)]' = [g \in Fetches |-> LaunchOf(g)]
    BY <2>2, LaunchShown
  <2>4. Contents(data, body[f]) = <<>>
    BY <2>1 DEF Given, Contents
  <2>5. Contents(data, final) # <<>> /\ Contents(data', body'[f]) = Contents(data, final)
    BY <1>0, <1>2, <2>1, WholeIsVersion DEF FilesInv, Contents
  <2>6. \A g \in Fetches \ {f} : Contents(data', body'[g]) = Contents(data, body[g])
    BY <1>0, <1>2, <2>1
  <2>7. [g \in Fetches |-> Contents(data, body[g])]' =
          [[g \in Fetches |-> Contents(data, body[g])] EXCEPT ![f] = Contents(data, final)]
    BY <2>5, <2>6, GivenShown
  <2> QED
    BY <1>2, <1>3, <2>1, <2>2, <2>3, <2>4, <2>5, <2>7 DEF Service!Give
<1>10. CASE RenameTmp(f)
  <2>1. fetch[f] = "verified" /\ UNCHANGED <<cdata, body>>
    BY <1>10 DEF RenameTmp
  <2>2. CASE UNCHANGED <<target, tmp>> /\ fetch' = [fetch EXCEPT ![f] = "error"]
    BY <1>6, <2>1, <2>2 DEF Fetching
  <2>3. CASE /\ tmp # None /\ target' = tmp /\ fetch' = [fetch EXCEPT ![f] = "have"]
    <3>1. LaunchOf(f) = "open" /\ LaunchOf(f)' = "ready"
      BY <1>0, <2>1, <2>3 DEF LaunchOf, Fetching
    <3>2. [g \in Fetches |-> LaunchOf(g)]' =
            [[g \in Fetches |-> LaunchOf(g)] EXCEPT ![f] = "ready"]
      BY <1>5, <2>3, <3>1
    <3>3. /\ body[f] # None /\ Whole(data[body[f]])
          /\ cdata[tmp] = UpTo(data[body[f]], pos[f]) /\ pos[f] = Blocks
      BY <2>1 DEF FilesInv, Progress, Served
    <3>4. PICK v \in Gguf : data[body[f]] = Model(v)
      BY <3>3 DEF Whole
    <3>5. Model(v) \in Seq(Block) /\ Len(Model(v)) = Blocks
      BY ModelType, DiskAssumption
    <3>6. cdata[tmp] = data[body[f]]
      BY <3>3, <3>4, <3>5, UpToAll
    <3>7. Contents(data, body[f]) # <<>>
      BY <3>3, WholeIsVersion DEF Contents
    <3>8. Contents(cdata', target') = Contents(data, body[f])
      BY <2>1, <2>3, <3>3, <3>6 DEF Contents
    <3> QED
      BY <1>2, <1>4, <2>1, <3>1, <3>2, <3>7, <3>8 DEF Service!Keep
  <2> QED
    BY <1>10, <2>2, <2>3 DEF RenameTmp, Goes
<1>11. CASE GetFails(f) \/ FetchFails(f) \/ RemoveTmp(f) \/ WorkerDies(f)
  <2>1. /\ fetch[f] \in Fetching /\ UNCHANGED <<target, body>>
        /\ \E t \in {"error", "dead"} : fetch' = [fetch EXCEPT ![f] = t]
    BY <1>11 DEF GetFails, FetchFails, RemoveTmp, WorkerDies, Goes, Fetching
  <2> QED
    BY <1>6, <2>1
<1>12. CASE RemoveLeftover(f) \/ CreateTmp(f) \/ FetchEnds(f)
  <2>1. /\ fetch[f] \in Fetching /\ UNCHANGED <<target, body>>
        /\ \E t \in {"requesting", "copying", "copied"} : fetch' = [fetch EXCEPT ![f] = t]
    BY <1>12 DEF RemoveLeftover, CreateTmp, FetchEnds, Goes, Fetching
  <2>2. \E t \in Fetching : fetch' = [fetch EXCEPT ![f] = t]
    BY <2>1 DEF Fetching
  <2> QED
    BY <1>7, <2>1, <2>2
<1>13. CASE VerifyTmp(f)
  <2>1. /\ fetch[f] \in Fetching /\ UNCHANGED <<target, body>>
        /\ \E t \in {"verified", "rejected"} : fetch' = [fetch EXCEPT ![f] = t]
    BY <1>13 DEF VerifyTmp, Goes, Fetching
  <2>2. \E t \in Fetching : fetch' = [fetch EXCEPT ![f] = t]
    BY <2>1 DEF Fetching
  <2> QED
    BY <1>7, <2>1, <2>2
<1>14. CASE FetchBlock(f)
  <2>1. fetch[f] = "copying" /\ UNCHANGED <<target, body, fetch>>
    BY <1>14 DEF FetchBlock
  <2>2. fetch' = [fetch EXCEPT ![f] = "copying"]
    BY <1>0, <2>1
  <2> QED
    BY <1>7, <2>1, <2>2 DEF Fetching
<1> QED
  BY <1>8, <1>9, <1>10, <1>11, <1>12, <1>13, <1>14 DEF FetchStep

LEMMA ServesStep ==
  ASSUME FilesInv, Given, CommandInv, CommandInv', [PullNext]_pullVars
  PROVE  [Service!ServiceNext]_Service!serviceVars
<1>1. CASE \E p \in Pulls : PullMoves(p)
  BY <1>1, PullServes DEF Service!ServiceNext
<1>2. CASE OrchestratorDies
  BY <1>2, DeathServes DEF Service!ServiceNext
<1>3. CASE \E p \in Pulls : \/ Ask(p) \/ AskFails(p) \/ Emit(p) \/ ReadEvent(p)
                            \/ Exit(p) \/ Interrupted(p) \/ ConnectionBreaks(p)
  BY <1>3, CommandServes DEF Service!ServiceNext
<1>4. CASE FetchNext /\ UNCHANGED commandVars
  BY <1>4, FetchServes DEF FetchNext, Service!ServiceNext
<1>5. CASE UNCHANGED pullVars
  BY <1>5 DEF pullVars, filesVars, storeVars, cacheVars, commandVars, Contents, OutcomeOf,
     LaunchOf, ToldBy, Service!serviceVars
<1> QED
  BY <1>1, <1>2, <1>3, <1>4, <1>5 DEF PullNext

\* The catalog, the caches and the commands keep every promise of CatalogService,
\* for any number of pulls that do not overlap, launches, commands and blocks.
THEOREM CatalogServes ==
  ASSUME ~Overlap
  PROVE  PullSpec => ServesModels
<1>1. PullInit => Service!ServiceInit
  BY DEF PullInit, FilesInit, StoreInit, CacheInit, CommandInit, Contents, OutcomeOf,
     LaunchOf, Fetching, ToldBy, Service!ServiceInit
<1>2. FilesInv /\ Given /\ CommandInv /\ CommandInv' /\ [PullNext]_pullVars =>
        [Service!ServiceNext]_Service!serviceVars
  BY ServesStep
<1> QED
  BY <1>1, <1>2, PullRefinesFiles, FilesInvHolds, GivenHolds, CommandInvHolds, PTL
     DEF PullSpec, ServesModels, Service!ServiceSpec

\* The promises of the service, read through what the catalog shows.
Promises == /\ Service!ListedSinceDone /\ Service!CachedWasGiven
            /\ Service!ReadyHasModel /\ Service!ReportsAreTrue

LEMMA PromisesRead ==
  Promises <=>
    /\ Contents(data, final) # <<>> <=> \E p \in Pulls : OutcomeOf(p) = "done"
    /\ Contents(cdata, target) # <<>> =>
         \E f \in Fetches : /\ LaunchOf(f) = "ready"
                           /\ Contents(data, body[f]) = Contents(cdata, target)
    /\ \A f \in Fetches : LaunchOf(f) = "ready" => Contents(cdata, target) # <<>>
    /\ \A p \in Pulls :
         /\ ToldBy(p) = "success" => OutcomeOf(p) = "done"
         /\ ToldBy(p) = "failure" => OutcomeOf(p) = "error" \/ p \in lost
BY DEF Promises, Service!ListedSinceDone, Service!CachedWasGiven, Service!ReadyHasModel,
   Service!ReportsAreTrue

\* The promises follow from the service alone, whoever implements it.
LEMMA PromisesFollow == ServesModels => []Promises
<1>1. Service!ServiceInit => Promises
  <2> SUFFICES ASSUME Service!ServiceInit
               PROVE  Promises
    OBVIOUS
  <2>1. /\ Contents(data, final) = <<>> /\ Contents(cdata, target) = <<>>
        /\ \A p \in Pulls : OutcomeOf(p) = "open" /\ ToldBy(p) = "nothing"
        /\ \A f \in Fetches : LaunchOf(f) = "open"
    <3>1. /\ [p \in Pulls |-> OutcomeOf(p)] = [p \in Pulls |-> "open"]
          /\ [p \in Pulls |-> ToldBy(p)] = [p \in Pulls |-> "nothing"]
          /\ [f \in Fetches |-> LaunchOf(f)] = [f \in Fetches |-> "open"]
      BY DEF Service!ServiceInit
    <3>2. ASSUME NEW p \in Pulls
          PROVE  OutcomeOf(p) = "open" /\ ToldBy(p) = "nothing"
      <4>1. /\ [q \in Pulls |-> OutcomeOf(q)][p] = "open"
            /\ [q \in Pulls |-> ToldBy(q)][p] = "nothing"
        BY <3>1
      <4> QED
        BY <4>1
    <3>3. ASSUME NEW f \in Fetches PROVE LaunchOf(f) = "open"
      <4>1. [g \in Fetches |-> LaunchOf(g)][f] = "open"
        BY <3>1
      <4> QED
        BY <4>1
    <3> QED
      BY <3>2, <3>3 DEF Service!ServiceInit
  <2> QED
    BY <2>1, PromisesRead
<1>2. Promises /\ [Service!ServiceNext]_Service!serviceVars => Promises'
  <2> SUFFICES ASSUME Promises, [Service!ServiceNext]_Service!serviceVars
               PROVE  Promises'
    OBVIOUS
  <2> DEFINE O == [p \in Pulls |-> OutcomeOf(p)]
             R == [f \in Fetches |-> LaunchOf(f)]
             G == [f \in Fetches |-> Contents(data, body[f])]
             T == [p \in Pulls |-> ToldBy(p)]
             Listed0 == Contents(data, final)
             Cached0 == Contents(cdata, target)
  <2>1. /\ \A p \in Pulls : /\ O[p] = OutcomeOf(p) /\ O'[p] = OutcomeOf(p)'
                           /\ T[p] = ToldBy(p) /\ T'[p] = ToldBy(p)'
        /\ \A f \in Fetches : /\ R[f] = LaunchOf(f) /\ R'[f] = LaunchOf(f)'
                             /\ G[f] = Contents(data, body[f])
                             /\ G'[f] = Contents(data, body[f])'
        /\ O = [p \in Pulls |-> O[p]] /\ T = [p \in Pulls |-> T[p]]
        /\ R = [f \in Fetches |-> R[f]] /\ G = [f \in Fetches |-> G[f]]
    OBVIOUS
  <2> DEFINE Kept == /\ Listed0 # <<>> <=> \E p \in Pulls : O[p] = "done"
                     /\ Cached0 # <<>> =>
                          \E f \in Fetches : R[f] = "ready" /\ G[f] = Cached0
                     /\ \A f \in Fetches : R[f] = "ready" => Cached0 # <<>>
                     /\ \A p \in Pulls :
                          /\ T[p] = "success" => O[p] = "done"
                          /\ T[p] = "failure" => O[p] = "error" \/ p \in lost
  <2>2. Kept
    BY PromisesRead
  <2>3. Kept' => Promises'
    BY DEF Promises, Service!ListedSinceDone, Service!CachedWasGiven,
       Service!ReadyHasModel, Service!ReportsAreTrue
  <2>4. ASSUME NEW p \in Pulls, Service!Publish(p) \/ Service!PullFails(p)
        PROVE  Kept'
    <3>1. CASE Service!Publish(p)
      <4>1. /\ O[p] = "open" /\ O' = [O EXCEPT ![p] = "done"]
            /\ Listed0' \in {Model(v) : v \in Gguf}
            /\ UNCHANGED <<Cached0, R, G, lost, T>>
        BY <3>1 DEF Service!Publish
      <4>2. Listed0' # <<>>
        BY <4>1, WholeIsVersion DEF Whole
      <4> HIDE DEF O, R, G, T, Listed0, Cached0
      <4> QED
        BY <2>1, <2>2, <4>1, <4>2
    <3>2. CASE Service!PullFails(p)
      <4>1. /\ O[p] = "open" /\ O' = [O EXCEPT ![p] = "error"]
            /\ UNCHANGED <<Listed0, Cached0, R, G, lost, T>>
        BY <3>2 DEF Service!PullFails
      <4> HIDE DEF O, R, G, T, Listed0, Cached0
      <4> QED
        BY <2>1, <2>2, <4>1
    <3> QED
      BY <2>4, <3>1, <3>2
  <2>5. ASSUME NEW p \in Pulls, Service!ReportSuccess(p) \/ Service!ReportFailure(p)
        PROVE  Kept'
    <3>1. /\ UNCHANGED <<Listed0, Cached0, O, R, G>> /\ lost \subseteq lost'
          /\ \/ T' = [T EXCEPT ![p] = "success"] /\ O[p] = "done"
             \/ T' = [T EXCEPT ![p] = "failure"] /\ (O[p] = "error" \/ p \in lost')
      BY <2>5 DEF Service!ReportSuccess, Service!ReportFailure
    <3> HIDE DEF O, R, G, T, Listed0, Cached0
    <3> QED
      BY <2>1, <2>2, <3>1
  <2>6. ASSUME NEW S \in SUBSET Pulls, NEW C \in SUBSET Pulls, Service!Breaks(S, C)
        PROVE  Kept'
    <3>1. /\ UNCHANGED <<Listed0, Cached0, R, G, T>> /\ lost \subseteq lost'
          /\ \A p \in S : O[p] = "open"
          /\ O' = [p \in Pulls |-> IF p \in S THEN "dead" ELSE O[p]]
      BY <2>6 DEF Service!Breaks
    <3> HIDE DEF O, R, G, T, Listed0, Cached0
    <3> QED
      BY <2>1, <2>2, <3>1
  <2>7. ASSUME NEW f \in Fetches,
               \/ Service!Give(f) \/ Service!Keep(f)
               \/ Service!Reuse(f) \/ Service!Stop(f)
        PROVE  Kept'
    <3>1. CASE Service!Give(f)
      <4>1. /\ R[f] = "open" /\ G' = [G EXCEPT ![f] = Listed0]
            /\ UNCHANGED <<Listed0, Cached0, O, R, lost, T>>
        BY <3>1 DEF Service!Give
      <4> HIDE DEF O, R, G, T, Listed0, Cached0
      <4> QED
        BY <2>1, <2>2, <4>1
    <3>2. CASE Service!Keep(f)
      <4>1. /\ R[f] = "open" /\ G[f] # <<>> /\ Cached0' = G[f]
            /\ R' = [R EXCEPT ![f] = "ready"]
            /\ UNCHANGED <<Listed0, O, G, lost, T>>
        BY <3>2 DEF Service!Keep
      <4> HIDE DEF O, R, G, T, Listed0, Cached0
      <4> QED
        BY <2>1, <2>2, <4>1
    <3>3. CASE Service!Reuse(f) \/ Service!Stop(f)
      <4>1. /\ R[f] = "open"
            /\ \/ R' = [R EXCEPT ![f] = "ready"] /\ Cached0 # <<>>
               \/ R' = [R EXCEPT ![f] = "stopped"]
            /\ UNCHANGED <<Listed0, Cached0, O, G, lost, T>>
        BY <3>3 DEF Service!Reuse, Service!Stop
      <4> HIDE DEF O, R, G, T, Listed0, Cached0
      <4> QED
        BY <2>1, <2>2, <4>1
    <3> QED
      BY <2>7, <3>1, <3>2, <3>3
  <2>8. ASSUME UNCHANGED Service!serviceVars
        PROVE  Kept'
    <3>1. UNCHANGED <<Listed0, Cached0, O, R, G, lost, T>>
      BY <2>8 DEF Service!serviceVars
    <3> HIDE DEF O, R, G, T, Listed0, Cached0
    <3> QED
      BY <2>2, <3>1
  <2> QED
    BY <2>3, <2>4, <2>5, <2>6, <2>7, <2>8 DEF Service!ServiceNext
<1> QED
  BY <1>1, <1>2, PTL DEF ServesModels, Service!ServiceSpec

\* Of the running catalog: a model is listed from the first pull that is done, the
\* cache holds what the catalog gave, whole, to a launch, a worker is ready only
\* with a model, and a command reports the truth unless it was cut off.
THEOREM CatalogKeepsPromises ==
  ASSUME ~Overlap
  PROVE  PullSpec => [](/\ Service!ListedSinceDone /\ Service!CachedWasGiven
                        /\ Service!ReadyHasModel /\ Service!ReportsAreTrue)
<1>1. Promises => /\ Service!ListedSinceDone /\ Service!CachedWasGiven
                  /\ Service!ReadyHasModel /\ Service!ReportsAreTrue
  BY DEF Promises
<1> QED
  BY <1>1, CatalogServes, PromisesFollow, PTL
============================================================================
