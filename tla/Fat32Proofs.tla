----------------------------- MODULE Fat32Proofs -----------------------------
(***************************************************************************)
(* Theorems about the FAT32 driver of Fat32, for every size of the FAT and *)
(* of the tables, every set of names, payloads and lengths, and wherever   *)
(* the power is allowed to fail.                                           *)
(***************************************************************************)
EXTENDS Fat32Properties, TLAPS

(***************************************************************************)
(* What the operators on tables and on the FAT return.                     *)
(***************************************************************************)

\* The root's cluster is a cluster, and the ranges nest.
LEMMA Ranges ==
    /\ ROOT_CLUSTER_NUMBER \in Cluster /\ Cluster \subseteq Cell
    /\ 0 \in Cell /\ 1 \in Cell /\ 0 \in Slot
    /\ Cell \subseteq FatValue /\ StrayWords \subseteq FatValue
    /\ FAT32_FAT_END_OF_FILE \in FatValue /\ FAT32_FAT_END_OF_FILE \notin Cell
    /\ FAT32_FAT_EMPTY_ENTRY \in FatValue
BY SizeAssumption, SlotsAssumption, StrayAssumption
   DEF Cell, Cluster, FatValue, Slot, ROOT_CLUSTER_NUMBER, CLUSTER_0_VALUE,
       FAT32_FAT_END_OF_FILE, FAT32_FAT_EMPTY_ENTRY

\* What is empty has its type.
LEMMA EmptyTypes ==
    /\ EmptyTable \in Table
    /\ EmptyFat \in [Cell -> FatValue]
    /\ NoCall \in Calls
<1>1. EmptyTable \in Table
  BY DEF EmptyTable, Table
<1>2. EmptyFat \in [Cell -> FatValue]
  BY Ranges DEF EmptyFat
<1>3. NoCall \in Calls
  BY <1>1, Ranges, StrayAssumption DEF NoCall, Calls, FAT32_FAT_EMPTY_ENTRY
<1>4. QED
  BY <1>1, <1>2, <1>3

\* init_directory_table makes a table.
LEMMA NewTableType ==
    ASSUME NEW n \in Names \cup {RootName}, NEW c \in Cluster
    PROVE  NewTable(n, c) \in Table
BY EmptyTypes, Ranges DEF NewTable, Table, UsedEntry

\* The clusters write() collects are free ones, as many as it asked for.
LEMMA AllocationType ==
    ASSUME NEW f, NEW n \in Nat, NEW q \in Allocation(f, n)
    PROVE  /\ q \in Seq(Cluster) /\ Len(q) = n /\ DOMAIN q = 1 .. n
           /\ \A i \in 1 .. n : q[i] \in Cluster /\ f[q[i]] = FAT32_FAT_EMPTY_ENTRY
<1>1. q \in [1 .. n -> Free(f)]
  BY DEF Allocation
<1>2. Free(f) \subseteq Cluster
  BY DEF Free
<1>3. q \in Seq(Cluster) /\ Len(q) = n /\ DOMAIN q = 1 .. n
  BY <1>1, <1>2
<1>4. \A i \in 1 .. n : q[i] \in Free(f)
  BY <1>1
<1>5. QED
  BY <1>3, <1>4 DEF Free

\* Linking them leaves a FAT.
LEMMA LinkedType ==
    ASSUME NEW f \in [Cell -> FatValue], NEW n \in Nat, NEW q \in Allocation(f, n)
    PROVE  Linked(f, q) \in [Cell -> FatValue]
<1>1. /\ DOMAIN q = 1 .. n /\ Len(q) = n
      /\ \A i \in 1 .. n : q[i] \in Cluster
  BY AllocationType
<1>2. ASSUME NEW c \in Cell, NEW i \in DOMAIN q
      PROVE  (IF i = Len(q) THEN FAT32_FAT_END_OF_FILE ELSE q[i + 1]) \in FatValue
  <2>1. CASE i = Len(q)
    BY <2>1, Ranges
  <2>2. CASE i # Len(q)
    <3>1. i + 1 \in 1 .. n
      BY <1>1, <2>2
    <3>2. QED
      BY <3>1, <2>2, <1>1, Ranges
  <2>3. QED
    BY <2>1, <2>2
<1>3. ASSUME NEW c \in Cell
      PROVE  Linked(f, q)[c] \in FatValue
  <2>1. CASE \E i \in DOMAIN q : q[i] = c
    <3>1. PICK i \in DOMAIN q : i = CHOOSE j \in DOMAIN q : q[j] = c
      BY <2>1
    <3>2. QED
      BY <2>1, <3>1, <1>2 DEF Linked
  <2>2. CASE ~ \E i \in DOMAIN q : q[i] = c
    BY <2>2 DEF Linked
  <2>3. QED
    BY <2>1, <2>2
<1>4. QED
  BY <1>3 DEF Linked
\* The directories of a tree of tables are clusters.
LEMMA DirectoriesType == \A t : Directories(t) \subseteq Cluster
BY DEF Directories, Below

(***************************************************************************)
(* Type correctness.  TypeOK alone is not inductive: the steps that write  *)
(* a new table or a block need to know what the call has prepared.         *)
(***************************************************************************)
CallOK ==
    /\ pc = "new_table" => /\ call.chain[1] \in Cluster
                           /\ call.parent[call.slot] # FreeEntry
    /\ pc = "content" => call.payload \in Payloads \X Nat
TypeInv == TypeOK /\ CallOK

\* The answers of calls that hand no data over are answers.
LEMMA AnswerType ==
    \A code \in -1 .. Pending :
       Answer(code) \in [code : -1 .. Pending, blocks : Seq(Block), listed : {0} \cup Cluster]
BY DEF Answer, Pending

\* A call that returns at once keeps the types.
LEMMA ReplyType ==
    ASSUME TypeInv, pc = "idle",
           NEW a \in [code : -1 .. Pending, blocks : Seq(Block), listed : {0} \cup Cluster],
           Reply(a)
    PROVE  TypeInv'
BY DEF TypeInv, TypeOK, CallOK, Reply, disk

\* The types hold when the machine is first switched on.
LEMMA TypeInit == Init => TypeInv
<1> SUFFICES ASSUME Init PROVE TypeInv
  OBVIOUS
<1>1. NoBlock \in Block
  BY DEF Block
<1>2. Answer(Pending) \in [code : -1 .. Pending, blocks : Seq(Block), listed : {0} \cup Cluster]
  BY AnswerType DEF Pending
<1>3. QED
  BY <1>1, <1>2, EmptyTypes DEF Init, TypeInv, TypeOK, CallOK, Phases

\* They survive the loss of power, the boot and the format of the disk.
LEMMA TypePower ==
    ASSUME TypeInv, MountSigned \/ SignDisk \/ FormatFat \/ FormatRoot \/ PowerFails
    PROVE  TypeInv'
<1> USE DEF TypeInv, TypeOK, CallOK, Phases, disk
<1>1. CASE MountSigned
  BY <1>1 DEF MountSigned
<1>2. CASE SignDisk
  BY <1>2, Ranges DEF SignDisk, FatValue
<1>3. CASE FormatFat
  BY <1>3 DEF FormatFat
<1>4. CASE FormatRoot
  <2>1. NewTable(RootName, ROOT_CLUSTER_NUMBER) \in Table
    BY NewTableType, Ranges
  <2>2. NoBlock \in Block
    BY DEF Block
  <2>3. QED
    BY <1>4, <2>1, <2>2, Ranges DEF FormatRoot
<1>5. CASE PowerFails
  <2>1. \A n : Torn(diskFat, fat, n) \in [Cell -> FatValue]
    BY DEF Torn
  <2>2. QED
    BY <1>5, <2>1, EmptyTypes, AnswerType DEF PowerFails, Pending
<1>6. QED
  BY <1>1, <1>2, <1>3, <1>4, <1>5

(***************************************************************************)
(* Type correctness of the calls that are made.                            *)
(***************************************************************************)

\* Reads return an answer and change nothing.
LEMMA TypeRead ==
    ASSUME TypeInv,
           NEW d \in Cluster, NEW n, NEW size \in Nat,
           ReadDirectory(d, n, size) \/ Read(d, n, size)
    PROVE  TypeInv'
<1> DEFINE Answers == [code : -1 .. Pending, blocks : Seq(Block), listed : {0} \cup Cluster]
<1>1. pc = "idle"
  BY DEF ReadDirectory, Read
<1>2. table[d] \in Table
  BY <1>1 DEF TypeInv, TypeOK
<1>3. \A code \in -1 .. Pending : Answer(code) \in Answers
  BY AnswerType
<1>4. \A code \in {-1, 0, 1, 2, 3} : Answer(code) \in Answers
  BY <1>3 DEF Pending
<1>5. CASE ReadDirectory(d, n, size)
  <2>1. CASE \E a \in Answers : Reply(a)
    BY <2>1, <1>1, ReplyType
  <2>2. CASE \E s \in Slot : /\ FirstFolder(table[d], n, s)
                             /\ Reply([Answer(0) EXCEPT !.listed = table[d][s].cluster])
    <3>1. PICK s \in Slot : /\ FirstFolder(table[d], n, s)
                            /\ Reply([Answer(0) EXCEPT !.listed = table[d][s].cluster])
      BY <2>2
    <3>2. table[d][s].attribute = "dir" /\ table[d][s] \in UsedEntry \cup {FreeEntry}
      BY <3>1, <1>2 DEF FirstFolder, Folders, Table
    <3>3. table[d][s].cluster \in Cluster
      BY <3>2 DEF UsedEntry, FreeEntry
    <3>4. [Answer(0) EXCEPT !.listed = table[d][s].cluster] \in Answers
      BY <3>3, <1>4
    <3>5. QED
      BY <3>1, <3>4, <1>1, ReplyType
  <2>3. QED
    BY <1>5, <2>1, <2>2, <1>4 DEF ReadDirectory
<1>6. CASE Read(d, n, size)
  <2>1. CASE \E a \in Answers : Reply(a)
    BY <2>1, <1>1, ReplyType
  <2>2. ASSUME NEW s \in Slot, ReadChain(table[d][s].cluster, size)
        PROVE  TypeInv'
    <3>1. PICK stray \in StrayWords :
             LET q == Chain(fat, table[d][s].cluster, stray)
                 b == [k \in 1 .. size |-> IF k <= Len(q) THEN BlockAt(q[k]) ELSE NoBlock]
             IN  \/ Reply(Answer(2))
                 \/ Reply([Answer(0) EXCEPT !.blocks = b])
                 \/ pc' = "lost" /\ out' = Answer(Pending) /\ UNCHANGED <<disk, fat, call>>
      BY <2>2 DEF ReadChain
    <3> DEFINE q == Chain(fat, table[d][s].cluster, stray)
               b == [k \in 1 .. size |-> IF k <= Len(q) THEN BlockAt(q[k]) ELSE NoBlock]
    <3>2. \A c : BlockAt(c) \in Block
      BY DEF TypeInv, TypeOK, BlockAt, Block
    <3>3. b \in Seq(Block)
      <4>1. NoBlock \in Block
        BY DEF Block
      <4>2. \A k \in 1 .. size : b[k] \in Block
        BY <4>1, <3>2
      <4>3. b \in [1 .. size -> Block]
        BY <4>2
      <4>4. QED
        BY <4>3
    <3>4. [Answer(0) EXCEPT !.blocks = b] \in Answers
      <4> HIDE DEF b
      <4>1. QED
        BY <3>3, <1>4
    <3>5. CASE Reply(Answer(2)) \/ Reply([Answer(0) EXCEPT !.blocks = b])
      BY <3>5, <3>4, <1>4, <2>1
    <3>6. CASE pc' = "lost" /\ out' = Answer(Pending) /\ UNCHANGED <<disk, fat, call>>
      <4>1. Answer(Pending) \in Answers
        BY <1>3 DEF Pending
      <4>2. QED
        BY <3>6, <4>1 DEF TypeInv, TypeOK, CallOK, Phases, disk
    <3>7. QED
      BY <3>1, <3>5, <3>6
  <2>3. QED
    BY <1>6, <2>1, <2>2, <1>4 DEF Read
<1>7. QED
  BY <1>5, <1>6

\* A request that is entered leaves the disk alone and has no answer yet.
LEMMA EnteredType ==
    ASSUME TypeInv, NEW f \in [Cell -> FatValue], NEW c \in Calls,
           fat' = f, Enter(c), pc' \in Phases, UNCHANGED disk
    PROVE  TypeOK'
<1>1. Answer(Pending) \in [code : -1 .. Pending, blocks : Seq(Block), listed : {0} \cup Cluster]
  BY AnswerType DEF Pending
<1>2. QED
  BY <1>1 DEF TypeInv, TypeOK, Enter, disk

\* mkdir: refused, or entered with a cluster and an entry for its name.
LEMMA TypeMakeDirectory ==
    ASSUME TypeInv, pc = "idle",
           NEW d \in Cluster, NEW n \in Names, MakeDirectory(d, n)
    PROVE  TypeInv'
<1>1. table[d] \in Table /\ Answer(1) \in
        [code : -1 .. Pending, blocks : Seq(Block), listed : {0} \cup Cluster]
  BY AnswerType DEF TypeInv, TypeOK, Pending
<1>2. CASE Reply(Answer(1))
  BY <1>2, <1>1, ReplyType
<1>3. ASSUME NEW q \in Allocation(fat, 1),
             fat' = [fat EXCEPT ![q[1]] = FAT32_FAT_END_OF_FILE],
             out' = Answer(1), UNCHANGED <<disk, pc, call>>
      PROVE  TypeInv'
  BY <1>3, <1>1, Ranges DEF TypeInv, TypeOK, CallOK, disk
<1>4. ASSUME NEW q \in Allocation(fat, 1), NEW s \in Slot,
             fat' = [fat EXCEPT ![q[1]] = FAT32_FAT_END_OF_FILE],
             Enter([NoCall EXCEPT
                       !.op = "mkdir", !.dir = d, !.slot = s, !.chain = q,
                       !.parent = [table[d] EXCEPT ![s] = Entry(n, "dir", q[1], 0)]]),
             pc' = "new_table", UNCHANGED disk
      PROVE  TypeInv'
  <2> DEFINE t == [table[d] EXCEPT ![s] = Entry(n, "dir", q[1], 0)]
             c == [NoCall EXCEPT !.op = "mkdir", !.dir = d, !.slot = s, !.chain = q, !.parent = t]
  <2>1. q \in Seq(Cluster) /\ q[1] \in Cluster
    <3>1. 1 \in Nat /\ 1 \in 1 .. 1
      OBVIOUS
    <3>2. QED
      BY <3>1, AllocationType
  <2>2. Entry(n, "dir", q[1], 0) \in UsedEntry
    BY <2>1 DEF Entry, UsedEntry
  <2>3. t \in Table /\ t[s] = Entry(n, "dir", q[1], 0)
    BY <2>2, <1>1 DEF Table
  <2>4. c \in Calls /\ c.chain = q /\ c.parent = t /\ c.slot = s
    <3>1. d \in Cell
      BY Ranges
    <3>2. QED
      BY <2>1, <2>3, <3>1, EmptyTypes DEF NoCall, Calls
  <2>5. fat' \in [Cell -> FatValue]
    BY <1>4, Ranges DEF TypeInv, TypeOK
  <2>6. TypeOK'
    BY <1>4, <2>4, <2>5, EnteredType DEF Phases
  <2>7. Entry(n, "dir", q[1], 0) # FreeEntry
    BY DEF Entry, FreeEntry
  <2>8. call' = c
    BY <1>4 DEF Enter
  <2>9. call'.chain[1] \in Cluster /\ call'.parent[call'.slot] # FreeEntry
    <3> HIDE DEF c, t
    <3>1. QED
      BY <2>1, <2>3, <2>4, <2>7, <2>8
  <2>10. QED
    BY <1>4, <2>6, <2>9 DEF TypeInv, CallOK
<1>5. QED
  BY <1>2, <1>3, <1>4 DEF MakeDirectory

\* A new file: refused, or entered with its chain, its entry and its first block.
LEMMA TypeMakeFile ==
    ASSUME TypeInv, pc = "idle",
           NEW d \in Cluster, NEW n \in Names, NEW size \in Nat \ {0}, NEW p \in Payloads,
           MakeFile(d, n, size, p)
    PROVE  TypeInv'
<1>1. table[d] \in Table /\ Answer(1) \in
        [code : -1 .. Pending, blocks : Seq(Block), listed : {0} \cup Cluster]
  BY AnswerType DEF TypeInv, TypeOK, Pending
<1>2. CASE Reply(Answer(1))
  BY <1>2, <1>1, ReplyType
<1>3. ASSUME NEW q \in Allocation(fat, size), NEW s \in Slot,
             fat' = Linked(fat, q),
             Enter([NoCall EXCEPT
                !.op = "file", !.dir = d, !.slot = s, !.chain = q, !.payload = <<p, 1>>,
                !.parent = [table[d] EXCEPT ![s] = Entry(n, "file", q[1], size)]]),
             pc' = "content", UNCHANGED disk
      PROVE  TypeInv'
  <2> DEFINE t == [table[d] EXCEPT ![s] = Entry(n, "file", q[1], size)]
             c == [NoCall EXCEPT !.op = "file", !.dir = d, !.slot = s, !.chain = q,
                                 !.payload = <<p, 1>>, !.parent = t]
  <2>1. q \in Seq(Cluster) /\ q[1] \in Cluster
    BY AllocationType
  <2>2. Entry(n, "file", q[1], size) \in UsedEntry
    BY <2>1 DEF Entry, UsedEntry
  <2>3. t \in Table
    BY <2>2, <1>1 DEF Table
  <2>4. c \in Calls /\ c.payload = <<p, 1>>
    <3>1. d \in Cell
      BY Ranges
    <3>2. <<p, 1>> \in Payloads \X Nat
      OBVIOUS
    <3>3. QED
      BY <2>1, <2>3, <3>1, <3>2, EmptyTypes DEF NoCall, Calls
  <2>5. fat' \in [Cell -> FatValue]
    BY <1>3, LinkedType DEF TypeInv, TypeOK
  <2>6. TypeOK'
    BY <1>3, <2>4, <2>5, EnteredType DEF Phases
  <2>7. call' = c
    BY <1>3 DEF Enter
  <2>8. call'.payload \in Payloads \X Nat
    BY <2>4, <2>7
  <2>9. QED
    BY <1>3, <2>6, <2>8 DEF TypeInv, CallOK
<1>4. QED
  BY <1>2, <1>3 DEF MakeFile

\* A write is refused, or it is a mkdir or a new file.
LEMMA TypeWrite ==
    ASSUME TypeInv,
           NEW d \in Cluster \cup {0}, NEW n \in Names \cup {NoName},
           NEW size \in {0} \cup Lengths, NEW p \in Payloads, Write(d, n, size, p)
    PROVE  TypeInv'
<1>1. pc = "idle"
  BY DEF Write
<1>2. CASE Reply(Answer(-1)) \/ Reply(Answer(2))
  BY <1>1, <1>2, AnswerType, ReplyType DEF Pending
<1>3. CASE n # NoName /\ d >= ROOT_CLUSTER_NUMBER
  <2>1. d \in Cluster /\ n \in Names
    BY <1>3 DEF ROOT_CLUSTER_NUMBER
  <2>2. CASE size = 0 /\ MakeDirectory(d, n)
    BY <2>1, <2>2, <1>1, TypeMakeDirectory
  <2>3. CASE size # 0 /\ MakeFile(d, n, size, p)
    BY <2>1, <2>3, <1>1, LengthsAssumption, TypeMakeFile
  <2>4. QED
    BY <1>3, <1>2, <2>2, <2>3 DEF Write
<1>4. QED
  BY <1>2, <1>3 DEF Write

\* A delete is refused, or it is entered with the entry's cluster.
LEMMA TypeDelete ==
    ASSUME TypeInv,
           NEW d \in Cluster, NEW n \in Names \cup {NoName}, Delete(d, n)
    PROVE  TypeInv'
<1>1. pc = "idle" /\ table[d] \in Table
  BY DEF Delete, TypeInv, TypeOK
<1>2. CASE Reply(Answer(-1)) \/ Reply(Answer(2))
  BY <1>1, <1>2, AnswerType, ReplyType DEF Pending
<1>3. ASSUME NEW s \in Slot, NEW stray \in StrayWords, NEW next \in {"erase_dir", "erase"},
             table[d][s] \in UsedEntry, Remove(d, s, stray, next)
      PROVE  TypeInv'
  <2> DEFINE t == [table[d] EXCEPT ![s] = FreeEntry]
             c == [NoCall EXCEPT !.op = "delete", !.dir = d, !.slot = s, !.stray = stray,
                                 !.cluster = table[d][s].cluster, !.parent = t]
  <2>1. t \in Table
    BY <1>1 DEF Table
  <2>2. table[d][s].cluster \in FatValue /\ d \in Cell
    BY <1>1, <1>3, Ranges DEF UsedEntry
  <2>3. c \in Calls
    BY <2>1, <2>2, EmptyTypes DEF NoCall, Calls
  <2>4. TypeOK'
    BY <1>3, <2>3, EnteredType DEF Remove, Phases, disk, TypeInv, TypeOK
  <2>5. QED
    BY <1>3, <2>4 DEF TypeInv, CallOK, Remove
<1>4. ASSUME NEW s \in Slot, table[d][s].attribute \in {"dir", "file"}
      PROVE  table[d][s] \in UsedEntry
  BY <1>1, <1>4 DEF Table, FreeEntry
<1>5. QED
  BY <1>2, <1>3, <1>4 DEF Delete

\* The disk writes of a call keep the types.
LEMMA TypeStep ==
    ASSUME TypeInv, Step
    PROVE  TypeInv'
<1> USE DEF TypeInv, TypeOK, CallOK, Phases
<1>1. CASE FormatFat \/ FormatRoot
  BY <1>1, TypePower
<1>2. CASE WriteNewTable
  <2>1. call.parent[call.slot].name \in Names \cup {RootName}
    BY <1>2 DEF WriteNewTable, Calls, Table, UsedEntry
  <2>2. NewTable(call.parent[call.slot].name, call.chain[1]) \in Table
    BY <1>2, <2>1, NewTableType DEF WriteNewTable
  <2>3. NoBlock \in Block
    BY DEF Block
  <2>4. QED
    BY <1>2, <2>2, <2>3 DEF WriteNewTable, PutTable
<1>3. CASE WriteContent
  <2> DEFINE i == call.payload[2]
             more == [call EXCEPT !.payload[2] = i + 1]
  <2>1. call.payload \in Payloads \X Nat /\ pc' \in {"content", "flush_fat"}
    BY <1>3 DEF WriteContent
  <2>2. call.payload \in Block
    BY <2>1 DEF Block
  <2>3. more \in Calls /\ more.payload \in Payloads \X Nat
    BY <2>1 DEF Calls
  <2>4. call' \in Calls /\ call'.payload \in Payloads \X Nat
    BY <1>3, <2>1, <2>3 DEF WriteContent
  <2>5. table' \in [Cluster -> Table] /\ data' \in [Cluster -> Block]
    BY <1>3, <2>2, EmptyTypes DEF WriteContent, PutBlock
  <2>6. QED
    BY <1>3, <2>1, <2>4, <2>5 DEF WriteContent
<1>4. CASE FlushFat
  BY <1>4 DEF FlushFat
<1>5. CASE FlushParent
  <2>1. NoBlock \in Block
    BY DEF Block
  <2>2. call.parent \in Table
    BY DEF Calls
  <2>3. Answer(0) \in [code : -1 .. Pending, blocks : Seq(Block), listed : {0} \cup Cluster]
    BY AnswerType DEF Pending
  <2>4. QED
    BY <1>5, <2>1, <2>2, <2>3, EmptyTypes DEF FlushParent, PutTable, Return
<1>6. ASSUME NEW c, Zero(c)
      PROVE  /\ signature' \in BOOLEAN /\ diskFat' \in [Cell -> FatValue]
             /\ table' \in [Cluster -> Table] /\ data' \in [Cluster -> Block]
  <2>1. NoBlock \in Block
    BY DEF Block
  <2>2. QED
    BY <1>6, <2>1, EmptyTypes DEF Zero
<1>7. \A c : Cleared(fat, c) \in [Cell -> FatValue]
  BY Ranges DEF Cleared
<1>8. CASE EraseDirectory
  BY <1>8, <1>6, <1>7 DEF EraseDirectory
<1>9. CASE EraseCluster
  <2> DEFINE next  == Lookup(fat, call.cluster, call.stray)
             stray == ClearedStray(call.cluster)
  <2>1. next \in FatValue /\ stray \in StrayWords
    BY Ranges, StrayAssumption DEF Lookup, ClearedStray, Calls
  <2>2. [call EXCEPT !.cluster = next, !.stray = stray] \in Calls
    BY <2>1 DEF Calls
  <2>3. QED
    BY <1>9, <1>6, <1>7, <2>2 DEF EraseCluster
<1>10. CASE EraseLast
  BY <1>10, <1>6, <1>7 DEF EraseLast
<1>11. QED
  BY <1>1, <1>2, <1>3, <1>4, <1>5, <1>8, <1>9, <1>10 DEF Step

\* A call with any cluster for the directory it names: the driver does not ask
\* whether there is one.
AnyRequest ==
    \/ \E d \in Cluster, n \in Names \cup {NoName, RootName}, size \in Nat :
          ReadDirectory(d, n, size) \/ Read(d, n, size)
    \/ \E d \in Cluster \cup {0}, n \in Names \cup {NoName},
          size \in {0} \cup Lengths, p \in Payloads : Write(d, n, size, p)
    \/ \E d \in Cluster, n \in Names \cup {NoName} : Delete(d, n)

\* The requests of processes are such calls.
LEMMA RequestIsAny == Request => AnyRequest
<1>1. {0} \cup Lengths \subseteq Nat /\ {0, 1} \subseteq Nat
  BY LengthsAssumption
<1>2. QED
  BY <1>1, DirectoriesType DEF Request, AnyRequest

\* Every request keeps the types.
LEMMA TypeRequest ==
    ASSUME TypeInv, AnyRequest
    PROVE  TypeInv'
BY TypeRead, TypeWrite, TypeDelete DEF AnyRequest

\* The types are kept by every step.
LEMMA TypeNext == TypeInv /\ [Next]_vars => TypeInv'
<1> SUFFICES ASSUME TypeInv, [Next]_vars PROVE TypeInv'
  OBVIOUS
<1>1. CASE MountSigned \/ SignDisk \/ PowerFails
  BY <1>1, TypePower
<1>2. CASE Request
  BY <1>2, RequestIsAny, TypeRequest
<1>3. CASE Step
  BY <1>3, TypeStep
<1>4. CASE UNCHANGED vars
  BY <1>4 DEF vars, TypeInv, TypeOK, CallOK
<1>5. QED
  BY <1>1, <1>2, <1>3, <1>4 DEF Next

\* Every variable of the driver and of its disk keeps its type, whatever the
\* sizes, the names and the lengths are, and wherever the power fails.
THEOREM TypeCorrect == Spec => []TypeOK
<1>1. TypeInv => TypeOK
  BY DEF TypeInv
<1>2. QED
  BY TypeInit, TypeNext, <1>1, PTL DEF Spec

(***************************************************************************)
(* The FAT in memory and the FAT on the disk.  They differ while a call is *)
(* under way; FatFlushed is inductive once it says that they agree again   *)
(* from the write of the FAT on, and not only when the call has returned.  *)
(***************************************************************************)
Saved    == pc \in {"idle", "flush_parent", "format_root"} => Agree
SavedInv == TypeInv /\ Saved

\* A directory refused for the last cluster leaves the one difference allowed.
LEMMA SavedRefused ==
    ASSUME SavedInv, pc = "idle", NEW q \in Allocation(fat, 1),
           q[1] + 1 = CLUSTER_MAP_SIZE,
           fat' = [fat EXCEPT ![q[1]] = FAT32_FAT_END_OF_FILE],
           UNCHANGED <<disk, pc, call>>
    PROVE  Agree'
<1>1. q[1] \in Cluster /\ fat[q[1]] = FAT32_FAT_EMPTY_ENTRY
  <2>1. 1 \in Nat /\ 1 \in 1 .. 1
    OBVIOUS
  <2>2. QED
    BY <2>1, AllocationType
<1>2. Agree /\ fat \in [Cell -> FatValue] /\ diskFat' = diskFat
  BY DEF SavedInv, Saved, TypeInv, TypeOK, disk
<1>3. diskFat[q[1]] = FAT32_FAT_EMPTY_ENTRY
  BY <1>1, <1>2, Ranges DEF Agree, FAT32_FAT_END_OF_FILE, FAT32_FAT_EMPTY_ENTRY
<1>4. ASSUME NEW c \in Cell
      PROVE  \/ fat'[c] = diskFat'[c]
             \/ /\ c + 1 = CLUSTER_MAP_SIZE
                /\ fat'[c] = FAT32_FAT_END_OF_FILE
                /\ diskFat'[c] = FAT32_FAT_EMPTY_ENTRY
  <2>1. CASE c = q[1]
    BY <2>1, <1>2, <1>3
  <2>2. CASE c # q[1]
    BY <2>2, <1>2 DEF Agree
  <2>3. QED
    BY <2>1, <2>2
<1>5. QED
  BY <1>4 DEF Agree

\* Requests: those that return at once leave both FATs alone or are refused.
LEMMA SavedRequest ==
    ASSUME SavedInv, AnyRequest
    PROVE  Saved'
<1>1. ASSUME NEW d, NEW n, MakeDirectory(d, n), pc = "idle"
      PROVE  Saved'
  <2>1. CASE Reply(Answer(1))
    BY <2>1, <1>1 DEF Reply, SavedInv, Saved, Agree, disk
  <2>2. CASE pc' = "new_table"
    BY <2>2 DEF Saved
  <2>3. QED
    BY <1>1, <2>1, <2>2, SavedRefused DEF MakeDirectory, Saved
<1>2. ASSUME NEW d, NEW n, NEW size, NEW p, MakeFile(d, n, size, p), pc = "idle"
      PROVE  Saved'
  BY <1>2 DEF MakeFile, Reply, SavedInv, Saved, Agree, disk
<1>3. ASSUME NEW d, NEW n, NEW size, NEW p, Write(d, n, size, p)
      PROVE  Saved'
  BY <1>1, <1>2, <1>3 DEF Write, Reply, SavedInv, Saved, Agree, disk
<1>4. ASSUME NEW d, NEW n, Delete(d, n)
      PROVE  Saved'
  BY <1>4 DEF Delete, Remove, Reply, SavedInv, Saved, Agree, disk
<1>5. ASSUME NEW d, NEW n, NEW size, ReadDirectory(d, n, size)
      PROVE  Saved'
  BY <1>5 DEF ReadDirectory, Reply, SavedInv, Saved, Agree, disk
<1>6. ASSUME NEW d, NEW n, NEW size, Read(d, n, size)
      PROVE  Saved'
  BY <1>6 DEF Read, ReadChain, Reply, SavedInv, Saved, Agree, disk
<1>7. QED
  BY <1>3, <1>4, <1>5, <1>6 DEF AnyRequest

\* Disk writes: only the FAT's makes them agree, and the ones after it keep it.
LEMMA SavedStep ==
    ASSUME SavedInv, Step \/ MountSigned \/ SignDisk \/ PowerFails
    PROVE  Saved'
<1> USE DEF SavedInv, Saved, Agree
<1>1. CASE MountSigned \/ SignDisk \/ PowerFails
  BY <1>1 DEF MountSigned, SignDisk, PowerFails, disk
<1>2. CASE FormatFat \/ FormatRoot \/ FlushFat
  BY <1>2 DEF FormatFat, FormatRoot, FlushFat
<1>3. CASE FlushParent
  BY <1>3 DEF FlushParent, PutTable, Return
<1>4. CASE WriteNewTable \/ WriteContent
  BY <1>4 DEF WriteNewTable, WriteContent
<1>5. CASE EraseDirectory \/ EraseCluster \/ EraseLast
  BY <1>5 DEF EraseDirectory, EraseCluster, EraseLast
<1>6. QED
  BY <1>1, <1>2, <1>3, <1>4, <1>5 DEF Step

\* The FATs agree at first, and every step keeps it so.
LEMMA SavedInit == Init => SavedInv
BY TypeInit DEF SavedInv, Saved, Init

\* The FATs part only while a call has not written its own.
LEMMA SavedNext == SavedInv /\ [Next]_vars => SavedInv'
<1> SUFFICES ASSUME SavedInv, [Next]_vars PROVE SavedInv'
  OBVIOUS
<1>1. TypeInv'
  BY TypeNext DEF SavedInv
<1>2. CASE Request
  BY <1>1, <1>2, RequestIsAny, SavedRequest DEF SavedInv
<1>3. CASE Step \/ MountSigned \/ SignDisk \/ PowerFails
  BY <1>1, <1>3, SavedStep DEF SavedInv
<1>4. CASE UNCHANGED vars
  BY <1>1, <1>4 DEF vars, SavedInv, Saved, Agree
<1>5. QED
  BY <1>2, <1>3, <1>4 DEF Next

\* Whenever no call is under way the next boot would load the FAT the driver
\* has in memory, but for the cell of the last cluster after a refused mkdir.
THEOREM FatFlushedAlways == Spec => []FatFlushed
<1>1. SavedInv => FatFlushed
  BY DEF SavedInv, Saved, FatFlushed
<1>2. QED
  BY SavedInit, SavedNext, <1>1, PTL DEF Spec

(***************************************************************************)
(* What a write changes.  Until the FAT is written the clusters a call has *)
(* taken are free on the disk: they were free in memory, and Saved carries *)
(* that over.  A delete, a boot and an idle machine hold no such clusters. *)
(***************************************************************************)
Fresh ==
    /\ pc \in {"new_table", "content"} =>
          \A i \in DOMAIN call.chain : diskFat[call.chain[i]] = FAT32_FAT_EMPTY_ENTRY
    /\ pc = "new_table" => 1 \in DOMAIN call.chain
    /\ pc = "content" => call.payload[2] \in DOMAIN call.chain
    /\ pc \in {"erase_dir", "erase", "erase_last"} => call.op = "delete"
    /\ pc \in {"off", "idle", "lost", "format_fat", "format_root"} => call = NoCall
FreshInv == SavedInv /\ Fresh

\* The clusters a request takes are free on the disk.
LEMMA AllocationFresh ==
    ASSUME SavedInv, pc = "idle", NEW n \in Nat, NEW q \in Allocation(fat, n)
    PROVE  /\ DOMAIN q = 1 .. n
           /\ \A i \in DOMAIN q : diskFat[q[i]] = FAT32_FAT_EMPTY_ENTRY
<1>1. /\ DOMAIN q = 1 .. n
      /\ \A i \in 1 .. n : q[i] \in Cluster /\ fat[q[i]] = FAT32_FAT_EMPTY_ENTRY
  BY AllocationType
<1>2. Agree
  BY DEF SavedInv, Saved
<1>3. ASSUME NEW i \in 1 .. n
      PROVE  diskFat[q[i]] = FAT32_FAT_EMPTY_ENTRY
  BY <1>1, <1>2, Ranges DEF Agree, FAT32_FAT_END_OF_FILE, FAT32_FAT_EMPTY_ENTRY
<1>4. QED
  BY <1>1, <1>3

\* No call is under way at first.
LEMMA FreshInit == Init => FreshInv
BY SavedInit DEF FreshInv, Fresh, Init

\* A write that is entered has fresh clusters; no other request has any.
LEMMA FreshRequest ==
    ASSUME FreshInv, AnyRequest
    PROVE  Fresh'
<1>1. ASSUME NEW a, Reply(a), pc = "idle"
      PROVE  Fresh'
  BY <1>1 DEF FreshInv, Fresh, Reply
<1>2. ASSUME NEW d, NEW n, MakeDirectory(d, n), pc = "idle"
      PROVE  Fresh'
  <2>1. CASE Reply(Answer(1))
    BY <2>1, <1>1, <1>2
  <2>2. CASE UNCHANGED <<disk, pc, call>>
    BY <2>2, <1>2 DEF FreshInv, Fresh
  <2>3. ASSUME NEW q \in Allocation(fat, 1), NEW s, NEW t,
               Enter([NoCall EXCEPT !.op = "mkdir", !.dir = d, !.slot = s, !.chain = q,
                                    !.parent = t]),
               pc' = "new_table", UNCHANGED disk
        PROVE  Fresh'
    <3>1. call'.chain = q /\ diskFat' = diskFat
      BY <2>3 DEF Enter, NoCall, disk
    <3>2. 1 \in Nat /\ 1 \in 1 .. 1
      OBVIOUS
    <3>3. /\ 1 \in DOMAIN q
          /\ \A i \in DOMAIN q : diskFat[q[i]] = FAT32_FAT_EMPTY_ENTRY
      BY <1>2, <3>2, AllocationFresh DEF FreshInv
    <3>4. QED
      BY <2>3, <3>1, <3>3 DEF Fresh
  <2>4. QED
    BY <1>2, <2>1, <2>2, <2>3 DEF MakeDirectory
<1>3. ASSUME NEW d, NEW n, NEW size \in Nat \ {0}, NEW p, MakeFile(d, n, size, p), pc = "idle"
      PROVE  Fresh'
  <2>1. CASE Reply(Answer(1))
    BY <2>1, <1>1, <1>3
  <2>2. ASSUME NEW q \in Allocation(fat, size), NEW s, NEW t,
               Enter([NoCall EXCEPT !.op = "file", !.dir = d, !.slot = s, !.chain = q,
                                    !.payload = <<p, 1>>, !.parent = t]),
               pc' = "content", UNCHANGED disk
        PROVE  Fresh'
    <3>1. call'.chain = q /\ call'.payload[2] = 1 /\ diskFat' = diskFat
      BY <2>2 DEF Enter, NoCall, disk
    <3>2. /\ 1 \in DOMAIN q
          /\ \A i \in DOMAIN q : diskFat[q[i]] = FAT32_FAT_EMPTY_ENTRY
      BY <1>3, AllocationFresh DEF FreshInv
    <3>3. QED
      BY <2>2, <3>1, <3>2 DEF Fresh
  <2>3. QED
    BY <1>3, <2>1, <2>2 DEF MakeFile
<1>4. ASSUME NEW d, NEW n, NEW size \in {0} \cup Lengths, NEW p, Write(d, n, size, p)
      PROVE  Fresh'
  BY <1>1, <1>2, <1>3, <1>4, LengthsAssumption DEF Write
<1>5. ASSUME NEW d, NEW n, Delete(d, n)
      PROVE  Fresh'
  <2>1. ASSUME NEW s, NEW stray, NEW next \in {"erase_dir", "erase"}, Remove(d, s, stray, next)
        PROVE  Fresh'
    BY <2>1 DEF Remove, Enter, NoCall, Fresh
  <2>2. QED
    BY <1>1, <1>5, <2>1 DEF Delete
<1>6. ASSUME NEW d, NEW n, NEW size, ReadDirectory(d, n, size)
      PROVE  Fresh'
  BY <1>1, <1>6 DEF ReadDirectory
<1>7. ASSUME NEW d, NEW n, NEW size, Read(d, n, size)
      PROVE  Fresh'
  <2>1. CASE pc' = "lost" /\ UNCHANGED <<disk, fat, call>>
    BY <2>1, <1>7 DEF Read, FreshInv, Fresh
  <2>2. QED
    BY <1>1, <1>7, <2>1 DEF Read, ReadChain
<1>8. QED
  BY <1>4, <1>5, <1>6, <1>7 DEF AnyRequest

\* Every call leaves the driver with what it needs to know.
LEMMA AnyFresh == FreshInv /\ AnyRequest => FreshInv'
BY TypeRequest, SavedRequest, FreshRequest DEF FreshInv, SavedInv

\* The disk writes of a call stay within the clusters it has taken.
LEMMA FreshStep ==
    ASSUME FreshInv, Step \/ MountSigned \/ SignDisk \/ PowerFails
    PROVE  Fresh'
<1> USE DEF FreshInv, Fresh
<1>1. CASE MountSigned \/ SignDisk \/ PowerFails
  BY <1>1 DEF MountSigned, SignDisk, PowerFails, disk
<1>2. CASE FormatFat \/ FormatRoot \/ FlushFat \/ FlushParent
  BY <1>2 DEF FormatFat, FormatRoot, FlushFat, FlushParent, Return
<1>3. CASE WriteNewTable
  BY <1>3 DEF WriteNewTable
<1>4. CASE WriteContent
  <2> DEFINE i == call.payload[2]
  <2>1. call \in Calls /\ i \in DOMAIN call.chain /\ call.payload \in Payloads \X Nat
    BY <1>4 DEF WriteContent, SavedInv, TypeInv, TypeOK, CallOK
  <2>2. DOMAIN call.chain = 1 .. Len(call.chain) /\ Len(call.chain) \in Nat
    BY <2>1 DEF Calls
  <2>3. CASE i < Len(call.chain)
    <3>1. call' = [call EXCEPT !.payload[2] = i + 1] /\ pc' = "content" /\ diskFat' = diskFat
      BY <1>4, <2>3 DEF WriteContent
    <3>2. call'.chain = call.chain /\ call'.payload[2] = i + 1
      BY <3>1, <2>1 DEF Calls
    <3>3. i + 1 \in DOMAIN call.chain
      BY <2>1, <2>2, <2>3
    <3>4. QED
      BY <1>4, <3>1, <3>2, <3>3 DEF WriteContent
  <2>4. CASE ~(i < Len(call.chain))
    BY <1>4, <2>4 DEF WriteContent
  <2>5. QED
    BY <2>3, <2>4
<1>5. CASE EraseDirectory \/ EraseLast
  BY <1>5 DEF EraseDirectory, EraseLast
<1>6. CASE EraseCluster
  BY <1>6 DEF EraseCluster, SavedInv, TypeInv, TypeOK, Calls
<1>7. QED
  BY <1>1, <1>2, <1>3, <1>4, <1>5, <1>6 DEF Step

\* What a write has taken stays free on the disk until the FAT is written.
LEMMA FreshNext == FreshInv /\ [Next]_vars => FreshInv'
<1> SUFFICES ASSUME FreshInv, [Next]_vars PROVE FreshInv'
  OBVIOUS
<1>1. SavedInv'
  BY SavedNext DEF FreshInv
<1>2. CASE Request
  BY <1>1, <1>2, RequestIsAny, FreshRequest DEF FreshInv
<1>3. CASE Step \/ MountSigned \/ SignDisk \/ PowerFails
  BY <1>1, <1>3, FreshStep DEF FreshInv
<1>4. CASE UNCHANGED vars
  BY <1>1, <1>4 DEF vars, FreshInv, Fresh
<1>5. QED
  BY <1>2, <1>3, <1>4 DEF Next

\* What one step of a write may change on the disk.
LEMMA UntouchedStep ==
    ASSUME FreshInv, Next, call.op \in {"mkdir", "file"}, NEW c \in Cluster,
           diskFat[c] # FAT32_FAT_EMPTY_ENTRY,
           <<table'[c], data'[c]>> # <<table[c], data[c]>>
    PROVE  pc = "flush_parent" /\ c = call.dir
<1>1. call # NoCall
  BY DEF NoCall
<1>2. table \in [Cluster -> Table] /\ data \in [Cluster -> Block]
  BY DEF FreshInv, SavedInv, TypeInv, TypeOK
<1>3. pc \notin {"off", "idle", "lost", "format_fat", "format_root", "erase_dir", "erase", "erase_last"}
  BY <1>1 DEF FreshInv, Fresh
<1>4. ~Request
  BY <1>3 DEF Request, ReadDirectory, Read, Write, Delete
<1>5. CASE WriteNewTable
  BY <1>5, <1>2 DEF WriteNewTable, PutTable, FreshInv, Fresh
<1>6. CASE WriteContent
  BY <1>6, <1>2 DEF WriteContent, PutBlock, FreshInv, Fresh
<1>7. CASE FlushParent
  BY <1>7, <1>2 DEF FlushParent, PutTable
<1>8. CASE FlushFat \/ PowerFails
  BY <1>8 DEF FlushFat, PowerFails, disk
<1>9. QED
  BY <1>3, <1>4, <1>5, <1>6, <1>7, <1>8
     DEF Next, Step, MountSigned, SignDisk, FormatFat, FormatRoot,
         EraseDirectory, EraseCluster, EraseLast

\* Wherever the power is allowed to fail, a write leaves every cluster in use
\* on the disk as it is until its last disk write, which changes the parent's
\* table: a cut-off write is as if it had not been called, but for space.
THEOREM CommittedUntouchedAlways == Spec => CommittedUntouched
<1>1. FreshInv /\ [Next]_vars =>
        [call.op \in {"mkdir", "file"} =>
            \A c \in Cluster :
               diskFat[c] # FAT32_FAT_EMPTY_ENTRY /\ <<table'[c], data'[c]>> # <<table[c], data[c]>>
                  => pc = "flush_parent" /\ c = call.dir]_vars
  BY UntouchedStep
<1>2. QED
  BY FreshInit, FreshNext, <1>1, PTL DEF Spec, CommittedUntouched

=============================================================================
