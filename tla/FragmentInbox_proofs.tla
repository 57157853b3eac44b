------------------------- MODULE FragmentInbox_proofs -------------------------
(***************************************************************************)
(* Theorems about FragmentInbox for every set of fragments, threads and    *)
(* bounds: type correctness, no loss of accepted records, the refinement   *)
(* of DurableJournal, who holds a claimed fragment, and how many rows a    *)
(* record may get.                                                         *)
(***************************************************************************)
EXTENDS FragmentInbox, FiniteSetTheorems, TLAPS

USE InboxAssumption DEF Threads, Workers, Claimers, Importers, Lanes

\* Everything a file name, a queue or a thread refers to was written.
OnlyWritten ==
  /\ jsonl \cup processing \subseteq written
  /\ \A p \in Threads : todo[p] \cup held[p] \subseteq written
  /\ \A lane \in Lanes : \A i \in 1..Len(queue[lane]) : queue[lane][i] \in written

\* What the control point of an importing thread says about the database.
ImportProgress ==
  \A p \in Threads :
    /\ pc[p] # "importing" => done[p] = {}
    /\ \A x \in done[p] : TxnRecords(held[p], x[1], x[2]) \subseteq Stored
    /\ pc[p] = "unlinking" => \A f \in held[p] : Content[f] \subseteq Stored

IInv == TypeOK /\ OnlyWritten /\ ImportProgress /\ DeletedOnlyAfterImport

------------------------------------------------------------------------------
\* An insert changes only row counts of records, and keeps every stored record.
LEMMA InsertType ==
  ASSUME TypeOK, NEW S
  PROVE  /\ Insert(S) \in [Records -> Nat]
         /\ \A r \in Records : copies[r] > 0 => Insert(S)[r] > 0
         /\ \A r \in Records : r \in S => Insert(S)[r] > 0
BY DEF TypeOK, StoreTyped, Insert

\* The actions that can change the database leave every stored record in it.
LEMMA StoredGrows ==
  ASSUME TypeOK, [Next]_vars
  PROVE  Stored \subseteq Stored'
<1>1. ASSUME NEW S, copies' = Insert(S)
      PROVE  Stored \subseteq Stored'
  BY <1>1, InsertType DEF Stored, TypeOK, StoreTyped
<1>2. CASE UNCHANGED copies
  BY <1>2 DEF Stored
<1>3. ASSUME NEW p \in Threads, ImportGroup(p) \/ ImportFails(p)
      PROVE  Stored \subseteq Stored'
  BY <1>1, <1>2, <1>3 DEF ImportGroup, ImportFails
<1>4. QED
  BY <1>2, <1>3 DEF Next, vars, WriteLocal, ForceSync, ThreadStep, ListFragments,
     ClaimFragment, ReadFragment, ReadFails, ClaimDone, RecoverFragment, Dispatch,
     TakeBatch, ImportDone, UnlinkImported, ReturnFragment, Crash, StartInboxPoller

\* The transactions of a set of written fragments.
LEMMA TxnsType ==
  ASSUME NEW S \in SUBSET Fragments
  PROVE  Txns(S) \subseteq Lanes \X Nat
BY DEF Txns, Lane

LEMMA InitType == Init => TypeOK
BY DEF Init, TypeOK, StoreTyped, ThreadsTyped, QueuesTyped, NoFaults, PcValues, Rest,
   Slots

LEMMA NextStoreTyped == TypeOK /\ [Next]_vars => StoreTyped'
<1> SUFFICES ASSUME TypeOK, [Next]_vars PROVE StoreTyped'
  OBVIOUS
<1> USE DEF TypeOK, StoreTyped, ThreadsTyped, disk
<1>1. ASSUME NEW f \in Fragments, WriteLocal(f) PROVE StoreTyped'
  BY <1>1 DEF WriteLocal
<1>2. ASSUME NEW p \in Syncers, ForceSync(p) PROVE StoreTyped'
  BY <1>2 DEF ForceSync
<1>3. CASE Crash
  <2>1. /\ faults' = [faults EXCEPT !.crash = @ + 1] /\ up' = FALSE
        /\ UNCHANGED <<written, jsonl, processing, copies>>
    BY <1>3 DEF Crash
  <2>2. faults' \in [crash : Nat, import : Nat, read : Nat, sync : Nat]
    BY <2>1
  <2>3. QED
    BY <2>1, <2>2
<1>4. CASE StartInboxPoller
  BY <1>4 DEF StartInboxPoller
<1>5. ASSUME NEW p \in Threads, ThreadStep(p) PROVE StoreTyped'
  <2>1. CASE ListFragments(p) \/ ClaimDone(p) \/ Dispatch \/ TakeBatch(p) \/ ImportDone(p)
    BY <2>1 DEF ListFragments, ClaimDone, Dispatch, TakeBatch, ImportDone
  <2>2. CASE ClaimFragment(p)
    BY <2>2 DEF ClaimFragment, First
  <2>3. CASE ReadFragment(p)
    BY <2>3 DEF ReadFragment, First
  <2>4. CASE ReadFails(p)
    BY <2>4 DEF ReadFails, First
  <2>6. CASE RecoverFragment(p)
    BY <2>6 DEF RecoverFragment
  <2>9. CASE ImportGroup(p)
    BY <2>9, InsertType DEF ImportGroup
  <2>10. CASE ImportFails(p)
    <3>1. copies' \in [Records -> Nat]
      BY <2>10, InsertType DEF ImportFails
    <3>2. faults' \in [crash : Nat, import : Nat, read : Nat, sync : Nat]
      BY <2>10 DEF ImportFails
    <3>3. QED
      BY <2>10, <3>1, <3>2 DEF ImportFails
  <2>12. CASE UnlinkImported(p)
    BY <2>12 DEF UnlinkImported
  <2>13. CASE ReturnFragment(p)
    BY <2>13 DEF ReturnFragment
  <2>14. QED
    BY <1>5, <2>1, <2>2, <2>3, <2>4, <2>6, <2>9, <2>10, <2>12, <2>13 DEF ThreadStep
<1>6. CASE UNCHANGED vars
  BY <1>6 DEF vars
<1>7. QED
  BY <1>1, <1>2, <1>3, <1>4, <1>5, <1>6 DEF Next

LEMMA NextThreadsTyped == TypeOK /\ [Next]_vars => ThreadsTyped'
<1> SUFFICES ASSUME TypeOK, [Next]_vars PROVE ThreadsTyped'
  OBVIOUS
<1> USE DEF TypeOK, StoreTyped, ThreadsTyped, threads, PcValues, Rest
<1>1. ASSUME NEW f \in Fragments, WriteLocal(f) PROVE ThreadsTyped'
  BY <1>1 DEF WriteLocal
<1>2. ASSUME NEW p \in Syncers, ForceSync(p) PROVE ThreadsTyped'
  BY <1>2 DEF ForceSync
<1>3. CASE Crash
  BY <1>3 DEF Crash
<1>4. CASE StartInboxPoller
  BY <1>4 DEF StartInboxPoller
<1>5. ASSUME NEW p \in Threads, ThreadStep(p) PROVE ThreadsTyped'
  <2>1. CASE ListFragments(p)
    BY <2>1 DEF ListFragments, Batch
  <2>2. CASE ClaimFragment(p)
    BY <2>2 DEF ClaimFragment, First
  <2>3. CASE ReadFragment(p)
    BY <2>3 DEF ReadFragment, First
  <2>4. CASE ReadFails(p)
    BY <2>4 DEF ReadFails, First
  <2>5. CASE ClaimDone(p)
    BY <2>5 DEF ClaimDone
  <2>6. CASE RecoverFragment(p)
    BY <2>6 DEF RecoverFragment
  <2>7. CASE Dispatch
    <3>1. PICK f \in held[Scanner] :
             /\ held' = [held EXCEPT ![Scanner] = @ \ {f}]
             /\ pc' = IF held[Scanner] = {f} THEN [pc EXCEPT ![Scanner] = "listing"]
                      ELSE pc
      BY <2>7 DEF Dispatch
    <3>2. QED
      BY <2>7, <3>1 DEF Dispatch
  <2>8. CASE TakeBatch(p)
    <3>1. PICK n \in 1..BatchFiles :
             LET q == queue[LaneOf(p)] IN
             /\ n <= Len(q)
             /\ held' = [held EXCEPT ![p] = {q[i] : i \in 1..n}]
      BY <2>8 DEF TakeBatch
    <3>2. {queue[LaneOf(p)][i] : i \in 1..n} \subseteq Fragments
      BY <3>1 DEF QueuesTyped, LaneOf
    <3>3. QED
      BY <2>8, <3>1, <3>2 DEF TakeBatch
  <2>9. CASE ImportGroup(p)
    <3>1. PICK x \in NextTxn(p) : done' = [done EXCEPT ![p] = @ \cup {x}]
      BY <2>9 DEF ImportGroup
    <3>2. x \in Lanes \X Nat
      BY <3>1, TxnsType DEF NextTxn
    <3>3. QED
      BY <2>9, <3>1, <3>2 DEF ImportGroup
  <2>10. CASE ImportFails(p)
    BY <2>10 DEF ImportFails
  <2>11. CASE ImportDone(p)
    BY <2>11 DEF ImportDone
  <2>12. CASE UnlinkImported(p)
    BY <2>12 DEF UnlinkImported
  <2>13. CASE ReturnFragment(p)
    BY <2>13 DEF ReturnFragment
  <2>14. QED
    BY <1>5, <2>1, <2>2, <2>3, <2>4, <2>5, <2>6, <2>7, <2>8, <2>9, <2>10, <2>11,
       <2>12, <2>13 DEF ThreadStep
<1>6. CASE UNCHANGED vars
  BY <1>6 DEF vars
<1>7. QED
  BY <1>1, <1>2, <1>3, <1>4, <1>5, <1>6 DEF Next

\* The queues are the only variables whose bound rests on a guard: Dispatch
\* waits for a free slot.
LEMMA NextQueuesTyped == TypeOK /\ [Next]_vars => QueuesTyped'
<1> SUFFICES ASSUME TypeOK, [Next]_vars PROVE QueuesTyped'
  OBVIOUS
<1> USE DEF TypeOK, ThreadsTyped, QueuesTyped
<1>1. CASE UNCHANGED queue
  BY <1>1
<1>2. CASE Crash
  BY <1>2 DEF Crash, Slots
<1>3. CASE Dispatch
  <2>1. PICK f \in held[Scanner] :
           /\ Len(queue[Lane(f)]) < Slots(Lane(f))
           /\ queue' = [queue EXCEPT ![Lane(f)] = Append(@, f)]
    BY <1>3 DEF Dispatch
  <2>2. f \in Fragments /\ Lane(f) \in Lanes
    BY DEF Lane
  <2>3. Slots(Lane(f)) \in Nat
    BY DEF Slots
  <2>4. Append(queue[Lane(f)], f) \in Seq(Fragments)
        /\ Len(Append(queue[Lane(f)], f)) = Len(queue[Lane(f)]) + 1
    BY <2>2
  <2>5. QED
    BY <2>1, <2>2, <2>3, <2>4
<1>4. ASSUME NEW p \in Threads, TakeBatch(p) PROVE QueuesTyped'
  <2> DEFINE q == queue[LaneOf(p)]
  <2>1. PICK n \in 1..BatchFiles :
           n <= Len(q) /\ queue' = [queue EXCEPT ![LaneOf(p)] = SubSeq(q, n + 1, Len(q))]
    BY <1>4 DEF TakeBatch
  <2>2. LaneOf(p) \in Lanes
    BY DEF LaneOf
  <2>3. q \in Seq(Fragments) /\ Len(q) \in Nat /\ Len(q) <= Slots(LaneOf(p))
    BY <2>2
  <2>4. /\ SubSeq(q, n + 1, Len(q)) \in Seq(Fragments)
        /\ Len(SubSeq(q, n + 1, Len(q))) = Len(q) - n
    BY <2>1, <2>3
  <2>5. Len(q) - n <= Slots(LaneOf(p))
    BY <2>1, <2>3 DEF Slots
  <2>6. QED
    BY <2>1, <2>2, <2>4, <2>5
<1>5. QED
  BY <1>1, <1>2, <1>3, <1>4 DEF Next, vars, WriteLocal, ForceSync, ThreadStep,
     ListFragments, ClaimFragment, ReadFragment, ReadFails, ClaimDone, RecoverFragment,
     ImportGroup, ImportFails, ImportDone, UnlinkImported, ReturnFragment, StartInboxPoller

\* Every variable keeps its type, and neither queue grows beyond its maxsize.
THEOREM TypeCorrect == Spec => []TypeOK
<1>1. TypeOK /\ [Next]_vars => TypeOK'
  BY NextStoreTyped, NextThreadsTyped, NextQueuesTyped DEF TypeOK
<1>2. QED
  BY InitType, <1>1, PTL DEF Spec

------------------------------------------------------------------------------
LEMMA NextOnlyWritten == TypeOK /\ OnlyWritten /\ [Next]_vars => OnlyWritten'
<1> SUFFICES ASSUME TypeOK, OnlyWritten, [Next]_vars PROVE OnlyWritten'
  OBVIOUS
<1> USE DEF TypeOK, ThreadsTyped, OnlyWritten, disk, threads
<1>1. ASSUME NEW f \in Fragments, WriteLocal(f) PROVE OnlyWritten'
  BY <1>1 DEF WriteLocal
<1>2. ASSUME NEW s \in Syncers, ForceSync(s) PROVE OnlyWritten'
  BY <1>2 DEF ForceSync
<1>3. CASE Crash
  BY <1>3 DEF Crash
<1>4. CASE StartInboxPoller
  BY <1>4 DEF StartInboxPoller
<1>5. ASSUME NEW p \in Threads, ThreadStep(p) PROVE OnlyWritten'
  <2>1. CASE ListFragments(p)
    BY <2>1 DEF ListFragments, Batch
  <2>2. CASE ClaimFragment(p)
    BY <2>2 DEF ClaimFragment, First
  <2>3. CASE ReadFragment(p)
    BY <2>3 DEF ReadFragment, First
  <2>4. CASE ReadFails(p)
    BY <2>4 DEF ReadFails, First
  <2>5. CASE RecoverFragment(p)
    BY <2>5 DEF RecoverFragment
  <2>6. CASE Dispatch
    <3>1. PICK f \in held[Scanner] :
             /\ queue' = [queue EXCEPT ![Lane(f)] = Append(@, f)]
             /\ held' = [held EXCEPT ![Scanner] = @ \ {f}]
      BY <2>6 DEF Dispatch
    <3>2. f \in written /\ f \in Fragments /\ Lane(f) \in Lanes
      BY DEF Lane
    <3>3. queue[Lane(f)] \in Seq(Fragments)
      BY <3>2 DEF QueuesTyped
    <3>4. \A i \in 1..Len(Append(queue[Lane(f)], f)) :
            Append(queue[Lane(f)], f)[i] \in written
      BY <3>2, <3>3
    <3>5. \A lane \in Lanes : \A i \in 1..Len(queue'[lane]) : queue'[lane][i] \in written
      BY <3>1, <3>2, <3>4 DEF QueuesTyped
    <3>6. QED
      BY <2>6, <3>1, <3>5 DEF Dispatch
  <2>7. CASE TakeBatch(p)
    <3> DEFINE q == queue[LaneOf(p)]
    <3>1. PICK n \in 1..BatchFiles :
             /\ n <= Len(q)
             /\ held' = [held EXCEPT ![p] = {q[i] : i \in 1..n}]
             /\ queue' = [queue EXCEPT ![LaneOf(p)] = SubSeq(q, n + 1, Len(q))]
      BY <2>7 DEF TakeBatch
    <3>2. LaneOf(p) \in Lanes /\ q \in Seq(Fragments)
      BY DEF LaneOf, QueuesTyped
    <3>3. {q[i] : i \in 1..n} \subseteq written
      BY <3>1, <3>2
    <3>4. \A i \in 1..Len(SubSeq(q, n + 1, Len(q))) :
            SubSeq(q, n + 1, Len(q))[i] \in written
      BY <3>1, <3>2
    <3>5. \A lane \in Lanes : \A i \in 1..Len(queue'[lane]) : queue'[lane][i] \in written
      BY <3>1, <3>2, <3>4 DEF QueuesTyped
    <3>6. \A t \in Threads : todo'[t] \cup held'[t] \subseteq written
      BY <2>7, <3>1, <3>3 DEF TakeBatch
    <3>7. QED
      BY <2>7, <3>5, <3>6 DEF TakeBatch
  <2>8. CASE UnlinkImported(p)
    BY <2>8 DEF UnlinkImported
  <2>9. CASE ReturnFragment(p)
    BY <2>9 DEF ReturnFragment
  <2>10. CASE ClaimDone(p) \/ ImportGroup(p) \/ ImportFails(p) \/ ImportDone(p)
    BY <2>10 DEF ClaimDone, ImportGroup, ImportFails, ImportDone
  <2>11. QED
    BY <1>5, <2>1, <2>2, <2>3, <2>4, <2>5, <2>6, <2>7, <2>8, <2>9, <2>10 DEF ThreadStep
<1>6. CASE UNCHANGED vars
  BY <1>6 DEF vars
<1>7. QED
  BY <1>1, <1>2, <1>3, <1>4, <1>5, <1>6 DEF Next

\* When every transaction of a thread's batch is committed, so is every record
\* in the batch.
LEMMA BatchStored ==
  ASSUME NEW p \in Threads, Txns(held[p]) \subseteq done[p], held[p] \subseteq Fragments,
         \A x \in done[p] : TxnRecords(held[p], x[1], x[2]) \subseteq Stored
  PROVE  \A f \in held[p] : Content[f] \subseteq Stored
<1> SUFFICES ASSUME NEW f \in held[p], NEW r \in Content[f] PROVE r \in Stored
  OBVIOUS
<1>1. <<Lane(f), Txn[r]>> \in Txns(held[p])
  BY DEF Txns
<1>2. r \in TxnRecords(held[p], Lane(f), Txn[r])
  BY DEF TxnRecords
<1>3. QED
  BY <1>1, <1>2

LEMMA NextImportProgress ==
  TypeOK /\ ImportProgress /\ [Next]_vars => ImportProgress'
<1> SUFFICES ASSUME TypeOK, ImportProgress, [Next]_vars, NEW p \in Threads
             PROVE  /\ pc'[p] # "importing" => done'[p] = {}
                    /\ \A x \in done'[p] : TxnRecords(held'[p], x[1], x[2]) \subseteq Stored'
                    /\ pc'[p] = "unlinking" => \A f \in held'[p] : Content[f] \subseteq Stored'
  BY DEF ImportProgress, TxnRecords
<1> USE DEF TypeOK, ThreadsTyped, ImportProgress, threads
<1>1. Stored \subseteq Stored'
  BY StoredGrows
<1>2. CASE UNCHANGED <<pc[p], held[p], done[p]>>
  BY <1>1, <1>2
<1>3. CASE Crash
  BY <1>3 DEF Crash, Rest
<1>4. CASE ForceSync(p)
  BY <1>1, <1>4 DEF ForceSync
<1>5. CASE ThreadStep(p)
  <2>1. CASE \/ ListFragments(p) \/ ClaimFragment(p) \/ ReadFragment(p) \/ ReadFails(p)
             \/ ClaimDone(p) \/ RecoverFragment(p) \/ (p = Scanner /\ Dispatch) \/ TakeBatch(p)
    BY <1>1, <2>1 DEF ListFragments, ClaimFragment, ReadFragment, ReadFails, ClaimDone,
       RecoverFragment, Dispatch, TakeBatch, Rest
  <2>2. CASE ImportGroup(p)
    <3>1. PICK x \in NextTxn(p) :
             /\ copies' = Insert(TxnRecords(held[p], x[1], x[2]))
             /\ done' = [done EXCEPT ![p] = @ \cup {x}]
      BY <2>2 DEF ImportGroup
    <3>2. TxnRecords(held[p], x[1], x[2]) \subseteq Stored'
      BY <3>1, InsertType DEF TxnRecords, Stored
    <3>3. QED
      BY <1>1, <2>2, <3>1, <3>2 DEF ImportGroup
  <2>3. CASE ImportFails(p)
    BY <2>3 DEF ImportFails
  <2>4. CASE ImportDone(p)
    <3>1. \A f \in held[p] : Content[f] \subseteq Stored
      BY <2>4, BatchStored DEF ImportDone
    <3>2. QED
      BY <1>1, <2>4, <3>1 DEF ImportDone
  <2>5. CASE UnlinkImported(p)
    BY <1>1, <2>5 DEF UnlinkImported
  <2>6. CASE ReturnFragment(p)
    BY <1>1, <2>6 DEF ReturnFragment
  <2>7. QED
    BY <1>5, <2>1, <2>2, <2>3, <2>4, <2>5, <2>6 DEF ThreadStep
<1>6. ASSUME NEW t \in Threads, t # p, ThreadStep(t) \/ ForceSync(t)
      PROVE  UNCHANGED <<pc[p], held[p], done[p]>>
  BY <1>6 DEF ThreadStep, ForceSync, ListFragments, ClaimFragment, ReadFragment,
     ReadFails, ClaimDone, RecoverFragment, Dispatch, TakeBatch, ImportGroup, ImportFails,
     ImportDone, UnlinkImported, ReturnFragment
<1>7. QED
  BY <1>2, <1>3, <1>4, <1>5, <1>6 DEF Next, vars, WriteLocal, StartInboxPoller

LEMMA NextDeletedOnlyAfterImport ==
  IInv /\ [Next]_vars => DeletedOnlyAfterImport'
<1> SUFFICES ASSUME IInv, [Next]_vars PROVE DeletedOnlyAfterImport'
  OBVIOUS
<1> USE DEF IInv, DeletedOnlyAfterImport, disk
<1>1. Stored \subseteq Stored'
  BY StoredGrows
<1>2. CASE UNCHANGED disk
  BY <1>1, <1>2
<1>3. ASSUME NEW f \in Fragments, WriteLocal(f) PROVE DeletedOnlyAfterImport'
  BY <1>1, <1>3 DEF WriteLocal
<1>4. CASE StartInboxPoller
  BY <1>1, <1>4 DEF StartInboxPoller
<1>5. ASSUME NEW p \in Threads, ThreadStep(p) PROVE DeletedOnlyAfterImport'
  <2>1. CASE ClaimFragment(p)
    BY <1>1, <2>1 DEF ClaimFragment
  <2>2. CASE ReadFragment(p)
    BY <1>1, <2>2 DEF ReadFragment
  <2>3. CASE ReadFails(p)
    BY <1>1, <2>3 DEF ReadFails
  <2>4. CASE RecoverFragment(p)
    BY <1>1, <2>4 DEF RecoverFragment
  <2>5. CASE UnlinkImported(p)
    BY <1>1, <2>5 DEF UnlinkImported, ImportProgress
  <2>6. CASE ReturnFragment(p)
    BY <1>1, <2>6 DEF ReturnFragment
  <2>7. QED
    BY <1>2, <1>5, <2>1, <2>2, <2>3, <2>4, <2>5, <2>6 DEF ThreadStep, ListFragments,
       ClaimDone, Dispatch, TakeBatch, ImportGroup, ImportFails, ImportDone
<1>6. QED
  BY <1>2, <1>3, <1>4, <1>5 DEF Next, vars, ForceSync, Crash

LEMMA InitIInv == Init => IInv
<1> SUFFICES ASSUME Init PROVE IInv
  OBVIOUS
<1>1. OnlyWritten /\ ImportProgress /\ DeletedOnlyAfterImport
  BY DEF Init, OnlyWritten, ImportProgress, DeletedOnlyAfterImport, Rest
<1>2. QED
  BY <1>1, InitType DEF IInv

\* The inductive invariant: types, references to written fragments only, the
\* progress of each importing thread, and the absence of loss.
THEOREM InductiveInvariant == Spec => []IInv
<1>1. IInv /\ [Next]_vars => IInv'
  BY NextStoreTyped, NextThreadsTyped, NextQueuesTyped, NextOnlyWritten,
     NextImportProgress, NextDeletedOnlyAfterImport DEF IInv, TypeOK
<1>2. QED
  BY InitIInv, <1>1, PTL DEF Spec

\* No crash, failed import, failed read or overlapping force_sync makes a
\* written record disappear: its fragment is on disk until its rows are stored.
THEOREM NoRecordLost == Spec => []DeletedOnlyAfterImport
<1>1. IInv => DeletedOnlyAfterImport
  BY DEF IInv
<1>2. QED
  BY InductiveInvariant, <1>1, PTL

------------------------------------------------------------------------------
OnDisk == UNION {Content[f] : f \in jsonl \cup processing}

\* A record some thread is about to import is still on disk or stored already.
LEMMA HeldIsDurable ==
  ASSUME IInv, NEW p \in Threads, NEW x
  PROVE  TxnRecords(held[p], x[1], x[2]) \subseteq OnDisk \cup Stored
<1> SUFFICES ASSUME NEW r \in Records, NEW f \in held[p], r \in Content[f]
             PROVE  r \in OnDisk \cup Stored
  BY DEF TxnRecords
<1>1. f \in written
  BY DEF IInv, OnlyWritten
<1>2. QED
  BY <1>1 DEF IInv, DeletedOnlyAfterImport, OnDisk

LEMMA InsertStored ==
  ASSUME TypeOK, NEW S \in SUBSET Records, copies' = Insert(S)
  PROVE  Stored' = Stored \cup S
BY DEF TypeOK, StoreTyped, Stored, Insert

\* Each step of the inbox is a step of the journal or leaves it unchanged.
LEMMA StepSimulation ==
  IInv /\ IInv' /\ [Next]_vars => [Journal!Next]_(Journal!vars)
<1> SUFFICES ASSUME IInv, IInv', [Next]_vars PROVE [Journal!Next]_(Journal!vars)
  OBVIOUS
<1> USE DEF disk
<1>1. CASE UNCHANGED <<jsonl \cup processing, Stored>>
  BY <1>1 DEF Journal!vars
<1>2. ASSUME NEW f \in Fragments, WriteLocal(f) PROVE [Journal!Next]_(Journal!vars)
  <2>1. OnDisk' = OnDisk \cup Content[f] /\ Stored' = Stored
    BY <1>2 DEF WriteLocal, OnDisk, Stored
  <2>2. Journal!Accept(Content[f])
    BY <2>1 DEF Journal!Accept, OnDisk
  <2>3. QED
    BY <2>2 DEF Journal!Next
<1>3. ASSUME NEW S \in SUBSET Records, S \subseteq OnDisk \cup Stored, UNCHANGED disk,
             copies' = Insert(S)
      PROVE  [Journal!Next]_(Journal!vars)
  <2>1. Stored' = Stored \cup (S \ Stored)
    BY <1>3, InsertStored DEF IInv
  <2>2. Journal!Import(S \ Stored)
    BY <1>3, <2>1 DEF Journal!Import, OnDisk
  <2>3. QED
    BY <2>2 DEF Journal!Next
<1>4. ASSUME NEW f \in Fragments, Content[f] \subseteq Stored, jsonl' = jsonl,
             processing' = processing \ {f}, UNCHANGED copies
      PROVE  [Journal!Next]_(Journal!vars)
  <2>1. PICK S \in SUBSET Records :
           S = OnDisk \ UNION {Content[g] : g \in jsonl \cup (processing \ {f})}
    <3>1. OnDisk \subseteq Records
      BY DEF OnDisk, IInv, TypeOK, StoreTyped
    <3>2. OnDisk \ UNION {Content[g] : g \in jsonl \cup (processing \ {f})} \in SUBSET Records
      BY <3>1
    <3>3. QED
      BY <3>2
  <2>2. OnDisk' = OnDisk \ S /\ S \subseteq Content[f]
    BY <1>4, <2>1 DEF OnDisk
  <2>3. Journal!Trim(S)
    BY <1>4, <2>2 DEF Journal!Trim, OnDisk, Stored
  <2>4. QED
    BY <2>3 DEF Journal!Next
<1>5. ASSUME NEW p \in Threads, ThreadStep(p) PROVE [Journal!Next]_(Journal!vars)
  <2> USE DEF IInv, TypeOK, ThreadsTyped
  <2>1. CASE ClaimFragment(p) \/ ReadFails(p) \/ RecoverFragment(p) \/ ReturnFragment(p)
    <3>1. jsonl' \cup processing' = jsonl \cup processing
      BY <2>1 DEF ClaimFragment, ReadFails, RecoverFragment, ReturnFragment
    <3>2. UNCHANGED copies
      BY <2>1 DEF ClaimFragment, ReadFails, RecoverFragment, ReturnFragment
    <3>3. QED
      BY <1>1, <3>1, <3>2 DEF Stored
  <2>2. CASE ReadFragment(p)
    <3>1. PICK f \in First(todo[p]) :
             \/ Content[f] # {} /\ UNCHANGED processing
             \/ Content[f] = {} /\ processing' = processing \ {f}
      BY <2>2 DEF ReadFragment
    <3>2. f \in Fragments /\ UNCHANGED <<jsonl, copies>>
      BY <2>2 DEF ReadFragment, First
    <3>3. QED
      BY <1>1, <1>4, <3>1, <3>2 DEF Stored
  <2>3. CASE UnlinkImported(p)
    <3>1. PICK f \in held[p] : processing' = processing \ {f}
      BY <2>3 DEF UnlinkImported
    <3>2. Content[f] \subseteq Stored /\ UNCHANGED <<jsonl, copies>> /\ f \in Fragments
      BY <2>3 DEF UnlinkImported, ImportProgress
    <3>3. QED
      BY <1>4, <3>1, <3>2
  <2>4. CASE ImportGroup(p)
    <3>1. PICK x \in NextTxn(p) : copies' = Insert(TxnRecords(held[p], x[1], x[2]))
      BY <2>4 DEF ImportGroup
    <3>2. QED
      BY <1>3, <2>4, <3>1, HeldIsDurable DEF ImportGroup, TxnRecords
  <2>5. CASE ImportFails(p)
    <3>1. PICK x \in NextTxn(p) :
             copies' = copies \/ copies' = Insert(TxnRecords(held[p], x[1], x[2]))
      BY <2>5 DEF ImportFails
    <3>2. CASE copies' = copies
      BY <1>1, <2>5, <3>2 DEF ImportFails, Stored
    <3>3. CASE copies' = Insert(TxnRecords(held[p], x[1], x[2]))
      BY <1>3, <2>5, <3>3, HeldIsDurable DEF ImportFails, TxnRecords
    <3>4. QED
      BY <3>1, <3>2, <3>3
  <2>6. QED
    BY <1>1, <1>5, <2>1, <2>2, <2>3, <2>4, <2>5 DEF ThreadStep, ListFragments, ClaimDone,
       Dispatch, TakeBatch, ImportDone, Stored
<1>6. CASE StartInboxPoller
  BY <1>1, <1>6 DEF StartInboxPoller, Stored
<1>7. QED
  BY <1>1, <1>2, <1>5, <1>6 DEF Next, vars, ForceSync, Crash, Stored

\* The inbox, with its threads, faults and restarts, implements the journal.
THEOREM Refinement == Spec => ImplementsJournal
<1>1. Init => Journal!Init
  BY DEF Init, Journal!Init, Stored
<1>2. QED
  BY InductiveInvariant, StepSimulation, <1>1, PTL DEF Spec, ImplementsJournal, Journal!Spec
------------------------------------------------------------------------------
\* Who holds a claimed fragment.

\* The fragment a thread has renamed and not yet read.
Reading(p)   == IF pc[p] = "reading" THEN First(todo[p]) ELSE {}
InHand(p, f) == f \in held[p] \cup Reading(p)
Quiet        == faults.sync = 0 /\ faults.read = 0

\* Which control points a thread has, and what it holds there; a server that is down
\* holds nothing.
Control ==
  /\ jsonl \cap processing = {}
  /\ pc[Scanner] \in {"listing", "claiming", "reading", "dispatching"}
  /\ \A w \in Workers : pc[w] \in {"idle", "importing", "unlinking", "returning"}
  /\ \A p \in Threads : pc[p] = "idle" => held[p] = {}
  /\ faults.sync = 0 => \A s \in Syncers : pc[s] = "idle"
  /\ ~up => /\ \A p \in Threads : pc[p] = Rest(p) /\ held[p] = {}
            /\ \A lane \in Lanes : queue[lane] = << >>

Queued(f) == \E lane \in Lanes : \E i \in 1..Len(queue[lane]) : queue[lane][i] = f

\* No fragment is in two hands: two threads, a thread and a queue, or two places.
OneHolder ==
  \A f \in Fragments :
    /\ \A p, q \in Threads : InHand(p, f) /\ InHand(q, f) => p = q
    /\ Queued(f) => \A p \in Threads : ~InHand(p, f)

ReadApart == \A p \in Threads : held[p] \cap Reading(p) = {}

OnePlace ==
  \A lane, l \in Lanes : \A i \in 1..Len(queue[lane]) : \A j \in 1..Len(queue[l]) :
    queue[lane][i] = queue[l][j] => lane = l /\ i = j

OneHand == OneHolder /\ ReadApart /\ OnePlace

\* A fragment is claimed when it is in a hand.
ClaimedInHand ==
  up => \A f \in Fragments :
          f \in processing <=> (\E p \in Threads : InHand(p, f)) \/ Queued(f)

HandsInv == Control /\ (Quiet => OneHand /\ ClaimedInHand)

LEMMA FirstIsOne ==
  ASSUME NEW S \in SUBSET Fragments, NEW f \in First(S), NEW g \in First(S)
  PROVE  f = g
<1>1. f \in Nat /\ g \in Nat /\ f <= g /\ g <= f
  BY DEF First
<1> QED
  BY <1>1

LEMMA NextControl ==
  ASSUME IInv, Control, [Next]_vars
  PROVE  Control'
<1> USE DEF IInv, TypeOK, StoreTyped, ThreadsTyped, Control, Rest
<1>1. ASSUME NEW f \in Fragments, WriteLocal(f)
      PROVE  Control'
  BY <1>1 DEF WriteLocal, OnlyWritten, threads
<1>2. ASSUME NEW s \in Syncers, ForceSync(s)
      PROVE  Control'
  <2>1. /\ faults.sync \in Nat /\ faults' = [faults EXCEPT !.sync = @ + 1]
    BY <1>2 DEF ForceSync
  <2>2. faults'.sync # 0
    BY <2>1
  <2> QED
    BY <1>2, <2>2 DEF ForceSync, disk
<1>3. CASE Crash
  BY <1>3 DEF Crash, disk
<1>4. CASE StartInboxPoller
  BY <1>4 DEF StartInboxPoller, threads
<1>5. ASSUME NEW p \in Threads, ThreadStep(p)
      PROVE  Control'
  <2>0. up /\ faults'.sync = faults.sync /\ up' = up
    BY <1>5 DEF ThreadStep, ListFragments, ClaimFragment, ReadFragment, ReadFails, ClaimDone,
       RecoverFragment, Dispatch, TakeBatch, ImportGroup, ImportFails, ImportDone,
       UnlinkImported, ReturnFragment
  <2>1. CASE p \in Claimers /\ (RecoverFragment(p) \/ ListFragments(p) \/ ClaimDone(p))
    BY <2>0, <2>1 DEF RecoverFragment, ListFragments, ClaimDone, disk
  <2>2. CASE p \in Claimers /\ (ClaimFragment(p) \/ ReadFragment(p))
    BY <2>0, <2>2 DEF ClaimFragment, ReadFragment
  <2>3. CASE p \in Claimers /\ ReadFails(p)
    BY <2>0, <2>3 DEF ReadFails
  <2>4. CASE p = Scanner /\ Dispatch
    BY <2>0, <2>4 DEF Dispatch, disk
  <2>5. CASE p \in Workers /\ TakeBatch(p)
    BY <2>0, <2>5 DEF TakeBatch, disk
  <2>6. CASE p \in Importers /\ (ImportGroup(p) \/ ImportFails(p) \/ ImportDone(p))
    BY <2>0, <2>6 DEF ImportGroup, ImportFails, ImportDone, disk
  <2>7. CASE p \in Importers /\ (UnlinkImported(p) \/ ReturnFragment(p))
    <3>1. /\ jsonl' \cap processing' = {}
          /\ pc[p] \in {"unlinking", "returning"}
          /\ \/ pc' = [pc EXCEPT ![p] = "idle"] /\ held' = [held EXCEPT ![p] = {}]
             \/ UNCHANGED pc
          /\ \A q \in Threads : q # p => held'[q] = held[q]
      BY <2>7 DEF UnlinkImported, ReturnFragment
    <3> QED
      BY <2>0, <2>7, <3>1
  <2> QED
    BY <1>5, <2>1, <2>2, <2>3, <2>4, <2>5, <2>6, <2>7 DEF ThreadStep
<1>6. CASE UNCHANGED vars
  BY <1>6 DEF vars, disk, threads
<1> QED
  BY <1>1, <1>2, <1>3, <1>4, <1>5, <1>6 DEF Next

\* A step that changes no hand and no claim.
LEMMA HandsFrame ==
  ASSUME OneHand, ClaimedInHand, UNCHANGED <<queue, held, processing>>,
         up' => up, \A p \in Threads : Reading(p)' = Reading(p)
  PROVE  OneHand' /\ ClaimedInHand'
<1>1. \A p \in Threads : \A f : InHand(p, f)' <=> InHand(p, f)
  BY DEF InHand
<1>2. OnePlace' /\ \A f : Queued(f)' <=> Queued(f)
  BY DEF OneHand, OnePlace, Queued
<1>3. OneHolder' /\ ReadApart'
  BY <1>1, <1>2 DEF OneHand, OneHolder, ReadApart
<1>4. ClaimedInHand'
  BY <1>1, <1>2 DEF ClaimedInHand
<1> QED
  BY <1>2, <1>3, <1>4 DEF OneHand

\* A process that has just died, or started, has nothing.
LEMMA EmptyHands ==
  ASSUME \A p \in Threads : pc'[p] = Rest(p) /\ held'[p] = {},
         \A lane \in Lanes : queue'[lane] = << >>,
         up' = FALSE \/ processing' = {}
  PROVE  OneHand' /\ ClaimedInHand'
<1>1. \A p \in Threads : Reading(p)' = {}
  BY DEF Reading, Rest
<1>2. \A p \in Threads : \A f : ~InHand(p, f)'
  BY <1>1 DEF InHand
<1>3. \A lane \in Lanes : 1..Len(queue'[lane]) = {}
  OBVIOUS
<1>4. OneHand'
  BY <1>1, <1>2, <1>3 DEF OneHand, OneHolder, ReadApart, OnePlace
<1>5. ClaimedInHand'
  BY <1>2, <1>3 DEF ClaimedInHand, Queued
<1> QED
  BY <1>4, <1>5

\* A step that leaves the queues alone keeps their places apart.
LEMMA PlacesKept ==
  ASSUME UNCHANGED queue
  PROVE  (OnePlace => OnePlace') /\ \A f : Queued(f)' <=> Queued(f)
BY DEF OnePlace, Queued

\* Positions in a queue that grows by one.
LEMMA OneMore ==
  ASSUME NEW n \in Nat, NEW i \in 1..(n + 1)
  PROVE  i = n + 1 \/ i \in 1..n
  OBVIOUS

LEMMA StillIn ==
  ASSUME NEW n \in Nat, NEW i \in 1..n
  PROVE  i \in 1..(n + 1)
  OBVIOUS

\* Dispatch moves a fragment from the scanner's batch to the end of a queue.
LEMMA DispatchHands ==
  ASSUME IInv, Control, OneHand, ClaimedInHand, up, Dispatch
  PROVE  OneHand' /\ ClaimedInHand'
<1> USE DEF IInv, TypeOK, ThreadsTyped, QueuesTyped
<1>1. PICK f \in held[Scanner] :
        /\ queue' = [queue EXCEPT ![Lane(f)] = Append(@, f)]
        /\ held' = [held EXCEPT ![Scanner] = @ \ {f}]
        /\ pc' = IF held[Scanner] = {f} THEN [pc EXCEPT ![Scanner] = "listing"] ELSE pc
  BY DEF Dispatch
<1>2. UNCHANGED <<processing, up, todo>> /\ pc[Scanner] # "reading"
  BY DEF Dispatch, disk
<1>3. f \in Fragments /\ Lane(f) \in Lanes
  BY <1>1 DEF Lane
<1> DEFINE q == queue[Lane(f)]
<1>4. /\ q \in Seq(Fragments) /\ Len(Append(q, f)) = Len(q) + 1 /\ Len(q) \in Nat
      /\ \A i \in 1..Len(q) : Append(q, f)[i] = q[i]
      /\ Append(q, f)[Len(q) + 1] = f
  BY <1>3
<1>5. /\ queue'[Lane(f)] = Append(q, f)
      /\ \A lane \in Lanes : lane # Lane(f) => queue'[lane] = queue[lane]
  BY <1>1, <1>3
<1>6. \A t \in Threads : Reading(t)' = Reading(t)
  BY <1>1, <1>2 DEF Reading
<1>7. Reading(Scanner) = {} /\ InHand(Scanner, f)
  BY <1>1, <1>2 DEF Reading, InHand
<1>8. \A t \in Threads : \A g : InHand(t, g)' <=> InHand(t, g) /\ (t # Scanner \/ g # f)
  BY <1>1, <1>6, <1>7 DEF InHand
<1>9. (\A t \in Threads : InHand(t, f) => t = Scanner) /\ ~Queued(f)
  BY <1>3, <1>7 DEF OneHand, OneHolder
\* The place a fragment has in a queue after the step.
<1>10. ASSUME NEW lane \in Lanes, NEW i \in 1..Len(queue'[lane])
       PROVE  \/ i \in 1..Len(queue[lane]) /\ queue'[lane][i] = queue[lane][i]
              \/ lane = Lane(f) /\ i = Len(q) + 1 /\ queue'[lane][i] = f
  <2>1. CASE lane = Lane(f)
    <3>0. i \in 1..(Len(q) + 1) /\ Len(q) \in Nat
      BY <1>4, <1>5, <1>10, <2>1
    <3>1. i = Len(q) + 1 \/ i \in 1..Len(q)
      BY <3>0, OneMore
    <3> QED
      BY <1>4, <1>5, <2>1, <3>1
  <2>2. CASE lane # Lane(f)
    BY <1>5, <2>2
  <2> QED
    BY <2>1, <2>2
<1>11. \A lane \in Lanes : \A i \in 1..Len(queue[lane]) :
          i \in 1..Len(queue'[lane]) /\ queue'[lane][i] = queue[lane][i]
  <2>1. ASSUME NEW lane \in Lanes, NEW i \in 1..Len(queue[lane])
        PROVE  i \in 1..Len(queue'[lane]) /\ queue'[lane][i] = queue[lane][i]
    <3>1. CASE lane = Lane(f)
      <4>1. i \in 1..Len(q) /\ Len(q) \in Nat /\ queue[lane][i] = q[i]
        BY <1>4, <3>1
      <4>2. i \in 1..(Len(q) + 1)
        BY <4>1, StillIn
      <4> QED
        BY <1>4, <1>5, <3>1, <4>1, <4>2
    <3>2. CASE lane # Lane(f)
      BY <1>5, <3>2
    <3> QED
      BY <3>1, <3>2
  <2> QED
    BY <2>1
<1>12. Len(q) + 1 \in 1..Len(queue'[Lane(f)]) /\ queue'[Lane(f)][Len(q) + 1] = f
  BY <1>4, <1>5
<1> HIDE DEF q, IInv, TypeOK, ThreadsTyped, QueuesTyped
<1>13. \A g : Queued(g)' <=> Queued(g) \/ g = f
  BY <1>3, <1>10, <1>11, <1>12 DEF Queued
<1>14. OneHolder'
  BY <1>8, <1>9, <1>13 DEF OneHand, OneHolder
<1>15. ReadApart'
  BY <1>1, <1>6, <1>7 DEF OneHand, ReadApart, IInv, TypeOK, ThreadsTyped
<1>16. OnePlace'
  <2>1. ASSUME NEW lane \in Lanes, NEW i \in 1..Len(queue'[lane]),
               NEW l \in Lanes, NEW j \in 1..Len(queue'[l]), queue'[lane][i] = queue'[l][j]
        PROVE  lane = l /\ i = j
    <3>1. i \in 1..Len(queue[lane]) => queue[lane][i] # f
      BY <1>9 DEF Queued
    <3>2. j \in 1..Len(queue[l]) => queue[l][j] # f
      BY <1>9 DEF Queued
    <3>3. \/ i \in 1..Len(queue[lane]) /\ queue'[lane][i] = queue[lane][i]
          \/ lane = Lane(f) /\ i = Len(q) + 1 /\ queue'[lane][i] = f
      BY <1>10
    <3>4. \/ j \in 1..Len(queue[l]) /\ queue'[l][j] = queue[l][j]
          \/ l = Lane(f) /\ j = Len(q) + 1 /\ queue'[l][j] = f
      BY <1>10
    <3>5. CASE i \in 1..Len(queue[lane]) /\ j \in 1..Len(queue[l])
               /\ queue[lane][i] = queue[l][j]
      BY <3>5 DEF OneHand, OnePlace
    <3> QED
      BY <2>1, <3>1, <3>2, <3>3, <3>4, <3>5
  <2> QED
    BY <2>1 DEF OnePlace
<1>17. ClaimedInHand'
  BY <1>2, <1>7, <1>8, <1>9, <1>13 DEF ClaimedInHand
<1> QED
  BY <1>14, <1>15, <1>16, <1>17 DEF OneHand

\* A worker that was idle, hence without fragments, takes the head of its queue.
LEMMA TakeBatchHands ==
  ASSUME IInv, Control, OneHand, ClaimedInHand, up, NEW w \in Workers, TakeBatch(w)
  PROVE  OneHand' /\ ClaimedInHand'
<1> USE DEF IInv, TypeOK, ThreadsTyped, QueuesTyped
<1> DEFINE L == LaneOf(w)
           q == queue[L]
<1>1. PICK n \in 1..BatchFiles :
        /\ n <= Len(q)
        /\ held' = [held EXCEPT ![w] = {q[i] : i \in 1..n}]
        /\ queue' = [queue EXCEPT ![L] = SubSeq(q, n + 1, Len(q))]
  BY DEF TakeBatch
<1>2. /\ UNCHANGED <<processing, up, todo>> /\ pc[w] = "idle"
      /\ pc' = [pc EXCEPT ![w] = "importing"] /\ w \in Threads
  BY DEF TakeBatch, disk
<1>3. L \in Lanes /\ q \in Seq(Fragments) /\ Len(q) \in Nat /\ n \in Nat
  BY <1>1 DEF LaneOf
<1>4. /\ Len(SubSeq(q, n + 1, Len(q))) = Len(q) - n
      /\ \A i \in 1..(Len(q) - n) : SubSeq(q, n + 1, Len(q))[i] = q[i + n]
  BY <1>1, <1>3
<1>5. /\ queue'[L] = SubSeq(q, n + 1, Len(q))
      /\ \A lane \in Lanes : lane # L => queue'[lane] = queue[lane]
  BY <1>1, <1>3
<1>6. \A t \in Threads : Reading(t)' = Reading(t)
  BY <1>1, <1>2 DEF Reading
<1>7. held[w] = {} /\ Reading(w) = {}
  BY <1>2 DEF Control, Reading
<1> DEFINE Taken == {q[i] : i \in 1..n}
<1>8. \A t \in Threads : \A g : InHand(t, g)' <=> InHand(t, g) \/ (t = w /\ g \in Taken)
  BY <1>1, <1>2, <1>6, <1>7 DEF InHand
<1>9. \A i \in 1..n : i \in 1..Len(q)
  BY <1>1, <1>3
<1>10. \A lane \in Lanes : \A i \in 1..Len(queue'[lane]) :
         \E k \in 1..Len(queue[lane]) :
           /\ queue'[lane][i] = queue[lane][k]
           /\ k = IF lane = L THEN i + n ELSE i
  <2>1. ASSUME NEW lane \in Lanes, NEW i \in 1..Len(queue'[lane])
        PROVE  \E k \in 1..Len(queue[lane]) :
                 /\ queue'[lane][i] = queue[lane][k]
                 /\ k = IF lane = L THEN i + n ELSE i
    <3>1. CASE lane = L
      <4>1. i \in 1..(Len(q) - n) /\ i + n \in 1..Len(q)
        BY <1>1, <1>3, <1>4, <1>5, <2>1, <3>1
      <4> QED
        BY <1>4, <1>5, <3>1, <4>1
    <3>2. CASE lane # L
      BY <1>5, <3>2
    <3> QED
      BY <3>1, <3>2
  <2> QED
    BY <2>1
<1>11. \A lane \in Lanes : \A k \in 1..Len(queue[lane]) :
         \/ lane = L /\ k \in 1..n
         \/ \E i \in 1..Len(queue'[lane]) : queue'[lane][i] = queue[lane][k]
  <2>1. ASSUME NEW lane \in Lanes, NEW k \in 1..Len(queue[lane]), ~(lane = L /\ k \in 1..n)
        PROVE  \E i \in 1..Len(queue'[lane]) : queue'[lane][i] = queue[lane][k]
    <3>1. CASE lane = L
      <4>1. k - n \in 1..(Len(q) - n) /\ (k - n) + n = k
        BY <1>1, <1>3, <2>1, <3>1
      <4>2. queue'[lane][k - n] = q[k]
        BY <1>4, <1>5, <3>1, <4>1
      <4> QED
        BY <1>4, <1>5, <3>1, <4>1, <4>2
    <3>2. CASE lane # L
      BY <1>5, <3>2
    <3> QED
      BY <3>1, <3>2
  <2> QED
    BY <2>1
<1>12. \A g : Queued(g) <=> Queued(g)' \/ g \in Taken
  <2>1. ASSUME NEW g, Queued(g)'
        PROVE  Queued(g)
    <3>1. PICK lane \in Lanes : \E i \in 1..Len(queue'[lane]) : queue'[lane][i] = g
      BY <2>1 DEF Queued
    <3>2. PICK i \in 1..Len(queue'[lane]) : queue'[lane][i] = g
      BY <3>1
    <3>3. PICK k \in 1..Len(queue[lane]) : queue'[lane][i] = queue[lane][k]
      BY <1>10
    <3> QED
      BY <3>2, <3>3 DEF Queued
  <2>2. ASSUME NEW g \in Taken
        PROVE  Queued(g)
    BY <1>3, <1>9 DEF Queued
  <2>3. ASSUME NEW g, Queued(g), g \notin Taken
        PROVE  Queued(g)'
    <3>0. PICK lane \in Lanes : \E k \in 1..Len(queue[lane]) : queue[lane][k] = g
      BY <2>3 DEF Queued
    <3>1. PICK k \in 1..Len(queue[lane]) : queue[lane][k] = g
      BY <3>0
    <3>2. ~(lane = L /\ k \in 1..n)
      BY <2>3, <3>1
    <3> QED
      BY <1>11, <3>1, <3>2 DEF Queued
  <2> QED
    BY <2>1, <2>2, <2>3
<1>13. \A lane \in Lanes : \A i \in 1..Len(queue'[lane]) : queue'[lane][i] \notin Taken
  <2>1. ASSUME NEW lane \in Lanes, NEW i \in 1..Len(queue'[lane]), queue'[lane][i] \in Taken
        PROVE  FALSE
    <3>1. PICK k \in 1..Len(queue[lane]) :
            /\ queue'[lane][i] = queue[lane][k]
            /\ k = IF lane = L THEN i + n ELSE i
      BY <1>10
    <3>2. PICK m \in 1..n : queue[lane][k] = q[m]
      BY <2>1, <3>1
    <3>3. lane = L /\ k = m
      BY <1>3, <1>9, <3>1, <3>2 DEF OneHand, OnePlace
    <3>4. i \in Nat /\ i >= 1 /\ m \in Nat /\ m <= n /\ i + n = m
      BY <1>3, <1>4, <1>5, <3>1, <3>3
    <3> QED
      BY <1>3, <3>4
  <2> QED
    BY <2>1
<1> HIDE DEF q, L
<1>14. \A g \in Taken : Queued(g) /\ g \in Fragments
  BY <1>3, <1>9, <1>12
<1> HIDE DEF Taken, IInv, TypeOK, ThreadsTyped, QueuesTyped
<1>15. \A g \in Taken : ~Queued(g)'
  BY <1>13 DEF Queued
<1>16. OneHolder'
  BY <1>8, <1>12, <1>14, <1>15 DEF OneHand, OneHolder
<1>17. ReadApart'
  BY <1>1, <1>6, <1>7 DEF OneHand, ReadApart, IInv, TypeOK, ThreadsTyped
<1>18. OnePlace'
  <2>1. ASSUME NEW lane \in Lanes, NEW i \in 1..Len(queue'[lane]),
               NEW l \in Lanes, NEW j \in 1..Len(queue'[l]), queue'[lane][i] = queue'[l][j]
        PROVE  lane = l /\ i = j
    <3>1. PICK k \in 1..Len(queue[lane]) :
            queue'[lane][i] = queue[lane][k] /\ k = IF lane = L THEN i + n ELSE i
      BY <1>10
    <3>2. PICK m \in 1..Len(queue[l]) :
            queue'[l][j] = queue[l][m] /\ m = IF l = L THEN j + n ELSE j
      BY <1>10
    <3>3. queue[lane][k] = queue[l][m]
      BY <2>1, <3>1, <3>2
    <3>5. lane = l /\ k = m
      BY <3>3 DEF OneHand, OnePlace
    <3>4. i \in Int /\ j \in Int
      OBVIOUS
    <3> QED
      BY <1>3, <3>1, <3>2, <3>4, <3>5
  <2> QED
    BY <2>1 DEF OnePlace
<1>19. ClaimedInHand'
  BY <1>2, <1>8, <1>12 DEF ClaimedInHand
<1> QED
  BY <1>16, <1>17, <1>18, <1>19 DEF OneHand

LEMMA NextHands ==
  ASSUME IInv, Control, Quiet => OneHand /\ ClaimedInHand, [Next]_vars, Quiet'
  PROVE  OneHand' /\ ClaimedInHand'
<1> USE DEF IInv, TypeOK, StoreTyped, ThreadsTyped
<1>1. ASSUME NEW f \in Fragments, WriteLocal(f)
      PROVE  OneHand' /\ ClaimedInHand'
  <2>1. /\ Quiet /\ UNCHANGED <<queue, held, processing, up, pc, todo>>
    BY <1>1 DEF WriteLocal, threads, Quiet
  <2> QED
    BY <2>1, HandsFrame DEF Reading
<1>2. ASSUME NEW s \in Syncers, ForceSync(s)
      PROVE  FALSE
  <2>1. /\ faults.sync \in Nat /\ faults' = [faults EXCEPT !.sync = @ + 1]
    BY <1>2 DEF ForceSync
  <2> QED
    BY <2>1 DEF Quiet
<1>3. CASE Crash
  <2>1. /\ \A p \in Threads : pc'[p] = Rest(p) /\ held'[p] = {}
        /\ \A lane \in Lanes : queue'[lane] = << >>
        /\ up' = FALSE
    BY <1>3 DEF Crash
  <2> QED
    BY <2>1, EmptyHands
<1>4. CASE StartInboxPoller
  <2>1. /\ \A p \in Threads : pc'[p] = Rest(p) /\ held'[p] = {}
        /\ \A lane \in Lanes : queue'[lane] = << >>
        /\ processing' = {}
    BY <1>4 DEF StartInboxPoller, threads, Control
  <2> QED
    BY <2>1, EmptyHands
<1>5. ASSUME NEW p \in Threads, ThreadStep(p)
      PROVE  OneHand' /\ ClaimedInHand'
  <2>0. Quiet /\ up
    <3>1. faults'.sync = faults.sync /\ (faults'.read = 0 => faults.read = 0) /\ up
      BY <1>5 DEF ThreadStep, ListFragments, ClaimFragment, ReadFragment, ReadFails, ClaimDone,
         RecoverFragment, Dispatch, TakeBatch, ImportGroup, ImportFails, ImportDone,
         UnlinkImported, ReturnFragment
    <3> QED
      BY <3>1 DEF Quiet
  <2>s. pc[p] = "idle" \/ p = Scanner \/ p \in Workers
    BY <2>0 DEF Control, Quiet
  <2>h. OneHand /\ ClaimedInHand
    BY <2>0
  <2>1. CASE RecoverFragment(p)
    BY <2>s, <2>1 DEF RecoverFragment, Control
  <2>2. CASE ListFragments(p) \/ ClaimDone(p)
    <3>1. /\ UNCHANGED <<queue, held, processing, up>>
          /\ pc[p] # "reading" /\ pc'[p] # "reading"
          /\ \A q \in Threads : q # p => pc'[q] = pc[q] /\ todo'[q] = todo[q]
      BY <2>2 DEF ListFragments, ClaimDone, Rest, disk
    <3> QED
      BY <2>h, <3>1, HandsFrame DEF Reading
  <2>3. CASE ClaimFragment(p)
    <3>1. PICK f \in First(todo[p]) :
            \/ /\ f \in jsonl /\ processing' = processing \cup {f}
               /\ pc' = [pc EXCEPT ![p] = "reading"] /\ UNCHANGED todo
            \/ /\ f \notin jsonl /\ todo' = [todo EXCEPT ![p] = @ \ {f}]
               /\ UNCHANGED <<processing, pc>>
      BY <2>3 DEF ClaimFragment
    <3>2. pc[p] = "claiming" /\ UNCHANGED <<queue, held, up>>
      BY <2>3 DEF ClaimFragment
    <3>3. CASE f \notin jsonl
      BY <2>h, <3>1, <3>2, <3>3, HandsFrame DEF Reading
    <3>4. CASE f \in jsonl
      <4>0. /\ pc' = [pc EXCEPT ![p] = "reading"] /\ UNCHANGED todo
            /\ processing' = processing \cup {f}
        BY <3>1, <3>4
      <4>1. f \in Fragments /\ f \notin processing
        BY <3>4 DEF Control
      <4>2. /\ Reading(p) = {}
            /\ \A q \in Threads : q # p => Reading(q)' = Reading(q)
        BY <3>2, <4>0 DEF Reading
      <4>3. Reading(p)' = {f}
        <5>1. First(todo[p]) = {f}
          BY FirstIsOne
        <5> QED
          BY <4>0, <5>1 DEF Reading
      <4>4. (\A q \in Threads : ~InHand(q, f)) /\ ~Queued(f)
        BY <2>0, <2>h, <4>1 DEF ClaimedInHand
      <4>5. \A q \in Threads : \A g : InHand(q, g)' <=> InHand(q, g) \/ (q = p /\ g = f)
        BY <3>2, <4>2, <4>3 DEF InHand
      <4> HIDE DEF IInv, TypeOK, StoreTyped, ThreadsTyped
      <4>6. ReadApart'
        BY <2>h, <3>2, <4>2, <4>3, <4>4 DEF OneHand, ReadApart, InHand
      <4>7. OneHolder'
        BY <2>h, <3>2, <4>4, <4>5, PlacesKept DEF OneHand, OneHolder
      <4>8. ClaimedInHand'
        BY <2>0, <2>h, <3>2, <4>0, <4>5, PlacesKept DEF ClaimedInHand
      <4> QED
        BY <2>h, <3>2, <4>6, <4>7, <4>8, PlacesKept DEF OneHand
    <3> QED
      BY <3>3, <3>4
  <2>4. CASE ReadFragment(p)
    <3>1. PICK f \in First(todo[p]) :
            /\ \/ held' = [held EXCEPT ![p] = @ \cup {f}] /\ UNCHANGED processing
               \/ processing' = processing \ {f} /\ UNCHANGED held
            /\ todo' = [todo EXCEPT ![p] = @ \ {f}]
      BY <2>4 DEF ReadFragment
    <3>2. /\ pc[p] = "reading" /\ pc' = [pc EXCEPT ![p] = "claiming"]
          /\ UNCHANGED <<queue, up>>
      BY <2>4 DEF ReadFragment
    <3>3. Reading(p) = {f} /\ Reading(p)' = {}
      BY <3>1, <3>2, FirstIsOne DEF Reading
    <3>4. \A q \in Threads : q # p => Reading(q)' = Reading(q) /\ held'[q] = held[q]
      BY <3>1, <3>2 DEF Reading
    <3>5. f \in Fragments /\ InHand(p, f) /\ f \notin held[p] /\ ~Queued(f)
      <4>1. f \in Fragments /\ InHand(p, f)
        BY <3>3 DEF InHand, First
      <4> QED
        BY <2>h, <3>3, <4>1 DEF OneHand, OneHolder, ReadApart
    <3>6. CASE held' = [held EXCEPT ![p] = @ \cup {f}] /\ UNCHANGED processing
      <4>1. \A q \in Threads : \A g : InHand(q, g)' <=> InHand(q, g)
        BY <3>3, <3>4, <3>6 DEF InHand
      <4> HIDE DEF IInv, TypeOK, StoreTyped, ThreadsTyped
      <4>2. OneHolder'
        BY <2>h, <3>2, <4>1, PlacesKept DEF OneHand, OneHolder
      <4>3. ReadApart'
        BY <2>h, <3>3, <3>4 DEF OneHand, ReadApart
      <4>4. ClaimedInHand'
        BY <2>0, <2>h, <3>2, <3>6, <4>1, PlacesKept DEF ClaimedInHand
      <4> QED
        BY <2>h, <3>2, <4>2, <4>3, <4>4, PlacesKept DEF OneHand
    <3>7. CASE processing' = processing \ {f} /\ UNCHANGED held
      <4>1. \A q \in Threads : \A g : InHand(q, g)' <=> InHand(q, g) /\ (q # p \/ g # f)
        BY <3>3, <3>4, <3>5, <3>7 DEF InHand
      <4>2. \A q \in Threads : InHand(q, f) => q = p
        BY <2>h, <3>5 DEF OneHand, OneHolder
      <4> HIDE DEF IInv, TypeOK, StoreTyped, ThreadsTyped
      <4>3. OneHolder'
        BY <2>h, <3>2, <4>1, PlacesKept DEF OneHand, OneHolder
      <4>4. ReadApart'
        BY <2>h, <3>3, <3>4 DEF OneHand, ReadApart
      <4>5. ClaimedInHand'
        BY <2>0, <2>h, <3>2, <3>5, <3>7, <4>1, <4>2, PlacesKept DEF ClaimedInHand
      <4> QED
        BY <2>h, <3>2, <4>3, <4>4, <4>5, PlacesKept DEF OneHand
    <3> QED
      BY <3>1, <3>6, <3>7
  <2>5. CASE ReadFails(p)
    <3>1. PICK f \in First(todo[p]) :
            f \notin processing \/ faults' = [faults EXCEPT !.read = @ + 1]
      BY <2>5 DEF ReadFails
    <3>2. f \in Fragments /\ InHand(p, f)
      BY <2>5 DEF ReadFails, InHand, Reading, First
    <3>3. f \in processing
      BY <2>0, <2>h, <3>2 DEF ClaimedInHand
    <3>4. faults.read \in Nat /\ faults' = [faults EXCEPT !.read = @ + 1]
      BY <3>1, <3>3
    <3>5. faults'.read # 0
      BY <3>4
    <3> QED
      BY <3>5 DEF Quiet
  <2>6. CASE ImportGroup(p) \/ ImportFails(p) \/ ImportDone(p)
    <3>1. /\ UNCHANGED <<queue, held, processing, up, todo>>
          /\ pc[p] # "reading" /\ pc'[p] # "reading"
          /\ \A q \in Threads : q # p => pc'[q] = pc[q]
      BY <2>6 DEF ImportGroup, ImportFails, ImportDone, disk
    <3> QED
      BY <2>h, <3>1, HandsFrame DEF Reading
  <2>7. CASE UnlinkImported(p) \/ ReturnFragment(p)
    <3>1. PICK f \in held[p] :
            /\ processing' = processing \ {f} /\ held' = [held EXCEPT ![p] = @ \ {f}]
            /\ pc' = IF held[p] = {f} THEN [pc EXCEPT ![p] = "idle"] ELSE pc
      BY <2>7 DEF UnlinkImported, ReturnFragment
    <3>2. UNCHANGED <<queue, up, todo>> /\ pc[p] # "reading"
      BY <2>7 DEF UnlinkImported, ReturnFragment
    <3>3. \A q \in Threads : Reading(q)' = Reading(q)
      BY <3>1, <3>2 DEF Reading
    <3>4. Reading(p) = {} /\ f \in Fragments /\ InHand(p, f)
      BY <3>1, <3>2 DEF Reading, InHand
    <3>5. \A q \in Threads : \A g : InHand(q, g)' <=> InHand(q, g) /\ (q # p \/ g # f)
      BY <3>1, <3>3, <3>4 DEF InHand
    <3>6. (\A q \in Threads : InHand(q, f) => q = p) /\ ~Queued(f)
      BY <2>h, <3>4 DEF OneHand, OneHolder
    <3>7. ReadApart'
      BY <2>h, <3>1, <3>3 DEF OneHand, ReadApart
    <3> HIDE DEF IInv, TypeOK, StoreTyped, ThreadsTyped
    <3>8. OneHolder'
      BY <2>h, <3>2, <3>5, PlacesKept DEF OneHand, OneHolder
    <3>9. ClaimedInHand'
      BY <2>0, <2>h, <3>1, <3>2, <3>5, <3>6, PlacesKept DEF ClaimedInHand
    <3> QED
      BY <2>h, <3>2, <3>7, <3>8, <3>9, PlacesKept DEF OneHand
  <2>8. CASE p = Scanner /\ Dispatch
    BY <2>0, <2>h, <2>8, DispatchHands
  <2>9. CASE p \in Workers /\ TakeBatch(p)
    BY <2>0, <2>h, <2>9, TakeBatchHands
  <2> QED
    BY <1>5, <2>1, <2>2, <2>3, <2>4, <2>5, <2>6, <2>7, <2>8, <2>9 DEF ThreadStep
<1>6. CASE UNCHANGED vars
  <2>1. Quiet /\ UNCHANGED <<queue, held, processing, up, pc, todo>>
    BY <1>6 DEF vars, threads, disk, Quiet
  <2> QED
    BY <2>1, HandsFrame DEF Reading
<1> QED
  BY <1>1, <1>2, <1>3, <1>4, <1>5, <1>6 DEF Next

LEMMA HandsInvariance == Spec => []HandsInv
<1>1. Init => HandsInv
  <2> SUFFICES ASSUME Init PROVE HandsInv
    OBVIOUS
  <2>1. Control
    BY DEF Init, Control, Rest, NoFaults
  <2>2. \A p \in Threads : Reading(p) = {} /\ \A f : ~InHand(p, f)
    BY DEF Init, Reading, InHand, Rest
  <2>3. \A lane \in Lanes : 1..Len(queue[lane]) = {}
    BY DEF Init
  <2>4. OneHand
    BY <2>2, <2>3 DEF OneHand, OneHolder, ReadApart, OnePlace
  <2>5. ClaimedInHand
    BY <2>2, <2>3 DEF ClaimedInHand, Queued, Init
  <2> QED
    BY <2>1, <2>4, <2>5 DEF HandsInv
<1>2. IInv /\ HandsInv /\ [Next]_vars => HandsInv'
  BY NextControl, NextHands DEF HandsInv
<1> QED
  BY InductiveInvariant, <1>1, <1>2, PTL DEF Spec

\* The rename of claim_inbox_batch: as long as no force_sync runs and no read fails,
\* exactly one thread or queue place has a claimed fragment.
THEOREM ClaimIsExclusive == Spec => []ClaimedByOne
<1>1. ASSUME IInv, HandsInv, up, Quiet, NEW f \in Fragments
      PROVE  Cardinality(Hands(f)) = IF f \in processing THEN 1 ELSE 0
  <2> USE DEF IInv, TypeOK, QueuesTyped
  <2>1. OneHand /\ ClaimedInHand
    BY <1>1 DEF HandsInv
  <2>2. \A lane \in Lanes : DOMAIN queue[lane] = 1..Len(queue[lane])
    BY <1>1
  <2>3. \A h : h \in Hands(f) <=>
          \/ h \in Threads /\ InHand(h, f)
          \/ \E lane \in Lanes : \E i \in 1..Len(queue[lane]) :
               h = <<lane, i>> /\ queue[lane][i] = f
    BY <2>2 DEF Hands, InHand, Reading
  <2>4. CASE f \notin processing
    <3>1. Hands(f) = {}
      BY <1>1, <2>1, <2>3, <2>4 DEF ClaimedInHand, Queued
    <3> QED
      BY <2>4, <3>1, FS_EmptySet
  <2>5. CASE f \in processing
    <3>1. \E h : Hands(f) = {h}
      <4>1. ASSUME NEW p \in Threads, InHand(p, f)
            PROVE  Hands(f) = {p}
        <5>1. p \in Hands(f)
          BY <2>3, <4>1
        <5>2. ~Queued(f) /\ \A q \in Threads : InHand(q, f) => q = p
          BY <2>1, <4>1 DEF OneHand, OneHolder
        <5>3. \A h \in Hands(f) : h = p
          BY <2>3, <5>2 DEF Queued
        <5> QED
          BY <5>1, <5>3
      <4>2. ASSUME NEW lane \in Lanes, NEW i \in 1..Len(queue[lane]), queue[lane][i] = f
            PROVE  Hands(f) = {<<lane, i>>}
        <5>1. <<lane, i>> \in Hands(f)
          BY <2>3, <4>2
        <5>2. \A q \in Threads : ~InHand(q, f)
          BY <2>1, <4>2 DEF OneHand, OneHolder, Queued
        <5>3. \A l \in Lanes : \A j \in 1..Len(queue[l]) : queue[l][j] = f => l = lane /\ j = i
          BY <2>1, <4>2 DEF OneHand, OnePlace
        <5>4. \A h \in Hands(f) : h = <<lane, i>>
          BY <2>3, <5>2, <5>3
        <5> QED
          BY <5>1, <5>4
      <4> QED
        BY <1>1, <2>1, <2>5, <4>1, <4>2 DEF ClaimedInHand, Queued
    <3> QED
      BY <2>5, <3>1, FS_Singleton
  <2> QED
    BY <2>4, <2>5
<1>2. IInv /\ HandsInv => ClaimedByOne
  BY <1>1 DEF ClaimedByOne, Quiet
<1> QED
  BY InductiveInvariant, HandsInvariance, <1>2, PTL
------------------------------------------------------------------------------
(***************************************************************************)
(* How many rows a record without a log_id gets.  What may still add a row *)
(* of record r is a file, a fragment in a hand or in a queue, or one that a*)
(* force_sync is about to recover: each is a triple of kind, place and     *)
(* fragment.  A step that does not fail only moves such a triple, or makes *)
(* a row of it; a crash, a failed import and a force_sync add at most one  *)
(* for each fragment that carries the record.                              *)
(***************************************************************************)

Kinds  == {"file", "lost", "visit", "read", "held"} \cup Lanes
Places == Threads \cup Nat

MayAdd(k, x, f, r) ==
  /\ f \in written /\ r \in Content[f]
  /\ \/ k = "file" /\ x = 0 /\ f \in jsonl
     \/ k = "lost" /\ x = 0 /\ ~up /\ f \in processing
     \/ k = "visit" /\ x \in Threads /\ pc[x] = "recovering" /\ f \in todo[x]
     \/ k = "read" /\ x \in Threads /\ f \in Reading(x)
     \/ k = "held" /\ x \in Threads /\ f \in held[x] /\ pc[x] # "unlinking"
                   /\ <<Lane(f), Txn[r]>> \notin done[x]
     \/ k \in Lanes /\ x \in 1..Len(queue[k]) /\ queue[k][x] = f

Pending(r) ==
  {z \in Kinds \X Places \X Fragments :
     \E k \in Kinds, x \in Places, f \in Fragments : z = <<k, x, f>> /\ MayAdd(k, x, f, r)}

Carriers(r) == {f \in written : r \in Content[f]}
Chances     == 1 + faults.crash + faults.import + faults.sync

RowsOf(r) == /\ IsFiniteSet(Carriers(r)) /\ IsFiniteSet(Pending(r))
             /\ copies[r] + Cardinality(Pending(r)) <= Cardinality(Carriers(r)) * Chances

RowsInv == Poison = {} => \A r \in Records : RowsOf(r)

\* Sets that grow by few elements, or in which one element takes the place of another.
LEMMA CardSwap ==
  ASSUME NEW P, IsFiniteSet(P), NEW a \in P, NEW b, NEW Q, Q \subseteq (P \ {a}) \cup {b}
  PROVE  IsFiniteSet(Q) /\ Cardinality(Q) <= Cardinality(P)
<1>1. /\ IsFiniteSet(P \ {a}) /\ Cardinality(P \ {a}) = Cardinality(P) - 1
      /\ Cardinality(P) \in Nat /\ Cardinality(P \ {a}) \in Nat
  BY FS_RemoveElement, FS_CardinalityType
<1>2. /\ IsFiniteSet((P \ {a}) \cup {b})
      /\ Cardinality((P \ {a}) \cup {b}) <= Cardinality(P \ {a}) + 1
      /\ Cardinality((P \ {a}) \cup {b}) \in Nat
  <2> DEFINE R == P \ {a}
  <2>1. IsFiniteSet(R) /\ Cardinality(R) \in Nat
    BY <1>1
  <2> HIDE DEF R
  <2>2. /\ IsFiniteSet(R \cup {b})
        /\ Cardinality(R \cup {b}) = IF b \in R THEN Cardinality(R) ELSE Cardinality(R) + 1
    BY <2>1, FS_AddElement
  <2>3. Cardinality(R \cup {b}) <= Cardinality(R) + 1 /\ Cardinality(R \cup {b}) \in Nat
    BY <2>1, <2>2
  <2> QED
    BY <2>2, <2>3 DEF R
<1>3. IsFiniteSet(Q) /\ Cardinality(Q) <= Cardinality((P \ {a}) \cup {b})
      /\ Cardinality(Q) \in Nat
  BY <1>2, FS_Subset, FS_CardinalityType
<1> QED
  BY <1>1, <1>2, <1>3

LEMMA CardDrop ==
  ASSUME NEW P, IsFiniteSet(P), NEW a \in P, NEW Q, Q \subseteq P \ {a}
  PROVE  /\ IsFiniteSet(Q) /\ Cardinality(Q) + 1 <= Cardinality(P)
         /\ Cardinality(Q) \in Nat /\ Cardinality(P) \in Nat
<1>1. /\ IsFiniteSet(P \ {a}) /\ Cardinality(P \ {a}) = Cardinality(P) - 1
      /\ Cardinality(P) \in Nat /\ Cardinality(P \ {a}) \in Nat
  BY FS_RemoveElement, FS_CardinalityType
<1>2. IsFiniteSet(Q) /\ Cardinality(Q) <= Cardinality(P \ {a}) /\ Cardinality(Q) \in Nat
  BY <1>1, FS_Subset, FS_CardinalityType
<1> QED
  BY <1>1, <1>2

LEMMA CardGrow ==
  ASSUME NEW P, IsFiniteSet(P), NEW G, IsFiniteSet(G), NEW Q, Q \subseteq P \cup G
  PROVE  /\ IsFiniteSet(Q) /\ Cardinality(Q) <= Cardinality(P) + Cardinality(G)
         /\ Cardinality(Q) \in Nat /\ Cardinality(P) \in Nat /\ Cardinality(G) \in Nat
<1>1. /\ IsFiniteSet(P \cup G)
      /\ Cardinality(P \cup G) = Cardinality(P) + Cardinality(G) - Cardinality(P \cap G)
      /\ Cardinality(P) \in Nat /\ Cardinality(G) \in Nat /\ Cardinality(P \cup G) \in Nat
  BY FS_Union, FS_CardinalityType
<1>2. IsFiniteSet(P \cap G) /\ Cardinality(P \cap G) \in Nat
  BY FS_Subset, FS_CardinalityType
<1>3. IsFiniteSet(Q) /\ Cardinality(Q) <= Cardinality(P \cup G) /\ Cardinality(Q) \in Nat
  BY <1>1, FS_Subset, FS_CardinalityType
<1> QED
  BY <1>1, <1>2, <1>3

LEMMA CardImage ==
  ASSUME NEW P, IsFiniteSet(P), NEW g, DOMAIN g = P, g = [y \in P |-> g[y]],
         NEW Q, Q \subseteq {g[y] : y \in P}
  PROVE  /\ IsFiniteSet(Q) /\ Cardinality(Q) <= Cardinality(P)
         /\ Cardinality(Q) \in Nat /\ Cardinality(P) \in Nat
<1> DEFINE T == {g[y] : y \in P}
<1>1. g \in Surjection(P, T)
  BY DEF Surjection
<1>2. /\ IsFiniteSet(T) /\ Cardinality(T) <= Cardinality(P)
      /\ Cardinality(T) \in Nat /\ Cardinality(P) \in Nat
  BY <1>1, FS_Surjection, FS_CardinalityType
<1>3. IsFiniteSet(Q) /\ Cardinality(Q) <= Cardinality(T) /\ Cardinality(Q) \in Nat
  BY <1>2, FS_Subset, FS_CardinalityType
<1> QED
  BY <1>2, <1>3

\* The triples of one kind and place, one for each fragment of a finite set.
LEMMA CardTriples ==
  ASSUME NEW F, IsFiniteSet(F), NEW k, NEW x, NEW Q,
         \A z \in Q : \E f \in F : z = <<k, x, f>>
  PROVE  /\ IsFiniteSet(Q) /\ Cardinality(Q) <= Cardinality(F)
         /\ Cardinality(Q) \in Nat /\ Cardinality(F) \in Nat
<1> DEFINE g == [f \in F |-> <<k, x, f>>]
<1>1. DOMAIN g = F /\ g = [y \in F |-> g[y]] /\ Q \subseteq {g[y] : y \in F}
  OBVIOUS
<1> HIDE DEF g
<1> QED
  BY <1>1, CardImage

LEMMA PendingTriples ==
  ASSUME NEW r
  PROVE  /\ \A k \in Kinds, x \in Places, f \in Fragments :
               <<k, x, f>> \in Pending(r) <=> MayAdd(k, x, f, r)
         /\ \A z \in Pending(r) : \E k \in Kinds, x \in Places, f \in Fragments :
               z = <<k, x, f>> /\ MayAdd(k, x, f, r)
<1>1. \A k \in Kinds, x \in Places, f \in Fragments :
         <<k, x, f>> \in Pending(r) <=> MayAdd(k, x, f, r)
  BY DEF Pending
<1>2. \A z \in Pending(r) : \E k \in Kinds, x \in Places, f \in Fragments :
         z = <<k, x, f>> /\ MayAdd(k, x, f, r)
  BY ZenonT(30) DEF Pending
<1> QED
  BY <1>1, <1>2

LEMMA PendingTriplesNext ==
  ASSUME NEW r, NEW z \in Pending(r)'
  PROVE  \E k \in Kinds, x \in Places, f \in Fragments : z = <<k, x, f>> /\ MayAdd(k, x, f, r)'
  BY ZenonT(30) DEF Pending, Kinds, Places

LEMMA Arithmetic ==
  /\ \A c, n, m, d, e, h \in Nat : c + n <= h /\ d + m <= c + n => d + m <= h
  /\ \A c, t \in Nat : c * (t + 1) = c * t + c /\ (c + 1) * t = c * t + t /\ c * t \in Nat
  OBVIOUS

LEMMA Numbers ==
  ASSUME TypeOK, NEW r \in Records, RowsOf(r)
  PROVE  /\ copies[r] \in Nat /\ Chances \in Nat /\ Chances >= 1
         /\ Cardinality(Pending(r)) \in Nat /\ Cardinality(Carriers(r)) \in Nat
BY FS_CardinalityType DEF TypeOK, StoreTyped, RowsOf, Chances

\* A step that does not change rows, written fragments and faults moves triples.
LEMMA Moved ==
  ASSUME TypeOK, NEW r \in Records, RowsOf(r), copies'[r] = copies[r],
         UNCHANGED written, Chances' = Chances,
         IsFiniteSet(Pending(r)'), Cardinality(Pending(r)') <= Cardinality(Pending(r))
  PROVE  RowsOf(r)'
<1>1. Carriers(r)' = Carriers(r)
  BY DEF Carriers
<1>2. Cardinality(Pending(r)') \in Nat
  BY FS_CardinalityType
<1>3. Cardinality(Carriers(r)) * Chances \in Nat
  BY Numbers
<1> QED
  BY <1>1, <1>2, <1>3, Numbers DEF RowsOf

LEMMA Swapped ==
  ASSUME TypeOK, NEW r \in Records, RowsOf(r), copies'[r] = copies[r],
         UNCHANGED written, Chances' = Chances,
         NEW a, NEW b,
         \A k \in Kinds, x \in Places, f \in Fragments :
            MayAdd(k, x, f, r)' => \/ MayAdd(k, x, f, r) /\ <<k, x, f>> # a
                                   \/ a \in Pending(r) /\ <<k, x, f>> = b
                                   \/ a \notin Pending(r) /\ MayAdd(k, x, f, r)
  PROVE  RowsOf(r)'
<1>1. \A z \in Pending(r)' : \/ z \in Pending(r) /\ z # a
                             \/ a \in Pending(r) /\ z = b
                             \/ a \notin Pending(r) /\ z \in Pending(r)
  BY PendingTriples, PendingTriplesNext
<1>2. IsFiniteSet(Pending(r))
  BY DEF RowsOf
<1>3. IsFiniteSet(Pending(r)') /\ Cardinality(Pending(r)') <= Cardinality(Pending(r))
  <2>1. CASE a \in Pending(r)
    <3>1. Pending(r)' \subseteq (Pending(r) \ {a}) \cup {b}
      BY <1>1, <2>1
    <3> QED
      BY <1>2, <2>1, <3>1, CardSwap
  <2>2. CASE a \notin Pending(r)
    <3>1. Pending(r)' \subseteq Pending(r)
      BY <1>1, <2>2
    <3> QED
      BY <1>2, <3>1, FS_Subset
  <2> QED
    BY <2>1, <2>2
<1> QED
  BY <1>3, Moved

LEMMA Shrunk ==
  ASSUME TypeOK, NEW r \in Records, RowsOf(r), copies'[r] = copies[r],
         UNCHANGED written, Chances' = Chances,
         \A k \in Kinds, x \in Places, f \in Fragments : MayAdd(k, x, f, r)' => MayAdd(k, x, f, r)
  PROVE  RowsOf(r)'
<1>1. Pending(r)' \subseteq Pending(r)
  BY PendingTriples, PendingTriplesNext
<1>2. IsFiniteSet(Pending(r)') /\ Cardinality(Pending(r)') <= Cardinality(Pending(r))
  BY <1>1, FS_Subset DEF RowsOf
<1> QED
  BY <1>2, Moved

\* Each action.

LEMMA RecoverRows ==
  ASSUME IInv, NEW r \in Records, RowsOf(r), NEW s \in Threads, RecoverFragment(s)
  PROVE  RowsOf(r)'
<1> USE DEF IInv, TypeOK, StoreTyped, ThreadsTyped
<1>1. PICK f \in todo[s] :
        /\ todo' = [todo EXCEPT ![s] = @ \ {f}]
        /\ processing' = processing \ {f}
        /\ jsonl' = IF f \in processing THEN jsonl \cup {f} ELSE jsonl
  BY DEF RecoverFragment
<1>2. /\ up /\ pc[s] = "recovering" /\ s \in Threads /\ f \in Fragments
      /\ UNCHANGED <<written, copies, queue, up, pc, held, done, faults>>
  BY DEF RecoverFragment
<1>3. \A k \in Kinds, x \in Places, g \in Fragments :
         MayAdd(k, x, g, r)' =>
            \/ MayAdd(k, x, g, r) /\ <<k, x, g>> # <<"visit", s, f>>
            \/ r \in Content[f] /\ f \in written /\ <<k, x, g>> = <<"file", 0, f>>
  BY <1>1, <1>2 DEF MayAdd, Reading
<1>4. r \in Content[f] /\ f \in written => <<"visit", s, f>> \in Pending(r)
  BY <1>1, <1>2, PendingTriples DEF MayAdd, Kinds, Places
<1>5. Chances' = Chances
  BY <1>2 DEF Chances
<1> HIDE DEF IInv, StoreTyped, ThreadsTyped, TypeOK
<1> QED
  BY <1>2, <1>3, <1>4, <1>5, Swapped DEF IInv

LEMMA ClaimRows ==
  ASSUME IInv, NEW r \in Records, RowsOf(r), NEW p \in Claimers, ClaimFragment(p)
  PROVE  RowsOf(r)'
<1> USE DEF IInv, TypeOK, StoreTyped, ThreadsTyped
<1>1. PICK f \in First(todo[p]) :
        \/ /\ f \in jsonl
           /\ jsonl' = jsonl \ {f}
           /\ processing' = processing \cup {f}
           /\ pc' = [pc EXCEPT ![p] = "reading"]
           /\ UNCHANGED todo
        \/ /\ f \notin jsonl
           /\ todo' = [todo EXCEPT ![p] = @ \ {f}]
           /\ UNCHANGED <<jsonl, processing, pc>>
  BY DEF ClaimFragment
<1>2. /\ up /\ pc[p] = "claiming" /\ p \in Threads /\ f \in Fragments /\ todo[p] \in SUBSET Fragments
      /\ UNCHANGED <<written, copies, queue, up, held, done, faults>>
  BY <1>1 DEF ClaimFragment, First
<1>3. Chances' = Chances
  BY <1>2 DEF Chances
<1>4. \A g \in First(todo[p]) : g = f
  BY <1>2, FirstIsOne
<1>5. \A k \in Kinds, x \in Places, g \in Fragments :
         MayAdd(k, x, g, r)' =>
            \/ MayAdd(k, x, g, r) /\ <<k, x, g>> # <<"file", 0, f>>
            \/ /\ r \in Content[f] /\ f \in written /\ f \in jsonl
               /\ <<k, x, g>> = <<"read", p, f>>
            \/ f \notin jsonl /\ MayAdd(k, x, g, r)
  BY <1>1, <1>2, <1>4 DEF MayAdd, Reading
<1>6. <<"file", 0, f>> \in Pending(r) <=> r \in Content[f] /\ f \in written /\ f \in jsonl
  <2>1. "file" \in Kinds /\ 0 \in Places
    BY DEF Kinds, Places
  <2>2. <<"file", 0, f>> \in Pending(r) <=> MayAdd("file", 0, f, r)
    BY <1>2, <2>1, PendingTriples
  <2> QED
    BY <2>2 DEF MayAdd
<1> HIDE DEF IInv, StoreTyped, ThreadsTyped, TypeOK
<1>7. \A k \in Kinds, x \in Places, g \in Fragments :
         MayAdd(k, x, g, r)' =>
            \/ MayAdd(k, x, g, r) /\ <<k, x, g>> # <<"file", 0, f>>
            \/ <<"file", 0, f>> \in Pending(r) /\ <<k, x, g>> = <<"read", p, f>>
            \/ <<"file", 0, f>> \notin Pending(r) /\ MayAdd(k, x, g, r)
  BY <1>5, <1>6
<1> QED
  BY <1>2, <1>3, <1>7, Swapped DEF IInv

LEMMA ReadRows ==
  ASSUME IInv, NEW r \in Records, RowsOf(r), NEW p \in Claimers, ReadFragment(p)
  PROVE  RowsOf(r)'
<1> USE DEF IInv, TypeOK, StoreTyped, ThreadsTyped
<1>1. PICK f \in First(todo[p]) :
        /\ f \in processing
        /\ \/ /\ held' = [held EXCEPT ![p] = @ \cup {f}]
              /\ UNCHANGED processing
           \/ /\ processing' = processing \ {f}
              /\ UNCHANGED held
        /\ todo' = [todo EXCEPT ![p] = @ \ {f}]
  BY DEF ReadFragment
<1>2. /\ up /\ pc[p] = "reading" /\ p \in Threads /\ f \in Fragments /\ todo[p] \in SUBSET Fragments
      /\ pc' = [pc EXCEPT ![p] = "claiming"]
      /\ UNCHANGED <<written, jsonl, copies, queue, up, done, faults>>
  BY <1>1 DEF ReadFragment, First
<1>3. Chances' = Chances
  BY <1>2 DEF Chances
<1>4. \A g \in First(todo[p]) : g = f
  BY <1>2, FirstIsOne
<1>5. \A k \in Kinds, x \in Places, g \in Fragments :
         MayAdd(k, x, g, r)' =>
            \/ MayAdd(k, x, g, r) /\ <<k, x, g>> # <<"read", p, f>>
            \/ r \in Content[f] /\ f \in written /\ <<k, x, g>> = <<"held", p, f>>
  BY <1>1, <1>2, <1>4 DEF MayAdd, Reading
<1>6. r \in Content[f] /\ f \in written => <<"read", p, f>> \in Pending(r)
  BY <1>1, <1>2, PendingTriples DEF MayAdd, Kinds, Places, Reading
<1> HIDE DEF IInv, StoreTyped, ThreadsTyped, TypeOK
<1> QED
  BY <1>2, <1>3, <1>5, <1>6, Swapped DEF IInv

LEMMA ReadFailsRows ==
  ASSUME IInv, NEW r \in Records, RowsOf(r), NEW p \in Claimers, ReadFails(p)
  PROVE  RowsOf(r)'
<1> USE DEF IInv, TypeOK, StoreTyped, ThreadsTyped
<1>1. PICK f \in First(todo[p]) :
        \/ /\ f \notin processing
           /\ UNCHANGED <<jsonl, processing, faults>>
        \/ /\ f \in processing
           /\ processing' = processing \ {f}
           /\ jsonl' = jsonl \cup {f}
           /\ faults' = [faults EXCEPT !.read = @ + 1]
  BY DEF ReadFails
<1>2. /\ up /\ pc[p] = "reading" /\ p \in Threads /\ f \in Fragments /\ todo[p] \in SUBSET Fragments
      /\ pc' = [pc EXCEPT ![p] = Rest(p)] /\ Rest(p) \in {"listing", "idle"}
      /\ todo' = [todo EXCEPT ![p] = {}] /\ held' = [held EXCEPT ![p] = {}]
      /\ UNCHANGED <<written, copies, queue, up, done>>
  BY <1>1 DEF ReadFails, First, Rest
<1>3. Chances' = Chances
  BY <1>1 DEF Chances
<1>4. \A g \in First(todo[p]) : g = f
  BY <1>2, FirstIsOne
<1>5. \A k \in Kinds, x \in Places, g \in Fragments :
         MayAdd(k, x, g, r)' =>
            \/ MayAdd(k, x, g, r) /\ <<k, x, g>> # <<"read", p, f>>
            \/ r \in Content[f] /\ f \in written /\ <<k, x, g>> = <<"file", 0, f>>
  <2>1. \A x \in Threads : Reading(x)' = IF x = p THEN {} ELSE Reading(x)
    BY <1>2 DEF Reading
  <2>2. f \in Reading(p) /\ \A g \in Reading(p) : g = f
    BY <1>2, <1>4 DEF Reading
  <2>3. jsonl' \subseteq jsonl \cup {f} /\ UNCHANGED <<written, queue, up, done>> /\ up
    BY <1>1, <1>2
  <2>4. \A x \in Threads : /\ pc'[x] = "recovering" => pc[x] = "recovering"
                           /\ todo'[x] \subseteq todo[x]
                           /\ held'[x] # {} => held'[x] = held[x] /\ pc'[x] = pc[x]
    BY <1>2
  <2> HIDE DEF IInv, StoreTyped, ThreadsTyped, TypeOK
  <2> QED
    BY <2>1, <2>2, <2>3, <2>4 DEF MayAdd
<1>6. r \in Content[f] /\ f \in written => <<"read", p, f>> \in Pending(r)
  BY <1>1, <1>2, PendingTriples DEF MayAdd, Kinds, Places, Reading
<1> HIDE DEF IInv, StoreTyped, ThreadsTyped, TypeOK
<1> QED
  BY <1>2, <1>3, <1>5, <1>6, Swapped DEF IInv

\* Lists, hand-overs and deletions add nothing.
LEMMA ListRows ==
  ASSUME IInv, NEW r \in Records, RowsOf(r), NEW p \in Threads,
         ListFragments(p) \/ ClaimDone(p) \/ UnlinkImported(p)
  PROVE  RowsOf(r)'
<1> USE DEF IInv, TypeOK, StoreTyped, ThreadsTyped, Rest
<1>1. \A k \in Kinds, x \in Places, g \in Fragments : MayAdd(k, x, g, r)' => MayAdd(k, x, g, r)
  <2>1. CASE ListFragments(p)
    BY <2>1 DEF MayAdd, Reading, ListFragments, disk
  <2>2. CASE ClaimDone(p)
    BY <2>2 DEF MayAdd, Reading, ClaimDone, disk
  <2>3. CASE UnlinkImported(p)
    BY <2>3 DEF MayAdd, Reading, UnlinkImported
  <2> QED
    BY <2>1, <2>2, <2>3
<1>2. UNCHANGED <<copies, written, faults>>
  BY DEF ListFragments, ClaimDone, UnlinkImported, disk
<1>3. Chances' = Chances
  BY <1>2 DEF Chances
<1> HIDE DEF IInv, StoreTyped, ThreadsTyped, TypeOK
<1> QED
  BY <1>1, <1>2, <1>3, Shrunk DEF IInv

LEMMA ImportDoneRows ==
  ASSUME IInv, NEW r \in Records, RowsOf(r), NEW p \in Threads, ImportDone(p)
  PROVE  RowsOf(r)'
<1> USE DEF IInv, TypeOK, StoreTyped, ThreadsTyped
<1>1. /\ pc' = [pc EXCEPT ![p] = "unlinking"] /\ done' = [done EXCEPT ![p] = {}]
      /\ UNCHANGED <<written, jsonl, processing, copies, queue, up, todo, held, faults>>
      /\ pc[p] = "importing"
  BY DEF ImportDone, disk
<1>2. \A k \in Kinds, x \in Places, g \in Fragments : MayAdd(k, x, g, r)' => MayAdd(k, x, g, r)
  BY <1>1 DEF MayAdd, Reading
<1>3. Chances' = Chances
  BY <1>1 DEF Chances
<1> HIDE DEF IInv, StoreTyped, ThreadsTyped, TypeOK
<1> QED
  BY <1>1, <1>2, <1>3, Shrunk DEF IInv

LEMMA ReturnRows ==
  ASSUME IInv, NEW r \in Records, RowsOf(r), NEW p \in Threads, ReturnFragment(p)
  PROVE  RowsOf(r)'
<1> USE DEF IInv, TypeOK, StoreTyped, ThreadsTyped
<1>1. PICK f \in held[p] :
        /\ processing' = processing \ {f}
        /\ jsonl' = IF f \in processing THEN jsonl \cup {f} ELSE jsonl
        /\ held' = [held EXCEPT ![p] = @ \ {f}]
        /\ pc' = IF held[p] = {f} THEN [pc EXCEPT ![p] = "idle"] ELSE pc
  BY DEF ReturnFragment
<1>2. /\ up /\ pc[p] = "returning" /\ f \in Fragments
      /\ UNCHANGED <<written, copies, queue, up, todo, done, faults>>
  BY DEF ReturnFragment
<1>3. done[p] = {}
  BY <1>2 DEF ImportProgress
<1>4. Chances' = Chances
  BY <1>2 DEF Chances
<1>5. \A k \in Kinds, x \in Places, g \in Fragments :
         MayAdd(k, x, g, r)' =>
            \/ MayAdd(k, x, g, r) /\ <<k, x, g>> # <<"held", p, f>>
            \/ r \in Content[f] /\ f \in written /\ <<k, x, g>> = <<"file", 0, f>>
  BY <1>1, <1>2 DEF MayAdd, Reading
<1>6. r \in Content[f] /\ f \in written => <<"held", p, f>> \in Pending(r)
  BY <1>1, <1>2, <1>3, PendingTriples DEF MayAdd, Kinds, Places
<1> HIDE DEF IInv, StoreTyped, ThreadsTyped, TypeOK
<1> QED
  BY <1>2, <1>4, <1>5, <1>6, Swapped DEF IInv

\* A fault or a force_sync that adds at most one triple for each carrier.
LEMMA Grown ==
  ASSUME TypeOK, NEW r \in Records, RowsOf(r), copies'[r] = copies[r],
         UNCHANGED written, Chances' = Chances + 1, NEW kind, NEW place,
         \A k \in Kinds, x \in Places, f \in Fragments :
            MayAdd(k, x, f, r)' => \/ MayAdd(k, x, f, r)
                                   \/ f \in Carriers(r) /\ <<k, x, f>> = <<kind, place, f>>
  PROVE  RowsOf(r)'
<1> DEFINE C == Carriers(r)
           G == {<<kind, place, f>> : f \in C}
<1>1. IsFiniteSet(C) /\ \A z \in G : \E f \in C : z = <<kind, place, f>>
  BY DEF RowsOf
<1>2. IsFiniteSet(G) /\ Cardinality(G) <= Cardinality(C) /\ Cardinality(G) \in Nat
  <2> HIDE DEF C, G
  <2> QED
    <3>1. IsFiniteSet(C)
      BY <1>1
    <3>2. \A z \in G : \E f \in C : z = <<kind, place, f>>
      BY <1>1
    <3> HIDE <1>1
    <3> QED
      BY ONLY <3>1, <3>2, CardTriples
<1>3. Pending(r)' \subseteq Pending(r) \cup G
  BY PendingTriples, PendingTriplesNext
<1> HIDE DEF C, G
<1>4. /\ IsFiniteSet(Pending(r)')
      /\ Cardinality(Pending(r)') <= Cardinality(Pending(r)) + Cardinality(G)
      /\ Cardinality(Pending(r)') \in Nat
  BY <1>2, <1>3, CardGrow DEF RowsOf
<1>5. Carriers(r)' = C
  BY DEF Carriers, C
<1>6. Cardinality(C) * (Chances + 1) = Cardinality(C) * Chances + Cardinality(C)
      /\ Cardinality(C) * Chances \in Nat
  BY Numbers, Arithmetic DEF C
<1> QED
  BY <1>2, <1>4, <1>5, <1>6, Numbers DEF RowsOf, C

LEMMA ForceSyncRows ==
  ASSUME IInv, NEW r \in Records, RowsOf(r), NEW s \in Syncers, ForceSync(s)
  PROVE  RowsOf(r)'
<1> USE DEF IInv, TypeOK, StoreTyped, ThreadsTyped
<1>1. /\ pc[s] = "idle" /\ pc' = [pc EXCEPT ![s] = "recovering"]
      /\ todo' = [todo EXCEPT ![s] = processing]
      /\ faults' = [faults EXCEPT !.sync = @ + 1]
      /\ UNCHANGED <<written, jsonl, processing, copies, queue, up, held, done>>
  BY DEF ForceSync, disk
<1>2. Chances' = Chances + 1
  BY <1>1 DEF Chances
<1>3. \A k \in Kinds, x \in Places, f \in Fragments :
         MayAdd(k, x, f, r)' => \/ MayAdd(k, x, f, r)
                                \/ f \in Carriers(r) /\ <<k, x, f>> = <<"visit", s, f>>
  BY <1>1 DEF MayAdd, Reading, Carriers
<1> HIDE DEF IInv, StoreTyped, ThreadsTyped, TypeOK
<1> QED
  BY <1>1, <1>2, <1>3, Grown DEF IInv

LEMMA CrashRows ==
  ASSUME IInv, NEW r \in Records, RowsOf(r), Crash
  PROVE  RowsOf(r)'
<1> USE DEF IInv, TypeOK, StoreTyped, ThreadsTyped
<1>1. /\ pc' = [p \in Threads |-> Rest(p)] /\ todo' = [p \in Threads |-> {}]
      /\ held' = [p \in Threads |-> {}] /\ queue' = [lane \in Lanes |-> << >>]
      /\ faults' = [faults EXCEPT !.crash = @ + 1]
      /\ UNCHANGED <<written, jsonl, processing, copies>>
  BY DEF Crash, disk
<1>2. Chances' = Chances + 1
  BY <1>1 DEF Chances
<1>3. \A x \in Threads : Reading(x)' = {} /\ pc'[x] # "recovering" /\ held'[x] = {}
  BY <1>1 DEF Reading, Rest
<1>4. \A k \in Lanes : 1..Len(queue'[k]) = {}
  BY <1>1
<1>5. \A k \in Kinds, x \in Places, f \in Fragments :
         MayAdd(k, x, f, r)' => \/ MayAdd(k, x, f, r)
                                \/ f \in Carriers(r) /\ <<k, x, f>> = <<"lost", 0, f>>
  <2> SUFFICES ASSUME NEW k \in Kinds, NEW x \in Places, NEW f \in Fragments, MayAdd(k, x, f, r)'
               PROVE  \/ MayAdd(k, x, f, r)
                      \/ f \in Carriers(r) /\ <<k, x, f>> = <<"lost", 0, f>>
    OBVIOUS
  <2>1. f \in written /\ r \in Content[f]
    BY <1>1 DEF MayAdd
  <2>2. \/ k = "file" /\ x = 0 /\ f \in jsonl
        \/ k = "lost" /\ x = 0
    BY <1>1, <1>3, <1>4 DEF MayAdd
  <2> QED
    BY <2>1, <2>2 DEF MayAdd, Carriers
<1> HIDE DEF IInv, StoreTyped, ThreadsTyped, TypeOK
<1> QED
  BY <1>1, <1>2, <1>5, Grown DEF IInv

LEMMA StartRows ==
  ASSUME IInv, NEW r \in Records, RowsOf(r), StartInboxPoller
  PROVE  RowsOf(r)'
<1> DEFINE P == Pending(r)
           g == [y \in P |-> IF y[1] = "lost" THEN <<"file", 0, y[3]>> ELSE y]
<1>1. /\ ~up /\ up' = TRUE /\ jsonl' = jsonl \cup processing /\ processing' = {}
      /\ UNCHANGED <<written, copies, queue, pc, todo, held, done, faults>>
  BY DEF StartInboxPoller, threads
<1>2. Chances' = Chances
  BY <1>1 DEF Chances
<1>3. \A k \in Kinds, x \in Places, f \in Fragments :
         MayAdd(k, x, f, r)' => \/ MayAdd(k, x, f, r) /\ k # "lost"
                                \/ MayAdd("lost", 0, f, r) /\ <<k, x, f>> = <<"file", 0, f>>
  BY <1>1 DEF MayAdd, Reading
<1>4. "lost" \in Kinds /\ 0 \in Places
  BY DEF Kinds, Places
<1>5. ASSUME NEW z \in Pending(r)'
      PROVE  \E y \in P : z = g[y]
  <2>1. PICK k \in Kinds, x \in Places, f \in Fragments : z = <<k, x, f>> /\ MayAdd(k, x, f, r)'
    BY PendingTriplesNext
  <2>2. CASE MayAdd(k, x, f, r) /\ k # "lost"
    <3>1. z \in P /\ z[1] = k
      BY <2>1, <2>2, PendingTriples
    <3> QED
      BY <2>2, <3>1
  <2>3. CASE MayAdd("lost", 0, f, r) /\ <<k, x, f>> = <<"file", 0, f>>
    <3>1. <<"lost", 0, f>> \in P
      BY <1>4, <2>3, PendingTriples
    <3>2. g[<<"lost", 0, f>>] = <<"file", 0, f>>
      BY <3>1
    <3> QED
      BY <2>1, <2>3, <3>1, <3>2
  <2> QED
    BY <1>3, <2>1, <2>2, <2>3
<1>6. Pending(r)' \subseteq {g[y] : y \in P} /\ DOMAIN g = P /\ g = [y \in P |-> g[y]]
  BY <1>5
<1>7. IsFiniteSet(P)
  BY DEF RowsOf
<1> HIDE DEF g
<1>8. IsFiniteSet(Pending(r)') /\ Cardinality(Pending(r)') <= Cardinality(P)
  BY <1>6, <1>7, CardImage
<1> QED
  BY <1>1, <1>2, <1>8, Moved DEF IInv

LEMMA WriteRows ==
  ASSUME IInv, NEW r \in Records, RowsOf(r), NEW f \in Fragments, WriteLocal(f)
  PROVE  RowsOf(r)'
<1> USE DEF IInv, TypeOK, StoreTyped, ThreadsTyped
<1>1. /\ f \notin written /\ written' = written \cup {f} /\ jsonl' = jsonl \cup {f}
      /\ UNCHANGED <<processing, copies, queue, up, pc, todo, held, done, faults>>
  BY DEF WriteLocal, threads
<1>2. Chances' = Chances
  BY <1>1 DEF Chances
<1>3. /\ f \notin processing /\ \A x \in Threads : f \notin held[x] /\ f \notin todo[x]
      /\ \A k \in Lanes : \A i \in 1..Len(queue[k]) : queue[k][i] # f
  BY <1>1 DEF OnlyWritten
<1>4. \A x \in Threads : Reading(x)' = Reading(x) /\ f \notin Reading(x)
  BY <1>1, <1>3 DEF Reading, First
<1>5. \A k \in Kinds, x \in Places, h \in Fragments :
         MayAdd(k, x, h, r)' => \/ MayAdd(k, x, h, r)
                                \/ r \in Content[f] /\ <<k, x, h>> = <<"file", 0, f>>
  BY <1>1, <1>3, <1>4 DEF MayAdd
<1> HIDE DEF IInv, StoreTyped, ThreadsTyped, TypeOK
<1>6. \A z \in Pending(r)' : z \in Pending(r) \/ (r \in Content[f] /\ z = <<"file", 0, f>>)
  BY <1>5, PendingTriples, PendingTriplesNext
<1>7. CASE r \in Content[f]
  <2>1. Carriers(r)' = Carriers(r) \cup {f} /\ f \notin Carriers(r)
    BY <1>1, <1>7 DEF Carriers
  <2>2. /\ IsFiniteSet(Carriers(r)') /\ Cardinality(Carriers(r)') = Cardinality(Carriers(r)) + 1
    BY <2>1, FS_AddElement DEF RowsOf
  <2> DEFINE G == {<<"file", 0, f>>}
  <2>3. IsFiniteSet(G) /\ Cardinality(G) = 1 /\ Pending(r)' \subseteq Pending(r) \cup G
    BY <1>6, FS_Singleton
  <2> HIDE DEF G
  <2>4. /\ IsFiniteSet(Pending(r)') /\ Cardinality(Pending(r)') \in Nat
        /\ Cardinality(Pending(r)') <= Cardinality(Pending(r)) + 1
    BY <2>3, CardGrow DEF RowsOf
  <2>5. /\ (Cardinality(Carriers(r)) + 1) * Chances = Cardinality(Carriers(r)) * Chances + Chances
        /\ Cardinality(Carriers(r)) * Chances \in Nat
    BY Numbers, Arithmetic DEF IInv
  <2> QED
    BY <1>1, <1>2, <2>2, <2>4, <2>5, Numbers DEF RowsOf, IInv
<1>8. CASE r \notin Content[f]
  <2>1. Carriers(r)' = Carriers(r)
    BY <1>1, <1>8 DEF Carriers
  <2>2. Pending(r)' \subseteq Pending(r)
    BY <1>6, <1>8
  <2>3. /\ IsFiniteSet(Pending(r)') /\ Cardinality(Pending(r)') <= Cardinality(Pending(r))
        /\ Cardinality(Pending(r)') \in Nat
    BY <2>2, FS_Subset, FS_CardinalityType DEF RowsOf
  <2>4. Cardinality(Carriers(r)) * Chances \in Nat
    BY Numbers DEF IInv
  <2> QED
    BY <1>1, <1>2, <2>1, <2>3, <2>4, Numbers DEF RowsOf, IInv
<1> QED
  BY <1>7, <1>8

LEMMA DispatchRows ==
  ASSUME IInv, NEW r \in Records, RowsOf(r), Dispatch
  PROVE  RowsOf(r)'
<1> USE DEF IInv, TypeOK, StoreTyped, ThreadsTyped, QueuesTyped
<1>1. PICK f \in held[Scanner] :
        /\ queue' = [queue EXCEPT ![Lane(f)] = Append(@, f)]
        /\ held' = [held EXCEPT ![Scanner] = @ \ {f}]
        /\ pc' = IF held[Scanner] = {f} THEN [pc EXCEPT ![Scanner] = "listing"] ELSE pc
  BY DEF Dispatch
<1>2. /\ pc[Scanner] = "dispatching" /\ f \in Fragments /\ Lane(f) \in Lanes
      /\ UNCHANGED <<written, jsonl, processing, copies, up, todo, done, faults>>
  BY <1>1 DEF Dispatch, disk, Lane
<1> DEFINE q == queue[Lane(f)]
           n == Len(q) + 1
<1>3. /\ q \in Seq(Fragments) /\ Len(Append(q, f)) = n /\ Len(q) \in Nat /\ n \in Nat
      /\ \A i \in 1..Len(q) : Append(q, f)[i] = q[i]
  BY <1>2
<1>4. /\ queue'[Lane(f)] = Append(q, f)
      /\ \A lane \in Lanes : lane # Lane(f) => queue'[lane] = queue[lane]
  BY <1>1, <1>2
<1>5. \A x \in Threads : Reading(x)' = Reading(x)
  BY <1>1, <1>2 DEF Reading
<1>6. Chances' = Chances
  BY <1>2 DEF Chances
<1>7. done[Scanner] = {}
  BY <1>2 DEF ImportProgress
<1>8. ASSUME NEW k \in Lanes, NEW i \in 1..Len(queue'[k])
      PROVE  \/ i \in 1..Len(queue[k]) /\ queue'[k][i] = queue[k][i]
             \/ k = Lane(f) /\ i = n
  <2>1. CASE k = Lane(f)
    <3>1. i \in 1..(Len(q) + 1)
      BY <1>3, <1>4, <2>1
    <3>2. i = Len(q) + 1 \/ i \in 1..Len(q)
      BY <1>3, <3>1, OneMore
    <3> QED
      BY <1>3, <1>4, <2>1, <3>2
  <2>2. CASE k # Lane(f)
    BY <1>4, <2>2
  <2> QED
    BY <2>1, <2>2
<1>9. /\ \A x \in Threads : \A g : g \in held'[x] /\ pc'[x] # "unlinking" =>
                g \in held[x] /\ pc[x] # "unlinking" /\ (x = Scanner => g # f)
      /\ \A x \in Threads : pc'[x] = "recovering" => pc[x] = "recovering"
  BY <1>1, <1>2
<1>10. queue'[Lane(f)][n] = f
  BY <1>2, <1>3, <1>4
<1> HIDE DEF q, n, IInv, TypeOK, StoreTyped, ThreadsTyped, QueuesTyped
<1>11. \A k \in Kinds, x \in Places, g \in Fragments :
         MayAdd(k, x, g, r)' =>
            \/ MayAdd(k, x, g, r) /\ <<k, x, g>> # <<"held", Scanner, f>>
            \/ r \in Content[f] /\ f \in written /\ <<k, x, g>> = <<Lane(f), n, f>>
  <2> SUFFICES ASSUME NEW k \in Kinds, NEW x \in Places, NEW g \in Fragments,
                      MayAdd(k, x, g, r)'
               PROVE  \/ MayAdd(k, x, g, r) /\ <<k, x, g>> # <<"held", Scanner, f>>
                      \/ r \in Content[f] /\ f \in written /\ <<k, x, g>> = <<Lane(f), n, f>>
    OBVIOUS
  <2>1. g \in written /\ r \in Content[g]
    BY <1>2 DEF MayAdd
  <2>2. CASE k \in Lanes
    <3>1. x \in 1..Len(queue'[k]) /\ queue'[k][x] = g
      BY <2>2 DEF MayAdd
    <3>2. \/ x \in 1..Len(queue[k]) /\ queue'[k][x] = queue[k][x]
          \/ k = Lane(f) /\ x = n
      BY <1>8, <2>2, <3>1
    <3> QED
      BY <1>10, <2>1, <2>2, <3>1, <3>2 DEF MayAdd
  <2>3. CASE k \notin Lanes
    BY <1>2, <1>5, <1>9, <2>3 DEF MayAdd
  <2> QED
    BY <2>2, <2>3
<1>12. r \in Content[f] /\ f \in written => <<"held", Scanner, f>> \in Pending(r)
  <2>1. "held" \in Kinds /\ Scanner \in Places /\ Scanner \in Threads
    BY DEF Kinds, Places
  <2> QED
    BY <1>1, <1>2, <1>7, <2>1, PendingTriples DEF MayAdd
<1> DEFINE a == <<"held", Scanner, f>>
           b == <<Lane(f), n, f>>
<1>13. \A k \in Kinds, x \in Places, g \in Fragments :
         MayAdd(k, x, g, r)' => \/ MayAdd(k, x, g, r) /\ <<k, x, g>> # a
                                \/ a \in Pending(r) /\ <<k, x, g>> = b
                                \/ a \notin Pending(r) /\ MayAdd(k, x, g, r)
  BY <1>11, <1>12
<1> HIDE DEF a, b
<1> QED
  BY <1>2, <1>6, <1>13, Swapped DEF IInv

LEMMA TakeRows ==
  ASSUME IInv, NEW r \in Records, RowsOf(r), NEW w \in Workers, TakeBatch(w)
  PROVE  RowsOf(r)'
<1> USE DEF IInv, TypeOK, StoreTyped, ThreadsTyped, QueuesTyped
<1> DEFINE L == LaneOf(w)
           q == queue[L]
<1>1. PICK n \in 1..BatchFiles :
        /\ n <= Len(q)
        /\ held' = [held EXCEPT ![w] = {q[i] : i \in 1..n}]
        /\ queue' = [queue EXCEPT ![L] = SubSeq(q, n + 1, Len(q))]
  BY DEF TakeBatch
<1>2. /\ L \in Lanes /\ w \in Threads /\ pc[w] = "idle"
      /\ pc' = [pc EXCEPT ![w] = "importing"]
      /\ UNCHANGED <<written, jsonl, processing, copies, up, todo, done, faults>>
  BY DEF TakeBatch, disk, LaneOf
<1>3. q \in Seq(Fragments) /\ Len(q) \in Nat /\ n \in Nat
  BY <1>2
<1>4. /\ queue'[L] = SubSeq(q, n + 1, Len(q))
      /\ \A lane \in Lanes : lane # L => queue'[lane] = queue[lane]
  BY <1>1, <1>2
<1>5. Chances' = Chances
  BY <1>2 DEF Chances
<1>6. ASSUME NEW i \in 1..Len(queue'[L])
      PROVE  i \in Nat /\ i + n \in 1..Len(q) /\ queue'[L][i] = q[i + n]
  BY <1>1, <1>3, <1>4
<1>7. /\ \A x \in Threads : Reading(x)' = Reading(x)
      /\ \A x \in Threads : x # w => held'[x] = held[x]
      /\ \A x \in Threads : (pc'[x] = "recovering" => pc[x] = "recovering")
                            /\ (x # w => pc'[x] = pc[x])
      /\ \A g \in held'[w] : \E i \in 1..n : g = q[i]
  BY <1>1, <1>2 DEF Reading
<1> DEFINE P == Pending(r)
           m == [y \in P |-> IF y[1] # L THEN y
                             ELSE IF y[2] <= n THEN <<"held", w, y[3]>>
                             ELSE <<L, y[2] - n, y[3]>>]
<1>8. ASSUME NEW z \in Pending(r)'
      PROVE  \E y \in P : z = m[y]
  <2>1. PICK k \in Kinds, x \in Places, f \in Fragments : z = <<k, x, f>> /\ MayAdd(k, x, f, r)'
    BY PendingTriplesNext
  <2>2. f \in written /\ r \in Content[f]
    BY <1>2, <2>1 DEF MayAdd
  <2> HIDE DEF IInv, TypeOK, StoreTyped, ThreadsTyped, QueuesTyped
  <2>3. ASSUME NEW i \in 1..Len(q), q[i] = f
        PROVE  <<L, i, f>> \in P
    <3>1. L \in Kinds /\ i \in Places
      BY <1>2, <1>3 DEF Kinds, Places
    <3>2. MayAdd(L, i, f, r)
      BY <1>2, <2>2, <2>3 DEF MayAdd
    <3> QED
      BY <1>2, <3>1, <3>2, PendingTriples
  <2>4. CASE k = L
    <3>1. x \in 1..Len(queue'[L]) /\ queue'[L][x] = f
      BY <1>2, <2>1, <2>4 DEF MayAdd
    <3>2. x \in Nat /\ x + n \in 1..Len(q) /\ q[x + n] = f /\ x > 0
      BY <1>3, <1>6, <3>1
    <3>3. <<L, x + n, f>> \in P
      BY <2>3, <3>2
    <3>4. m[<<L, x + n, f>>] = <<L, x, f>>
      BY <1>3, <3>2, <3>3
    <3> QED
      BY <2>1, <2>4, <3>3, <3>4
  <2>5. CASE k = "held" /\ x = w
    <3>1. PICK i \in 1..n : f = q[i]
      BY <1>2, <1>7, <2>1, <2>5 DEF MayAdd
    <3>2. i \in 1..Len(q) /\ i <= n
      BY <1>1, <1>3
    <3>3. <<L, i, f>> \in P
      BY <2>3, <3>1, <3>2
    <3>4. m[<<L, i, f>>] = <<"held", w, f>>
      BY <3>2, <3>3
    <3> QED
      BY <2>1, <2>5, <3>3, <3>4
  <2>6. CASE k # L /\ ~(k = "held" /\ x = w)
    <3>1. MayAdd(k, x, f, r)
      <4>1. CASE k \in Lanes
        BY <1>4, <2>1, <2>2, <2>6, <4>1 DEF MayAdd
      <4>2. CASE k \notin Lanes
        BY <1>2, <1>7, <2>1, <2>6, <4>2 DEF MayAdd
      <4> QED
        BY <4>1, <4>2
    <3>2. z \in P /\ z[1] = k
      BY <2>1, <3>1, PendingTriples
    <3> QED
      BY <2>6, <3>2
  <2> QED
    BY <2>4, <2>5, <2>6
<1>9. Pending(r)' \subseteq {m[y] : y \in P} /\ DOMAIN m = P /\ m = [y \in P |-> m[y]]
  BY <1>8
<1>10. IsFiniteSet(P)
  BY DEF RowsOf
<1> HIDE DEF m, P, q, IInv, TypeOK, StoreTyped, ThreadsTyped, QueuesTyped
<1>11. IsFiniteSet(Pending(r)') /\ Cardinality(Pending(r)') <= Cardinality(P)
  BY <1>9, <1>10, CardImage
<1> QED
  BY <1>2, <1>5, <1>11, Moved DEF IInv, P

\* A transaction adds at most one row of a record, and one of the fragments it is of
\* was still to be committed by the thread.
LEMMA TxnOwed ==
  ASSUME IInv, NEW r \in Records, NEW p \in Threads, NEW x \in NextTxn(p),
         r \in TxnRecords(held[p], x[1], x[2])
  PROVE  \E f \in held[p] : /\ f \in Fragments /\ <<Lane(f), Txn[r]>> = x
                            /\ r \in Content[f] /\ f \in written
                            /\ <<Lane(f), Txn[r]>> \notin done[p]
<1> USE DEF IInv, TypeOK, ThreadsTyped
<1>1. PICK f \in held[p] : Lane(f) = x[1] /\ r \in Content[f] /\ Txn[r] = x[2]
  BY DEF TxnRecords
<1>2. x \in Txns(held[p]) /\ x \notin done[p]
  BY DEF NextTxn
<1>3. held[p] \in SUBSET Fragments /\ f \in Fragments /\ f \in written
  BY <1>1 DEF OnlyWritten
<1>4. x \in Lanes \X Nat
  BY <1>2, <1>3, TxnsType
<1>5. x = <<x[1], x[2]>>
  BY <1>4
<1> QED
  BY <1>1, <1>2, <1>3, <1>5

LEMMA InsertAddsOne ==
  ASSUME TypeOK, NEW r \in Records, NEW S
  PROVE  /\ Insert(S)[r] \in Nat /\ Insert(S)[r] <= copies[r] + 1
         /\ r \notin S => Insert(S)[r] = copies[r]
BY DEF TypeOK, StoreTyped, Insert

LEMMA ImportRows ==
  ASSUME IInv, NEW r \in Records, RowsOf(r), NEW p \in Importers, ImportGroup(p)
  PROVE  RowsOf(r)'
<1> USE DEF IInv, TypeOK, StoreTyped, ThreadsTyped
<1>1. PICK x \in NextTxn(p) :
        /\ copies' = Insert(TxnRecords(held[p], x[1], x[2]))
        /\ done' = [done EXCEPT ![p] = @ \cup {x}]
  BY DEF ImportGroup
<1>2. /\ pc[p] = "importing" /\ p \in Threads
      /\ UNCHANGED <<written, jsonl, processing, queue, up, pc, todo, held, faults>>
  BY DEF ImportGroup, disk
<1>3. Chances' = Chances
  BY <1>2 DEF Chances
<1>4. Carriers(r)' = Carriers(r)
  BY <1>2 DEF Carriers
<1>5. \A k \in Kinds, y \in Places, g \in Fragments : MayAdd(k, y, g, r)' => MayAdd(k, y, g, r)
  BY <1>1, <1>2 DEF MayAdd, Reading
<1> DEFINE S == TxnRecords(held[p], x[1], x[2])
<1>6. CASE r \in S
  <2>1. PICK f \in held[p] : /\ f \in Fragments /\ <<Lane(f), Txn[r]>> = x
                             /\ r \in Content[f] /\ f \in written
                             /\ <<Lane(f), Txn[r]>> \notin done[p]
    BY <1>2, <1>6, TxnOwed
  <2> DEFINE a == <<"held", p, f>>
  <2>2. "held" \in Kinds /\ p \in Places
    BY <1>2 DEF Kinds, Places
  <2>3. MayAdd("held", p, f, r) /\ ~MayAdd("held", p, f, r)'
    BY <1>1, <1>2, <2>1 DEF MayAdd
  <2>4. a \in Pending(r)
    BY <2>1, <2>2, <2>3, PendingTriples
  <2>5. a \notin Pending(r)'
    <3>1. ASSUME a \in Pending(r)' PROVE FALSE
      <4>1. PICK k \in Kinds, y \in Places, g \in Fragments : a = <<k, y, g>> /\ MayAdd(k, y, g, r)'
        BY <3>1, PendingTriplesNext
      <4> QED
        BY <2>3, <4>1
    <3> QED
      BY <3>1
  <2>6. Pending(r)' \subseteq Pending(r) \ {a}
    BY <1>5, <2>5, PendingTriples, PendingTriplesNext
  <2> HIDE DEF a, IInv, TypeOK, StoreTyped, ThreadsTyped
  <2>7. /\ IsFiniteSet(Pending(r)') /\ Cardinality(Pending(r)') + 1 <= Cardinality(Pending(r))
        /\ Cardinality(Pending(r)') \in Nat
    BY <2>4, <2>6, CardDrop DEF RowsOf
  <2>8. copies'[r] \in Nat /\ copies'[r] <= copies[r] + 1
    BY <1>1, InsertAddsOne DEF IInv
  <2>9. Cardinality(Carriers(r)) * Chances \in Nat
    BY Numbers DEF IInv
  <2> QED
    BY <1>3, <1>4, <2>7, <2>8, <2>9, Numbers DEF RowsOf, IInv
<1>7. CASE r \notin S
  <2>1. copies'[r] = copies[r]
    BY <1>1, <1>7, InsertAddsOne
  <2> HIDE DEF IInv, TypeOK, StoreTyped, ThreadsTyped
  <2> QED
    BY <1>2, <1>3, <1>5, <2>1, Shrunk DEF IInv
<1> QED
  BY <1>6, <1>7

\* An import that fails is to be made again, for every fragment of the batch.
LEMMA ImportFailsRows ==
  ASSUME IInv, Poison = {}, NEW r \in Records, RowsOf(r), NEW p \in Importers, ImportFails(p)
  PROVE  RowsOf(r)'
<1> USE DEF IInv, TypeOK, StoreTyped, ThreadsTyped
<1>1. PICK x \in NextTxn(p) :
        /\ copies' \in {copies, Insert(TxnRecords(held[p], x[1], x[2]))}
        /\ faults' = [faults EXCEPT !.import = @ + 1]
  BY DEF ImportFails
<1>2. /\ pc[p] = "importing" /\ p \in Threads /\ pc' = [pc EXCEPT ![p] = "returning"]
      /\ done' = [done EXCEPT ![p] = {}]
      /\ UNCHANGED <<written, jsonl, processing, queue, up, todo, held>>
  BY DEF ImportFails, disk
<1>3. Chances' = Chances + 1
  BY <1>1 DEF Chances
<1>4. \A k \in Kinds, y \in Places, f \in Fragments :
         MayAdd(k, y, f, r)' => \/ MayAdd(k, y, f, r)
                                \/ f \in Carriers(r) /\ <<k, y, f>> = <<"held", p, f>>
  BY <1>1, <1>2 DEF MayAdd, Reading, Carriers
<1> DEFINE S == TxnRecords(held[p], x[1], x[2])
<1>5. CASE r \in S
  <2>1. PICK f \in held[p] : /\ f \in Fragments
                             /\ r \in Content[f] /\ f \in written
                             /\ <<Lane(f), Txn[r]>> \notin done[p]
    BY <1>2, <1>5, TxnOwed
  <2> DEFINE a == <<"held", p, f>>
             C == Carriers(r)
             G == {<<"held", p, g>> : g \in C \ {f}}
  <2>2. "held" \in Kinds /\ p \in Places
    BY <1>2 DEF Kinds, Places
  <2>3. MayAdd("held", p, f, r)
    BY <1>2, <2>1 DEF MayAdd
  <2>4. a \in Pending(r) /\ f \in C
    BY <2>1, <2>2, <2>3, PendingTriples DEF Carriers
  <2>5. Pending(r)' \subseteq Pending(r) \cup G
    <3>1. ASSUME NEW z \in Pending(r)' PROVE z \in Pending(r) \cup G
      <4>1. PICK k \in Kinds, y \in Places, g \in Fragments : z = <<k, y, g>> /\ MayAdd(k, y, g, r)'
        BY PendingTriplesNext
      <4>2. CASE MayAdd(k, y, g, r)
        BY <4>1, <4>2, PendingTriples
      <4>3. CASE g \in C /\ <<k, y, g>> = <<"held", p, g>>
        BY <2>4, <4>1, <4>3
      <4> QED
        BY <1>4, <4>1, <4>2, <4>3
    <3> QED
      BY <3>1
  <2> HIDE DEF a, C, IInv, TypeOK, StoreTyped, ThreadsTyped
  <2>6. IsFiniteSet(C) /\ Cardinality(C) \in Nat
    BY FS_CardinalityType DEF RowsOf, C
  <2>7. /\ IsFiniteSet(C \ {f}) /\ Cardinality(C \ {f}) + 1 <= Cardinality(C)
        /\ Cardinality(C \ {f}) \in Nat
    BY <2>4, <2>6, CardDrop
  <2>8. IsFiniteSet(G) /\ Cardinality(G) <= Cardinality(C \ {f}) /\ Cardinality(G) \in Nat
    <3>1. \A z \in G : \E g \in C \ {f} : z = <<"held", p, g>>
      OBVIOUS
    <3>2. IsFiniteSet(C \ {f})
      BY <2>7
    <3> HIDE DEF G
    <3> QED
      BY ONLY <3>1, <3>2, CardTriples
  <2> HIDE DEF G
  <2>9. /\ IsFiniteSet(Pending(r)') /\ Cardinality(Pending(r)') \in Nat
        /\ Cardinality(Pending(r)') <= Cardinality(Pending(r)) + Cardinality(G)
    BY <2>5, <2>8, CardGrow DEF RowsOf
  <2>10. copies'[r] \in Nat /\ copies'[r] <= copies[r] + 1
    BY <1>1, InsertAddsOne, Numbers DEF IInv
  <2>11. Carriers(r)' = C
    BY <1>2 DEF Carriers, C
  <2>12. Cardinality(C) * (Chances + 1) = Cardinality(C) * Chances + Cardinality(C)
         /\ Cardinality(C) * Chances \in Nat
    BY Numbers, Arithmetic DEF C, IInv
  <2> QED
    BY <1>3, <2>6, <2>7, <2>8, <2>9, <2>10, <2>11, <2>12, Numbers DEF RowsOf, C, IInv
<1>6. CASE r \notin S
  <2>1. copies'[r] = copies[r]
    BY <1>1, <1>6, InsertAddsOne
  <2> HIDE DEF IInv, TypeOK, StoreTyped, ThreadsTyped
  <2> QED
    BY <1>2, <1>3, <1>4, <2>1, Grown DEF IInv
<1> QED
  BY <1>5, <1>6

LEMMA NextRows ==
  ASSUME IInv, RowsInv, [Next]_vars
  PROVE  RowsInv'
<1> SUFFICES ASSUME Poison = {}, NEW r \in Records PROVE RowsOf(r)'
  BY DEF RowsInv
<1>0. RowsOf(r)
  BY DEF RowsInv
<1>1. ASSUME NEW f \in Fragments, WriteLocal(f) PROVE RowsOf(r)'
  BY <1>0, <1>1, WriteRows
<1>2. ASSUME NEW s \in Syncers, ForceSync(s) PROVE RowsOf(r)'
  BY <1>0, <1>2, ForceSyncRows
<1>3. CASE Crash
  BY <1>0, <1>3, CrashRows
<1>4. CASE StartInboxPoller
  BY <1>0, <1>4, StartRows
<1>5. ASSUME NEW p \in Threads, ThreadStep(p) PROVE RowsOf(r)'
  <2>1. CASE ListFragments(p) \/ ClaimDone(p) \/ UnlinkImported(p)
    BY <1>0, <2>1, ListRows
  <2>2. CASE p \in Claimers /\ RecoverFragment(p)
    BY <1>0, <2>2, RecoverRows
  <2>3. CASE p \in Claimers /\ ClaimFragment(p)
    BY <1>0, <2>3, ClaimRows
  <2>4. CASE p \in Claimers /\ ReadFragment(p)
    BY <1>0, <2>4, ReadRows
  <2>5. CASE p \in Claimers /\ ReadFails(p)
    BY <1>0, <2>5, ReadFailsRows
  <2>6. CASE Dispatch
    BY <1>0, <2>6, DispatchRows
  <2>7. CASE p \in Workers /\ TakeBatch(p)
    BY <1>0, <2>7, TakeRows
  <2>8. CASE p \in Importers /\ ImportGroup(p)
    BY <1>0, <2>8, ImportRows
  <2>9. CASE p \in Importers /\ ImportFails(p)
    BY <1>0, <2>9, ImportFailsRows
  <2>10. CASE ImportDone(p)
    BY <1>0, <2>10, ImportDoneRows
  <2>11. CASE ReturnFragment(p)
    BY <1>0, <2>11, ReturnRows
  <2> QED
    BY <1>5, <2>1, <2>2, <2>3, <2>4, <2>5, <2>6, <2>7, <2>8, <2>9, <2>10, <2>11 DEF ThreadStep
<1>6. CASE UNCHANGED vars
  <2>1. /\ UNCHANGED <<written, jsonl, processing, copies, queue, up, pc, todo, held, done, faults>>
        /\ Chances' = Chances
    BY <1>6 DEF vars, disk, threads, Chances
  <2>2. \A k \in Kinds, x \in Places, f \in Fragments : MayAdd(k, x, f, r)' => MayAdd(k, x, f, r)
    BY <2>1 DEF MayAdd, Reading
  <2> QED
    BY <1>0, <2>1, <2>2, Shrunk DEF IInv
<1> QED
  BY <1>1, <1>2, <1>3, <1>4, <1>5, <1>6 DEF Next

\* However often files are recovered, claimed twice and imported again, a record gets at
\* most one row for each fragment that carries it, and one more of each for each crash,
\* failed import and force_sync.
THEOREM RowsBounded == Spec => []RowsPerRecord
<1>1. Init => RowsInv
  <2> SUFFICES ASSUME Init, NEW r \in Records PROVE RowsOf(r)
    BY DEF RowsInv
  <2>1. Carriers(r) = {} /\ copies[r] = 0 /\ Chances = 1
    BY DEF Init, Carriers, Chances, NoFaults
  <2>2. \A k, x, f : ~MayAdd(k, x, f, r)
    BY DEF Init, MayAdd
  <2>3. Pending(r) = {}
    BY <2>2, PendingTriples
  <2> QED
    BY <2>1, <2>3, FS_EmptySet DEF RowsOf
<1>2. IInv /\ RowsInv /\ [Next]_vars => RowsInv'
  BY NextRows
<1>3. IInv /\ RowsInv => RowsPerRecord
  <2> SUFFICES ASSUME IInv, RowsInv, Poison = {}, NEW r \in Records
               PROVE  copies[r] <= Cardinality({f \in written : r \in Content[f]})
                                   * (1 + faults.crash + faults.import + faults.sync)
    BY DEF RowsPerRecord
  <2>1. RowsOf(r)
    BY DEF RowsInv
  <2>2. Cardinality(Carriers(r)) * Chances \in Nat
    BY <2>1, Numbers DEF IInv
  <2>3. copies[r] <= Cardinality(Carriers(r)) * Chances
    BY <2>1, <2>2, Numbers DEF IInv, RowsOf
  <2> QED
    BY <2>3 DEF Carriers, Chances
<1> QED
  BY InductiveInvariant, <1>1, <1>2, <1>3, PTL DEF Spec
=============================================================================
