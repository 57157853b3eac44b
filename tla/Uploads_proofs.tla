--------------------------- MODULE Uploads_proofs ---------------------------
(***************************************************************************)
(* UploadSession keeps its invariants for any producers, chunks and bounds; *)
(* DirectUpload for any number of producers, parts and multipart uploads,   *)
(* and any bounds on faults, cleanups and purges; then DirectSound of the   *)
(* composition MCUploadSession, whose steps are steps of one kind of        *)
(* session and stutters of the other.                                       *)
(***************************************************************************)
EXTENDS MCUploadSession, TLAPS

\* A chunk's body streams in while its session is incomplete: only the lock keeps
\* a completion out.
StreamsIncomplete == \A p \in Producers :
    pc[p] \in {"streaming", "landed"} => session.state # "completed"

\* What a request has read is what session.json says, unless a cleanup has
\* removed the file: the event loop is not left between the read and the write.
ReadIsCurrent == \A p \in Producers :
    pc[p] \in {"acking", "staging", "stored"} => session \in {NoSession, read[p]}

\* A part that has landed stays until it is acknowledged, with those that the
\* session read after it acknowledges; a cleanup beside it has been recorded.
LandedStays == \A p \in Producers :
    pc[p] \in {"landed", "acking"} /\ ~torn =>
      /\ todo = {}
      /\ index[p] \in parts
      /\ pc[p] = "acking" => read[p].chunks \subseteq parts

\* No session is under way when a cleanup that met no request removes the parts last.
PartsLast == todo = {"parts"} /\ ~torn => session.state # "uploading"

\* Between the verification and the answer, too, only a purge takes the blob.
VerifiedStored == \A p \in Producers :
    pc[p] \in {"answering", "sent"} /\ p \notin lost => blob

IInv == /\ TypeOK
        /\ StreamsIncomplete
        /\ ReadIsCurrent
        /\ LandedStays
        /\ PartsLast
        /\ AckedHavePart
        /\ VerifiedStored

LEMMA InitInv == Init => IInv
<1> SUFFICES ASSUME Init PROVE IInv
  OBVIOUS
<1>1. VarTypes
  <2>1. faults \in 0 .. MaxFaults /\ sweeps \in 0 .. MaxSweeps /\ purges \in 0 .. MaxPurges
    BY UploadAssumption DEF Init
  <2>2. index \in [Producers -> 0 .. ChunkCount]
    BY UploadAssumption DEF Init
  <2>3. blob \in BOOLEAN /\ temp \in BOOLEAN /\ torn \in BOOLEAN
    BY DEF Init
  <2> QED
    BY <2>1, <2>2, <2>3 DEF Init, VarTypes, Stages
<1>2. OneRequest
  BY DEF Init, OneRequest, InRequest, ChunkStages, CompleteStages
<1>3. StreamsIncomplete /\ ReadIsCurrent /\ LandedStays /\ VerifiedStored
  BY DEF Init, StreamsIncomplete, ReadIsCurrent, LandedStays, VerifiedStored
<1>4. PartsLast /\ AckedHavePart
  BY DEF Init, PartsLast, AckedHavePart, NoSession
<1> QED
  BY <1>1, <1>2, <1>3, <1>4 DEF IInv, TypeOK

\* The variables of the producers' calls.
CallTypes == /\ pc \in [Producers -> Stages]
             /\ acked \in [Producers -> SUBSET Chunks]
             /\ index \in [Producers -> 0 .. ChunkCount]
             /\ read \in [Producers -> Sessions \cup {NoSession}]

\* A call that ends leaves its variables typed.
LEMMA LeaveTypes ==
  ASSUME VarTypes, NEW p \in Producers, NEW stage \in Stages, Leave(p, stage)
  PROVE  CallTypes'
<1>1. 0 \in 0 .. ChunkCount
  BY UploadAssumption
<1> QED
  BY <1>1 DEF VarTypes, Leave, Goto, CallTypes

\* Each step keeps the types of the variables.
LEMMA StepTypes ==
  TypeOK /\ [Next]_vars => VarTypes'
<1> SUFFICES ASSUME TypeOK, [Next]_vars
             PROVE  VarTypes'
  OBVIOUS
<1> USE UploadAssumption DEF TypeOK, VarTypes, OneRequest, Sessions, NoSession, Stages,
   ChunkStages, CompleteStages, Chunks, history, counts
<1>1. ASSUME NEW p \in Producers, CreateOrResume(p) PROVE VarTypes'
  <2>1. session' \in Sessions \cup {NoSession}
    BY <1>1 DEF CreateOrResume, CreateOrRead
  <2>2. session'.chunks \in SUBSET Chunks
    BY <2>1
  <2>3. acked' \in [Producers -> SUBSET Chunks] /\ pc' \in [Producers -> Stages]
    BY <1>1, <2>2 DEF CreateOrResume, Goto
  <2>4. torn' \in BOOLEAN
    BY <1>1 DEF CreateOrResume, CreateOrRead
  <2> QED
    BY <1>1, <2>1, <2>3, <2>4 DEF CreateOrResume
<1>2. ASSUME NEW p \in Producers, SkipChunk(p) PROVE VarTypes'
  BY <1>2 DEF SkipChunk, Advance
<1>3. ASSUME NEW p \in Producers, StoreChunk(p) PROVE VarTypes'
  <2>1. Leave(p, "pending") => CallTypes'
    BY LeaveTypes
  <2>3. blob' \in BOOLEAN /\ temp' \in BOOLEAN /\ torn' \in BOOLEAN
    BY <1>3 DEF StoreChunk, Raises, Advance
  <2>4. CallTypes'
    BY <1>3, <2>1 DEF StoreChunk, Raises, Advance, Goto, CallTypes
  <2>5. faults' \in 0 .. MaxFaults /\ UNCHANGED <<sweeps, purges>>
    BY <1>3 DEF StoreChunk, Raises, Advance
  <2>6. session' = session /\ parts' \subseteq Chunks /\ UNCHANGED <<todo, lost>>
    BY <1>3 DEF StoreChunk, Raises, Advance
  <2> QED
    BY <2>3, <2>4, <2>5, <2>6 DEF CallTypes
<1>4. ASSUME NEW p \in Producers, CompleteSession(p) PROVE VarTypes'
  <2>1. Leave(p, "pending") => CallTypes'
    BY LeaveTypes
  <2>2. Leave(p, "answering") => CallTypes'
    BY LeaveTypes
  <2>3. blob' \in BOOLEAN /\ temp' \in BOOLEAN /\ torn' \in BOOLEAN
    BY <1>4 DEF CompleteSession, AlreadyCompleted, Raises
  <2>4. CallTypes'
    <3>1. CASE Leave(p, "pending") \/ Leave(p, "answering")
      BY <3>1, <2>1, <2>2
    <3>2. CASE Goto(p, "staging") /\ read' = [read EXCEPT ![p] = session]
               /\ UNCHANGED <<acked, index>>
      BY <3>2 DEF Goto, CallTypes
    <3> QED
      BY <1>4, <3>1, <3>2 DEF CompleteSession, AlreadyCompleted, Raises
  <2>5. faults' \in 0 .. MaxFaults /\ UNCHANGED <<sweeps, purges>>
    BY <1>4 DEF CompleteSession, AlreadyCompleted, Raises
  <2>6. session' = session /\ parts' \subseteq Chunks /\ UNCHANGED <<todo, lost>>
    BY <1>4 DEF CompleteSession, AlreadyCompleted, Raises
  <2> QED
    BY <2>3, <2>4, <2>5, <2>6 DEF CallTypes
<1>5. ASSUME NEW p \in Producers, ClearPending(p) PROVE VarTypes'
  BY <1>5 DEF ClearPending, Goto
<1>6. ASSUME NEW p \in Producers, LandChunk(p) PROVE VarTypes'
  <2>1. Leave(p, "pending") => CallTypes'
    BY LeaveTypes
  <2>3. blob' \in BOOLEAN /\ temp' \in BOOLEAN /\ torn' \in BOOLEAN
    BY <1>6 DEF LandChunk, Raises
  <2>4. CallTypes'
    BY <1>6, <2>1 DEF LandChunk, Raises, Goto, CallTypes
  <2>5. faults' \in 0 .. MaxFaults /\ UNCHANGED <<sweeps, purges>>
    BY <1>6 DEF LandChunk, Raises
  <2>6. session' = session /\ parts' \subseteq Chunks /\ UNCHANGED <<todo, lost>>
    BY <1>6 DEF LandChunk, Raises
  <2> QED
    BY <2>3, <2>4, <2>5, <2>6 DEF CallTypes
<1>7. ASSUME NEW p \in Producers, ReadAgain(p) PROVE VarTypes'
  <2>1. Leave(p, "pending") => CallTypes'
    BY LeaveTypes
  <2>3. blob' \in BOOLEAN /\ temp' \in BOOLEAN /\ torn' \in BOOLEAN
    BY <1>7 DEF ReadAgain, Raises
  <2>4. CallTypes'
    BY <1>7, <2>1 DEF ReadAgain, Raises, Goto, CallTypes
  <2>5. faults' \in 0 .. MaxFaults /\ UNCHANGED <<sweeps, purges>>
    BY <1>7 DEF ReadAgain, Raises
  <2>6. session' = session /\ parts' \subseteq Chunks /\ UNCHANGED <<todo, lost>>
    BY <1>7 DEF ReadAgain, Raises
  <2> QED
    BY <2>3, <2>4, <2>5, <2>6 DEF CallTypes
<1>8. ASSUME NEW p \in Producers, AcknowledgeChunk(p) PROVE VarTypes'
  BY <1>8 DEF AcknowledgeChunk, Advance, Goto
<1>9. ASSUME NEW p \in Producers, StageParts(p) PROVE VarTypes'
  <2>1. Leave(p, "pending") => CallTypes'
    BY LeaveTypes
  <2>3. blob' \in BOOLEAN /\ temp' \in BOOLEAN /\ torn' \in BOOLEAN
    BY <1>9 DEF StageParts, Raises
  <2>4. CallTypes'
    BY <1>9, <2>1 DEF StageParts, Raises, Goto, CallTypes
  <2>5. faults' \in 0 .. MaxFaults /\ UNCHANGED <<sweeps, purges>>
    BY <1>9 DEF StageParts, Raises
  <2>6. session' = session /\ parts' \subseteq Chunks /\ UNCHANGED <<todo, lost>>
    BY <1>9 DEF StageParts, Raises
  <2> QED
    BY <2>3, <2>4, <2>5, <2>6 DEF CallTypes
<1>10. ASSUME NEW p \in Producers, MarkCompleted(p) PROVE VarTypes'
  BY <1>10 DEF MarkCompleted, Raises, Leave, Goto
<1>11. ASSUME NEW p \in Producers, StreamBreaks(p) PROVE VarTypes'
  <2>1. Leave(p, "pending") => CallTypes'
    BY LeaveTypes
  <2>3. blob' \in BOOLEAN /\ temp' \in BOOLEAN /\ torn' \in BOOLEAN
    BY <1>11 DEF StreamBreaks, Fault
  <2>4. CallTypes'
    BY <1>11, <2>1 DEF StreamBreaks, Fault, Goto, CallTypes
  <2>5. faults' \in 0 .. MaxFaults /\ UNCHANGED <<sweeps, purges>>
    BY <1>11 DEF StreamBreaks, Fault
  <2>6. session' = session /\ parts' \subseteq Chunks /\ UNCHANGED <<todo, lost>>
    BY <1>11 DEF StreamBreaks, Fault
  <2> QED
    BY <2>3, <2>4, <2>5, <2>6 DEF CallTypes
<1>12. ASSUME NEW p \in Producers, LoseAnswer(p) PROVE VarTypes'
  BY <1>12 DEF LoseAnswer, Fault, Leave, Goto
<1>13. CASE Crash
  <2>1. pc' \in [Producers -> Stages]
    BY <1>13 DEF Crash
  <2>2. acked' \in [Producers -> SUBSET Chunks]
    BY <1>13 DEF Crash
  <2>3. index' \in [Producers -> 0 .. ChunkCount]
    BY <1>13 DEF Crash
  <2>4. read' \in [Producers -> Sessions \cup {NoSession}]
    BY <1>13 DEF Crash
  <2>5. faults' \in 0 .. MaxFaults
    BY <1>13 DEF Crash, Fault
  <2>6. temp' \in BOOLEAN
    BY <1>13 DEF Crash
  <2> QED
    BY <1>13, <2>1, <2>2, <2>3, <2>4, <2>5, <2>6 DEF Crash
<1>14. CASE AbortSession
  BY <1>14 DEF AbortSession, LockFree, Fault
<1>15. CASE ExpireSession
  BY <1>15 DEF ExpireSession
<1>16. CASE RemoveMetadata
  BY <1>16 DEF RemoveMetadata
<1>17. CASE RemoveParts
  BY <1>17 DEF RemoveParts
<1>18. CASE ExpireStops
  BY <1>18 DEF ExpireStops
<1>19. CASE PurgeBlob
  <2>1. lost' \subseteq Producers
    BY <1>19 DEF PurgeBlob
  <2>2. purges' \in 0 .. MaxPurges
    BY <1>19 DEF PurgeBlob
  <2>3. blob' \in BOOLEAN
    BY <1>19 DEF PurgeBlob
  <2> QED
    BY <1>19, <2>1, <2>2, <2>3 DEF PurgeBlob
<1>20. CASE UNCHANGED vars
  BY <1>20 DEF vars
<1> QED
  BY <1>1, <1>2, <1>3, <1>4, <1>5, <1>6, <1>7, <1>8, <1>9, <1>10, <1>11, <1>12, <1>13, <1>14,
     <1>15, <1>16, <1>17, <1>18, <1>19, <1>20 DEF Next, ProducerStep, RequestStep, ExpireStep

\* Each step keeps one request at a time: one begins only when the lock is free.
LEMMA StepOne ==
  TypeOK /\ StreamsIncomplete /\ [Next]_vars => OneRequest'
<1> SUFFICES ASSUME TypeOK /\ StreamsIncomplete, [Next]_vars
             PROVE  OneRequest'
  OBVIOUS
<1> USE UploadAssumption DEF TypeOK, VarTypes, OneRequest, StreamsIncomplete, InRequest,
   ChunkStages, CompleteStages, Sessions, NoSession, Chunks
<1>1. ASSUME NEW p \in Producers, CreateOrResume(p) PROVE OneRequest'
  BY <1>1 DEF CreateOrResume, CreateOrRead, EventLoopFree, Goto
<1>2. ASSUME NEW p \in Producers, SkipChunk(p) PROVE OneRequest'
  BY <1>2 DEF SkipChunk, Advance
<1>3. ASSUME NEW p \in Producers, StoreChunk(p) PROVE OneRequest'
  BY <1>3 DEF StoreChunk, LockFree, Raises, Leave, Goto, Advance
<1>4. ASSUME NEW p \in Producers, CompleteSession(p) PROVE OneRequest'
  BY <1>4 DEF CompleteSession, AlreadyCompleted, LockFree, Raises, Leave, Goto
<1>5. ASSUME NEW p \in Producers, ClearPending(p) PROVE OneRequest'
  BY <1>5 DEF ClearPending, Goto
<1>6. ASSUME NEW p \in Producers, LandChunk(p) PROVE OneRequest'
  BY <1>6 DEF LandChunk, Raises, Leave, Goto
<1>7. ASSUME NEW p \in Producers, ReadAgain(p) PROVE OneRequest'
  BY <1>7 DEF ReadAgain, Raises, Leave, Goto
<1>8. ASSUME NEW p \in Producers, AcknowledgeChunk(p) PROVE OneRequest'
  BY <1>8 DEF AcknowledgeChunk, Advance, Goto
<1>9. ASSUME NEW p \in Producers, StageParts(p) PROVE OneRequest'
  BY <1>9 DEF StageParts, Raises, Leave, Goto
<1>10. ASSUME NEW p \in Producers, MarkCompleted(p) PROVE OneRequest'
  BY <1>10 DEF MarkCompleted, Raises, Leave, Goto
<1>11. ASSUME NEW p \in Producers, StreamBreaks(p) PROVE OneRequest'
  BY <1>11 DEF StreamBreaks, Fault, Leave, Goto
<1>12. ASSUME NEW p \in Producers, LoseAnswer(p) PROVE OneRequest'
  BY <1>12 DEF LoseAnswer, Fault, Leave, Goto
<1>13. CASE Crash
  BY <1>13 DEF Crash, Fault
<1>14. CASE AbortSession
  BY <1>14 DEF AbortSession, LockFree, Fault
<1>15. CASE ExpireSession
  BY <1>15 DEF ExpireSession
<1>16. CASE RemoveMetadata
  BY <1>16 DEF RemoveMetadata
<1>17. CASE RemoveParts
  BY <1>17 DEF RemoveParts
<1>18. CASE ExpireStops
  BY <1>18 DEF ExpireStops
<1>19. CASE PurgeBlob
  BY <1>19 DEF PurgeBlob
<1>20. CASE UNCHANGED vars
  BY <1>20 DEF vars
<1> QED
  BY <1>1, <1>2, <1>3, <1>4, <1>5, <1>6, <1>7, <1>8, <1>9, <1>10, <1>11, <1>12, <1>13, <1>14,
     <1>15, <1>16, <1>17, <1>18, <1>19, <1>20 DEF Next, ProducerStep, RequestStep, ExpireStep

\* Only the request that holds the lock completes the session.
LEMMA StepStreams ==
  TypeOK /\ StreamsIncomplete /\ [Next]_vars => StreamsIncomplete'
<1> SUFFICES ASSUME TypeOK /\ StreamsIncomplete, [Next]_vars
             PROVE  StreamsIncomplete'
  OBVIOUS
<1> USE UploadAssumption DEF TypeOK, VarTypes, OneRequest, StreamsIncomplete, InRequest,
   ChunkStages, CompleteStages, NoSession
<1>1. ASSUME NEW p \in Producers, CreateOrResume(p) PROVE StreamsIncomplete'
  BY <1>1 DEF CreateOrResume, CreateOrRead, EventLoopFree, Goto
<1>2. ASSUME NEW p \in Producers, SkipChunk(p) PROVE StreamsIncomplete'
  BY <1>2 DEF SkipChunk, Advance
<1>3. ASSUME NEW p \in Producers, StoreChunk(p) PROVE StreamsIncomplete'
  BY <1>3 DEF StoreChunk, LockFree, Raises, Leave, Goto, Advance
<1>4. ASSUME NEW p \in Producers, CompleteSession(p) PROVE StreamsIncomplete'
  BY <1>4 DEF CompleteSession, AlreadyCompleted, LockFree, Raises, Leave, Goto
<1>5. ASSUME NEW p \in Producers, ClearPending(p) PROVE StreamsIncomplete'
  BY <1>5 DEF ClearPending, Goto
<1>6. ASSUME NEW p \in Producers, LandChunk(p) PROVE StreamsIncomplete'
  BY <1>6 DEF LandChunk, Raises, Leave, Goto
<1>7. ASSUME NEW p \in Producers, ReadAgain(p) PROVE StreamsIncomplete'
  BY <1>7 DEF ReadAgain, Raises, Leave, Goto
<1>8. ASSUME NEW p \in Producers, AcknowledgeChunk(p) PROVE StreamsIncomplete'
  BY <1>8 DEF AcknowledgeChunk, Advance, Goto
<1>9. ASSUME NEW p \in Producers, StageParts(p) PROVE StreamsIncomplete'
  BY <1>9 DEF StageParts, Raises, Leave, Goto
<1>10. ASSUME NEW p \in Producers, MarkCompleted(p) PROVE StreamsIncomplete'
  BY <1>10 DEF MarkCompleted, Raises, Leave, Goto
<1>11. ASSUME NEW p \in Producers, StreamBreaks(p) PROVE StreamsIncomplete'
  BY <1>11 DEF StreamBreaks, Fault, Leave, Goto
<1>12. ASSUME NEW p \in Producers, LoseAnswer(p) PROVE StreamsIncomplete'
  BY <1>12 DEF LoseAnswer, Fault, Leave, Goto
<1>13. CASE Crash
  BY <1>13 DEF Crash, Fault
<1>14. CASE AbortSession
  BY <1>14 DEF AbortSession, LockFree, Fault
<1>15. CASE ExpireSession
  BY <1>15 DEF ExpireSession
<1>16. CASE RemoveMetadata
  BY <1>16 DEF RemoveMetadata
<1>17. CASE RemoveParts
  BY <1>17 DEF RemoveParts
<1>18. CASE ExpireStops
  BY <1>18 DEF ExpireStops
<1>19. CASE PurgeBlob
  BY <1>19 DEF PurgeBlob
<1>20. CASE UNCHANGED vars
  BY <1>20 DEF vars
<1> QED
  BY <1>1, <1>2, <1>3, <1>4, <1>5, <1>6, <1>7, <1>8, <1>9, <1>10, <1>11, <1>12, <1>13, <1>14,
     <1>15, <1>16, <1>17, <1>18, <1>19, <1>20 DEF Next, ProducerStep, RequestStep, ExpireStep

\* While a request is between its read and its write, only a cleanup touches session.json.
LEMMA StepRead ==
  TypeOK /\ ReadIsCurrent /\ [Next]_vars => ReadIsCurrent'
<1> SUFFICES ASSUME TypeOK /\ ReadIsCurrent, [Next]_vars
             PROVE  ReadIsCurrent'
  OBVIOUS
<1> USE UploadAssumption DEF TypeOK, VarTypes, OneRequest, ReadIsCurrent, InRequest,
   ChunkStages, CompleteStages
<1>1. ASSUME NEW p \in Producers, CreateOrResume(p) PROVE ReadIsCurrent'
  BY <1>1 DEF CreateOrResume, CreateOrRead, EventLoopFree, Goto
<1>2. ASSUME NEW p \in Producers, SkipChunk(p) PROVE ReadIsCurrent'
  BY <1>2 DEF SkipChunk, Advance
<1>3. ASSUME NEW p \in Producers, StoreChunk(p) PROVE ReadIsCurrent'
  BY <1>3 DEF StoreChunk, LockFree, Raises, Leave, Goto, Advance
<1>4. ASSUME NEW p \in Producers, CompleteSession(p) PROVE ReadIsCurrent'
  BY <1>4 DEF CompleteSession, AlreadyCompleted, LockFree, Raises, Leave, Goto
<1>5. ASSUME NEW p \in Producers, ClearPending(p) PROVE ReadIsCurrent'
  BY <1>5 DEF ClearPending, Goto
<1>6. ASSUME NEW p \in Producers, LandChunk(p) PROVE ReadIsCurrent'
  BY <1>6 DEF LandChunk, Raises, Leave, Goto
<1>7. ASSUME NEW p \in Producers, ReadAgain(p) PROVE ReadIsCurrent'
  BY <1>7 DEF ReadAgain, Raises, Leave, Goto
<1>8. ASSUME NEW p \in Producers, AcknowledgeChunk(p) PROVE ReadIsCurrent'
  BY <1>8 DEF AcknowledgeChunk, Advance, Goto
<1>9. ASSUME NEW p \in Producers, StageParts(p) PROVE ReadIsCurrent'
  BY <1>9 DEF StageParts, Raises, Leave, Goto
<1>10. ASSUME NEW p \in Producers, MarkCompleted(p) PROVE ReadIsCurrent'
  BY <1>10 DEF MarkCompleted, Raises, Leave, Goto
<1>11. ASSUME NEW p \in Producers, StreamBreaks(p) PROVE ReadIsCurrent'
  BY <1>11 DEF StreamBreaks, Fault, Leave, Goto
<1>12. ASSUME NEW p \in Producers, LoseAnswer(p) PROVE ReadIsCurrent'
  BY <1>12 DEF LoseAnswer, Fault, Leave, Goto
<1>13. CASE Crash
  BY <1>13 DEF Crash, Fault
<1>14. CASE AbortSession
  BY <1>14 DEF AbortSession, LockFree, Fault
<1>15. CASE ExpireSession
  BY <1>15 DEF ExpireSession
<1>16. CASE RemoveMetadata
  BY <1>16 DEF RemoveMetadata
<1>17. CASE RemoveParts
  BY <1>17 DEF RemoveParts
<1>18. CASE ExpireStops
  BY <1>18 DEF ExpireStops
<1>19. CASE PurgeBlob
  BY <1>19 DEF PurgeBlob
<1>20. CASE UNCHANGED vars
  BY <1>20 DEF vars
<1> QED
  BY <1>1, <1>2, <1>3, <1>4, <1>5, <1>6, <1>7, <1>8, <1>9, <1>10, <1>11, <1>12, <1>13, <1>14,
     <1>15, <1>16, <1>17, <1>18, <1>19, <1>20 DEF Next, ProducerStep, RequestStep, ExpireStep

\* A landed part stays until it is acknowledged, unless a cleanup comes.
LEMMA StepLanded ==
  TypeOK /\ StreamsIncomplete /\ LandedStays /\ AckedHavePart /\ [Next]_vars => LandedStays'
<1> SUFFICES ASSUME TypeOK /\ StreamsIncomplete /\ LandedStays /\ AckedHavePart, [Next]_vars
             PROVE  LandedStays'
  OBVIOUS
<1> USE UploadAssumption DEF TypeOK, VarTypes, OneRequest, StreamsIncomplete, LandedStays,
   AckedHavePart, InRequest, ChunkStages, CompleteStages, Sessions, NoSession, history
<1>1. ASSUME NEW p \in Producers, CreateOrResume(p) PROVE LandedStays'
  BY <1>1 DEF CreateOrResume, CreateOrRead, EventLoopFree, Goto
<1>2. ASSUME NEW p \in Producers, SkipChunk(p) PROVE LandedStays'
  BY <1>2 DEF SkipChunk, Advance
<1>3. ASSUME NEW p \in Producers, StoreChunk(p) PROVE LandedStays'
  BY <1>3 DEF StoreChunk, LockFree, Raises, Leave, Goto, Advance
<1>4. ASSUME NEW p \in Producers, CompleteSession(p) PROVE LandedStays'
  BY <1>4 DEF CompleteSession, AlreadyCompleted, LockFree, Raises, Leave, Goto
<1>5. ASSUME NEW p \in Producers, ClearPending(p) PROVE LandedStays'
  BY <1>5 DEF ClearPending, Goto
<1>6. ASSUME NEW p \in Producers, LandChunk(p) PROVE LandedStays'
  BY <1>6 DEF LandChunk, Raises, Leave, Goto
<1>7. ASSUME NEW p \in Producers, ReadAgain(p) PROVE LandedStays'
  BY <1>7 DEF ReadAgain, Raises, Leave, Goto
<1>8. ASSUME NEW p \in Producers, AcknowledgeChunk(p) PROVE LandedStays'
  BY <1>8 DEF AcknowledgeChunk, Advance, Goto
<1>9. ASSUME NEW p \in Producers, StageParts(p) PROVE LandedStays'
  BY <1>9 DEF StageParts, Raises, Leave, Goto
<1>10. ASSUME NEW p \in Producers, MarkCompleted(p) PROVE LandedStays'
  BY <1>10 DEF MarkCompleted, Raises, Leave, Goto
<1>11. ASSUME NEW p \in Producers, StreamBreaks(p) PROVE LandedStays'
  BY <1>11 DEF StreamBreaks, Fault, Leave, Goto
<1>12. ASSUME NEW p \in Producers, LoseAnswer(p) PROVE LandedStays'
  BY <1>12 DEF LoseAnswer, Fault, Leave, Goto
<1>13. CASE Crash
  BY <1>13 DEF Crash, Fault
<1>14. CASE AbortSession
  BY <1>14 DEF AbortSession, LockFree, Fault
<1>15. CASE ExpireSession
  BY <1>15 DEF ExpireSession
<1>16. CASE RemoveMetadata
  BY <1>16 DEF RemoveMetadata
<1>17. CASE RemoveParts
  BY <1>17 DEF RemoveParts
<1>18. CASE ExpireStops
  BY <1>18 DEF ExpireStops
<1>19. CASE PurgeBlob
  BY <1>19 DEF PurgeBlob
<1>20. CASE UNCHANGED vars
  BY <1>20 DEF vars
<1> QED
  BY <1>1, <1>2, <1>3, <1>4, <1>5, <1>6, <1>7, <1>8, <1>9, <1>10, <1>11, <1>12, <1>13, <1>14,
     <1>15, <1>16, <1>17, <1>18, <1>19, <1>20 DEF Next, ProducerStep, RequestStep, ExpireStep

\* A session that appears while a cleanup has only the parts to remove is recorded.
LEMMA StepPartsLast ==
  TypeOK /\ PartsLast /\ [Next]_vars => PartsLast'
<1> SUFFICES ASSUME TypeOK /\ PartsLast, [Next]_vars
             PROVE  PartsLast'
  OBVIOUS
<1> USE UploadAssumption DEF TypeOK, VarTypes, PartsLast, Sessions, NoSession, history
<1>1. ASSUME NEW p \in Producers, CreateOrResume(p) PROVE PartsLast'
  <2>1. CASE session = NoSession
    <3>1. torn' \/ todo' # {"parts"}
      BY <1>1, <2>1 DEF CreateOrResume, CreateOrRead, NoSession
    <3> QED
      BY <3>1 DEF PartsLast
  <2>2. CASE session # NoSession
    BY <1>1, <2>2 DEF CreateOrResume, CreateOrRead, PartsLast
  <2> QED
    BY <2>1, <2>2
<1>2. ASSUME NEW p \in Producers, SkipChunk(p) PROVE PartsLast'
  BY <1>2 DEF SkipChunk, Advance
<1>3. ASSUME NEW p \in Producers, StoreChunk(p) PROVE PartsLast'
  BY <1>3 DEF StoreChunk, LockFree, Raises, Leave, Goto, Advance
<1>4. ASSUME NEW p \in Producers, CompleteSession(p) PROVE PartsLast'
  BY <1>4 DEF CompleteSession, AlreadyCompleted, LockFree, Raises, Leave, Goto
<1>5. ASSUME NEW p \in Producers, ClearPending(p) PROVE PartsLast'
  BY <1>5 DEF ClearPending, Goto
<1>6. ASSUME NEW p \in Producers, LandChunk(p) PROVE PartsLast'
  BY <1>6 DEF LandChunk, Raises, Leave, Goto
<1>7. ASSUME NEW p \in Producers, ReadAgain(p) PROVE PartsLast'
  BY <1>7 DEF ReadAgain, Raises, Leave, Goto
<1>8. ASSUME NEW p \in Producers, AcknowledgeChunk(p) PROVE PartsLast'
  BY <1>8 DEF AcknowledgeChunk, Advance, Goto
<1>9. ASSUME NEW p \in Producers, StageParts(p) PROVE PartsLast'
  BY <1>9 DEF StageParts, Raises, Leave, Goto
<1>10. ASSUME NEW p \in Producers, MarkCompleted(p) PROVE PartsLast'
  BY <1>10 DEF MarkCompleted, Raises, Leave, Goto
<1>11. ASSUME NEW p \in Producers, StreamBreaks(p) PROVE PartsLast'
  BY <1>11 DEF StreamBreaks, Fault, Leave, Goto
<1>12. ASSUME NEW p \in Producers, LoseAnswer(p) PROVE PartsLast'
  BY <1>12 DEF LoseAnswer, Fault, Leave, Goto
<1>13. CASE Crash
  BY <1>13 DEF Crash, Fault
<1>14. CASE AbortSession
  BY <1>14 DEF AbortSession, LockFree, Fault
<1>15. CASE ExpireSession
  <2>1. "metadata" \in todo'
    BY <1>15 DEF ExpireSession
  <2> QED
    BY <2>1
<1>16. CASE RemoveMetadata
  BY <1>16 DEF RemoveMetadata
<1>17. CASE RemoveParts
  BY <1>17 DEF RemoveParts
<1>18. CASE ExpireStops
  BY <1>18 DEF ExpireStops
<1>19. CASE PurgeBlob
  BY <1>19 DEF PurgeBlob
<1>20. CASE UNCHANGED vars
  BY <1>20 DEF vars
<1> QED
  BY <1>1, <1>2, <1>3, <1>4, <1>5, <1>6, <1>7, <1>8, <1>9, <1>10, <1>11, <1>12, <1>13, <1>14,
     <1>15, <1>16, <1>17, <1>18, <1>19, <1>20 DEF Next, ProducerStep, RequestStep, ExpireStep

\* Acknowledged chunks keep their parts.
LEMMA StepAcked ==
  TypeOK /\ LandedStays /\ PartsLast /\ AckedHavePart /\ [Next]_vars => AckedHavePart'
<1> SUFFICES ASSUME TypeOK /\ LandedStays /\ PartsLast /\ AckedHavePart, [Next]_vars
             PROVE  AckedHavePart'
  OBVIOUS
<1> USE UploadAssumption DEF TypeOK, VarTypes, LandedStays, PartsLast, AckedHavePart,
   Sessions, NoSession, history
<1>1. ASSUME NEW p \in Producers, CreateOrResume(p) PROVE AckedHavePart'
  BY <1>1 DEF CreateOrResume, CreateOrRead, EventLoopFree, Goto
<1>2. ASSUME NEW p \in Producers, SkipChunk(p) PROVE AckedHavePart'
  BY <1>2 DEF SkipChunk, Advance
<1>3. ASSUME NEW p \in Producers, StoreChunk(p) PROVE AckedHavePart'
  BY <1>3 DEF StoreChunk, LockFree, Raises, Leave, Goto, Advance
<1>4. ASSUME NEW p \in Producers, CompleteSession(p) PROVE AckedHavePart'
  BY <1>4 DEF CompleteSession, AlreadyCompleted, LockFree, Raises, Leave, Goto
<1>5. ASSUME NEW p \in Producers, ClearPending(p) PROVE AckedHavePart'
  BY <1>5 DEF ClearPending, Goto
<1>6. ASSUME NEW p \in Producers, LandChunk(p) PROVE AckedHavePart'
  BY <1>6 DEF LandChunk, Raises, Leave, Goto
<1>7. ASSUME NEW p \in Producers, ReadAgain(p) PROVE AckedHavePart'
  BY <1>7 DEF ReadAgain, Raises, Leave, Goto
<1>8. ASSUME NEW p \in Producers, AcknowledgeChunk(p) PROVE AckedHavePart'
  BY <1>8 DEF AcknowledgeChunk, Advance, Goto
<1>9. ASSUME NEW p \in Producers, StageParts(p) PROVE AckedHavePart'
  BY <1>9 DEF StageParts, Raises, Leave, Goto
<1>10. ASSUME NEW p \in Producers, MarkCompleted(p) PROVE AckedHavePart'
  BY <1>10 DEF MarkCompleted, Raises, Leave, Goto
<1>11. ASSUME NEW p \in Producers, StreamBreaks(p) PROVE AckedHavePart'
  BY <1>11 DEF StreamBreaks, Fault, Leave, Goto
<1>12. ASSUME NEW p \in Producers, LoseAnswer(p) PROVE AckedHavePart'
  BY <1>12 DEF LoseAnswer, Fault, Leave, Goto
<1>13. CASE Crash
  BY <1>13 DEF Crash, Fault
<1>14. CASE AbortSession
  BY <1>14 DEF AbortSession, LockFree, Fault
<1>15. CASE ExpireSession
  BY <1>15 DEF ExpireSession
<1>16. CASE RemoveMetadata
  BY <1>16 DEF RemoveMetadata
<1>17. CASE RemoveParts
  BY <1>17 DEF RemoveParts
<1>18. CASE ExpireStops
  BY <1>18 DEF ExpireStops
<1>19. CASE PurgeBlob
  BY <1>19 DEF PurgeBlob
<1>20. CASE UNCHANGED vars
  BY <1>20 DEF vars
<1> QED
  BY <1>1, <1>2, <1>3, <1>4, <1>5, <1>6, <1>7, <1>8, <1>9, <1>10, <1>11, <1>12, <1>13, <1>14,
     <1>15, <1>16, <1>17, <1>18, <1>19, <1>20 DEF Next, ProducerStep, RequestStep, ExpireStep

\* Once verified for a producer, the blob stays but for a purge.
LEMMA StepVerified ==
  TypeOK /\ VerifiedStored /\ [Next]_vars => VerifiedStored'
<1> SUFFICES ASSUME TypeOK /\ VerifiedStored, [Next]_vars
             PROVE  VerifiedStored'
  OBVIOUS
<1> USE UploadAssumption DEF TypeOK, VarTypes, VerifiedStored, history
<1>1. ASSUME NEW p \in Producers, CreateOrResume(p) PROVE VerifiedStored'
  BY <1>1 DEF CreateOrResume, CreateOrRead, EventLoopFree, Goto
<1>2. ASSUME NEW p \in Producers, SkipChunk(p) PROVE VerifiedStored'
  BY <1>2 DEF SkipChunk, Advance
<1>3. ASSUME NEW p \in Producers, StoreChunk(p) PROVE VerifiedStored'
  BY <1>3 DEF StoreChunk, LockFree, Raises, Leave, Goto, Advance
<1>4. ASSUME NEW p \in Producers, CompleteSession(p) PROVE VerifiedStored'
  BY <1>4 DEF CompleteSession, AlreadyCompleted, LockFree, Raises, Leave, Goto
<1>5. ASSUME NEW p \in Producers, ClearPending(p) PROVE VerifiedStored'
  BY <1>5 DEF ClearPending, Goto
<1>6. ASSUME NEW p \in Producers, LandChunk(p) PROVE VerifiedStored'
  BY <1>6 DEF LandChunk, Raises, Leave, Goto
<1>7. ASSUME NEW p \in Producers, ReadAgain(p) PROVE VerifiedStored'
  BY <1>7 DEF ReadAgain, Raises, Leave, Goto
<1>8. ASSUME NEW p \in Producers, AcknowledgeChunk(p) PROVE VerifiedStored'
  BY <1>8 DEF AcknowledgeChunk, Advance, Goto
<1>9. ASSUME NEW p \in Producers, StageParts(p) PROVE VerifiedStored'
  BY <1>9 DEF StageParts, Raises, Leave, Goto
<1>10. ASSUME NEW p \in Producers, MarkCompleted(p) PROVE VerifiedStored'
  BY <1>10 DEF MarkCompleted, Raises, Leave, Goto
<1>11. ASSUME NEW p \in Producers, StreamBreaks(p) PROVE VerifiedStored'
  BY <1>11 DEF StreamBreaks, Fault, Leave, Goto
<1>12. ASSUME NEW p \in Producers, LoseAnswer(p) PROVE VerifiedStored'
  BY <1>12 DEF LoseAnswer, Fault, Leave, Goto
<1>13. CASE Crash
  BY <1>13 DEF Crash, Fault
<1>14. CASE AbortSession
  BY <1>14 DEF AbortSession, LockFree, Fault
<1>15. CASE ExpireSession
  BY <1>15 DEF ExpireSession
<1>16. CASE RemoveMetadata
  BY <1>16 DEF RemoveMetadata
<1>17. CASE RemoveParts
  BY <1>17 DEF RemoveParts
<1>18. CASE ExpireStops
  BY <1>18 DEF ExpireStops
<1>19. CASE PurgeBlob
  BY <1>19 DEF PurgeBlob
<1>20. CASE UNCHANGED vars
  BY <1>20 DEF vars
<1> QED
  BY <1>1, <1>2, <1>3, <1>4, <1>5, <1>6, <1>7, <1>8, <1>9, <1>10, <1>11, <1>12, <1>13, <1>14,
     <1>15, <1>16, <1>17, <1>18, <1>19, <1>20 DEF Next, ProducerStep, RequestStep, ExpireStep

\* No step takes back an acknowledgement or the completion.
LEMMA StepAcksKept ==
  TypeOK /\ StreamsIncomplete /\ ReadIsCurrent /\ [Next]_vars => KeepsAcks
<1> SUFFICES ASSUME TypeOK /\ StreamsIncomplete /\ ReadIsCurrent, [Next]_vars
             PROVE  KeepsAcks
  OBVIOUS
<1> USE UploadAssumption DEF KeepsAcks, TypeOK, VarTypes, OneRequest, StreamsIncomplete,
   ReadIsCurrent, InRequest, ChunkStages, CompleteStages, Sessions, NoSession
<1>1. ASSUME NEW p \in Producers, CreateOrResume(p) PROVE KeepsAcks
  BY <1>1 DEF CreateOrResume, CreateOrRead, EventLoopFree, Goto
<1>2. ASSUME NEW p \in Producers, SkipChunk(p) PROVE KeepsAcks
  BY <1>2 DEF SkipChunk, Advance
<1>3. ASSUME NEW p \in Producers, StoreChunk(p) PROVE KeepsAcks
  BY <1>3 DEF StoreChunk, LockFree, Raises, Leave, Goto, Advance
<1>4. ASSUME NEW p \in Producers, CompleteSession(p) PROVE KeepsAcks
  BY <1>4 DEF CompleteSession, AlreadyCompleted, LockFree, Raises, Leave, Goto
<1>5. ASSUME NEW p \in Producers, ClearPending(p) PROVE KeepsAcks
  BY <1>5 DEF ClearPending, Goto
<1>6. ASSUME NEW p \in Producers, LandChunk(p) PROVE KeepsAcks
  BY <1>6 DEF LandChunk, Raises, Leave, Goto
<1>7. ASSUME NEW p \in Producers, ReadAgain(p) PROVE KeepsAcks
  BY <1>7 DEF ReadAgain, Raises, Leave, Goto
<1>8. ASSUME NEW p \in Producers, AcknowledgeChunk(p) PROVE KeepsAcks
  BY <1>8 DEF AcknowledgeChunk, Advance, Goto
<1>9. ASSUME NEW p \in Producers, StageParts(p) PROVE KeepsAcks
  BY <1>9 DEF StageParts, Raises, Leave, Goto
<1>10. ASSUME NEW p \in Producers, MarkCompleted(p) PROVE KeepsAcks
  BY <1>10 DEF MarkCompleted, Raises, Leave, Goto
<1>11. ASSUME NEW p \in Producers, StreamBreaks(p) PROVE KeepsAcks
  BY <1>11 DEF StreamBreaks, Fault, Leave, Goto
<1>12. ASSUME NEW p \in Producers, LoseAnswer(p) PROVE KeepsAcks
  BY <1>12 DEF LoseAnswer, Fault, Leave, Goto
<1>13. CASE Crash
  BY <1>13 DEF Crash, Fault
<1>14. CASE AbortSession
  BY <1>14 DEF AbortSession, LockFree, Fault
<1>15. CASE ExpireSession
  BY <1>15 DEF ExpireSession
<1>16. CASE RemoveMetadata
  BY <1>16 DEF RemoveMetadata
<1>17. CASE RemoveParts
  BY <1>17 DEF RemoveParts
<1>18. CASE ExpireStops
  BY <1>18 DEF ExpireStops
<1>19. CASE PurgeBlob
  BY <1>19 DEF PurgeBlob
<1>20. CASE UNCHANGED vars
  BY <1>20 DEF vars
<1> QED
  BY <1>1, <1>2, <1>3, <1>4, <1>5, <1>6, <1>7, <1>8, <1>9, <1>10, <1>11, <1>12, <1>13, <1>14,
     <1>15, <1>16, <1>17, <1>18, <1>19, <1>20 DEF Next, ProducerStep, RequestStep, ExpireStep

\* The named parts together are inductive.
THEOREM Inductive == Spec => []IInv
<1>1. IInv /\ [Next]_vars => IInv'
  BY StepTypes, StepOne, StepStreams, StepRead, StepLanded, StepPartsLast, StepAcked,
     StepVerified
     DEF IInv, TypeOK
<1> QED
  BY InitInv, <1>1, PTL DEF Spec

\* The variables keep their types, and the requests of a session exclude each other.
THEOREM UploadTyped == Spec => []TypeOK
<1>1. IInv => TypeOK
  BY DEF IInv
<1> QED
  BY Inductive, <1>1, PTL

\* store_chunk acknowledges what is on disk: only a cleanup that meets a request, or
\* stops half way, leaves an acknowledged chunk without its part.
THEOREM AckedDurable == Spec => []AckedHavePart
<1>1. IInv => AckedHavePart
  BY DEF IInv
<1> QED
  BY Inductive, <1>1, PTL

\* complete_session tells no producer that a blob is uploaded which the store lacks.
THEOREM UploadStored == Spec => []UploadedIsStored
<1>1. IInv => UploadedIsStored
  BY DEF IInv, VerifiedStored, UploadedIsStored
<1> QED
  BY Inductive, <1>1, PTL

\* The read-modify-write of session.json loses no acknowledgement.
THEOREM AcksPersist == Spec => AcksKept
<1>1. IInv /\ [Next]_vars => KeepsAcks
  BY StepAcksKept DEF IInv
<1> QED
  BY Inductive, <1>1, PTL DEF Spec, AcksKept

-----------------------------------------------------------------------------
(* The direct uploads. *)

Places == {"pending", "putting", "acking", "recording", "verifying",
           "failing", "answered", "sent"}

Expiries == [step : {"idle", "abort", "remove"}, upload : Uploads \cup {NoUpload}]

\* A request has the session in hand while it handles it, and only then.
OpenedSound ==
  /\ Handling = {} => opened = NoReceipt
  /\ Handling # {} => receipt \in {opened, NoReceipt}

\* The part that a client has put and that is to be acknowledged.
PartInHand ==
  \A c \in Clients : call[c] \in {"acking", "recording"} => next[c] \in PartNumbers

\* The object is there with an incomplete session, or with a request that will write
\* one, only while a completion is verified, unless one was cut.
FinishedIsVerified ==
  object /\ ~severed /\ (receipt.state = "uploading" \/ \E c \in Clients : call[c] = "recording")
    => \E c \in Clients : call[c] = "verifying"

\* A multipart upload is closed when its session is completed, when a completion
\* verifies it, when the cleanup has aborted it, and when a request holds a session
\* whose file is gone.
ClosedUploads ==
  /\ receipt.state # "uploading" => receipt.upload \notin open
  /\ (\E c \in Clients : call[c] = "verifying") => opened.upload \notin open
  /\ expiry.step = "idle" => expiry = Idle
  /\ expiry.step = "remove" /\ ~strayed => expiry.upload \notin open
  /\ Handling # {} /\ receipt # opened /\ ~strayed => opened.upload \notin open

\* A completed session without its object is one that a purge emptied under all
\* the calls there are.
StaleIsPurged ==
  receipt.state = "completed" /\ ~object /\ ~severed =>
    \A c \in Clients : call[c] = "pending" \/ c \in gone

\* Between the answer and its effect, too, only a purge takes the object.
AnswerIsStored ==
  \A c \in Clients : call[c] \in {"answered", "sent"} /\ c \notin gone /\ ~severed => object

DirectInv ==
  /\ DirectTypeOK /\ PartInHand /\ OpenedSound /\ FinishedIsVerified /\ ClosedUploads
  /\ StaleIsPurged /\ AnswerIsStored /\ CommittedIsStored /\ NoOrphanUpload
------------------------------------------------------------------------------
\* The types.

ServerTypes == /\ receipt \in Receipts /\ opened \in Receipts /\ expiry \in Expiries
               /\ open \subseteq Uploads
               /\ uploaded \in [Uploads -> SUBSET PartNumbers]
               /\ object \in BOOLEAN

ClientTypes == /\ call \in [Clients -> Places]
               /\ ticket \in [Clients -> Receipts]
               /\ next \in [Clients -> 1 .. PartCount + 1]

OneInHand == /\ \A c, d \in Handling : c = d
             /\ Handling # {} => opened.state = "uploading"

LEMMA TypeParts == DirectTypeOK <=> ServerTypes /\ ClientTypes /\ OneInHand
  BY DEF DirectTypeOK, ServerTypes, ClientTypes, OneInHand, Places, Expiries

LEMMA ReceiptFacts ==
  /\ NoReceipt \in Receipts /\ [NoReceipt EXCEPT !.state = "completed"] \in Receipts
  /\ NoReceipt.state = "none" /\ NoReceipt.upload = NoUpload /\ NoReceipt.parts = {}
  /\ [NoReceipt EXCEPT !.state = "completed"].state = "completed"
  /\ [NoReceipt EXCEPT !.state = "completed"].upload = NoUpload
  /\ \A u \in Uploads : [state |-> "uploading", upload |-> u, parts |-> {}] \in Receipts
  /\ Idle \in Expiries
  /\ NoUpload \notin Uploads
  BY DirectAssumption DEF Receipts, NoReceipt, NoUpload, Expiries, Idle

LEMMA CallTyped ==
  ASSUME ClientTypes, NEW c \in Clients, NEW place \in Places
  PROVE  /\ At(c, place) => call' \in [Clients -> Places]
         /\ Leaves(c, place) => ClientTypes'
<1>1. 1 \in 1 .. PartCount + 1
  BY DirectAssumption
<1> QED
  BY <1>1, ReceiptFacts DEF ClientTypes, At, Leaves

LEMMA StoreTyped ==
  ASSUME ServerTypes
  PROVE  /\ \A u : Close(u) => /\ open' \subseteq open
                               /\ uploaded' \in [Uploads -> SUBSET PartNumbers]
         /\ \A u \in Uploads : BeginMultipart(u) =>
              /\ open' \subseteq Uploads /\ object' = object
              /\ uploaded' \in [Uploads -> SUBSET PartNumbers]
  BY DEF ServerTypes, Close, BeginMultipart

LEMMA NextServerTypes ==
  ASSUME ServerTypes, ClientTypes, PartInHand, [DirectNext]_directVars
  PROVE  ServerTypes'
<1> USE ReceiptFacts
<1>1. ASSUME NEW c \in Clients, CreateOrResumeDirect(c)
      PROVE  ServerTypes'
  <2>1. CASE ResumeDirect(c)
    BY <1>1, <2>1 DEF CreateOrResumeDirect, ResumeDirect, ServerTypes, store
  <2>2. CASE AlreadyPresent(c)
    BY <1>1, <2>2 DEF CreateOrResumeDirect, AlreadyPresent, ServerTypes, store
  <2>3. CASE StartDirect(c)
    BY <1>1, <2>3, StoreTyped DEF CreateOrResumeDirect, StartDirect, ServerTypes
  <2> QED
    BY <1>1, <2>1, <2>2, <2>3 DEF CreateOrResumeDirect
<1>2. ASSUME NEW c \in Clients, CreateIsCut(c)
      PROVE  ServerTypes'
  BY <1>2, StoreTyped DEF CreateIsCut, ServerTypes
<1>3. ASSUME NEW c \in Clients, SkipPart(c) \/ ClearDirect(c) \/ ClientEnds(c)
      PROVE  ServerTypes'
  BY <1>3 DEF SkipPart, ClearDirect, ClientEnds, ServerTypes, store
<1>4. ASSUME NEW c \in Clients, PutPart(c)
      PROVE  ServerTypes'
  BY <1>4 DEF PutPart, ServerTypes, ClientTypes
<1>5. ASSUME NEW c \in Clients, AcknowledgePart(c)
      PROVE  ServerTypes'
  BY <1>5 DEF AcknowledgePart, ServerTypes, store
<1>6. ASSUME NEW c \in Clients, RecordPart(c)
      PROVE  ServerTypes'
  <2>1. next[c] \in PartNumbers
    BY <1>6 DEF RecordPart, PartInHand
  <2>2. receipt' \in Receipts
    BY <1>6, <2>1 DEF RecordPart, ServerTypes, Receipts
  <2> QED
    BY <1>6, <2>2 DEF RecordPart, ServerTypes, store
<1>7. ASSUME NEW c \in Clients, CompleteDirect(c)
      PROVE  ServerTypes'
  BY <1>7, StoreTyped DEF CompleteDirect, ServerTypes, store
<1>8. ASSUME NEW c \in Clients, RecordCompleted(c)
      PROVE  ServerTypes'
  BY <1>8 DEF RecordCompleted, ServerTypes, store
<1>9. ASSUME NEW c \in Clients, VerifyFails(c)
      PROVE  ServerTypes'
  BY <1>9 DEF VerifyFails, ServerTypes
<1>10. ASSUME NEW c \in Clients, AbortDirect(c)
       PROVE  ServerTypes'
  BY <1>10, StoreTyped DEF AbortDirect, ServerTypes
<1>11. CASE ServerEnds
  BY <1>11 DEF ServerEnds, ServerTypes, store
<1>12. CASE ExpireDirect
  <2>1. expiry' \in Expiries
    BY <1>12 DEF ExpireDirect, ServerTypes, Receipts, Expiries
  <2> QED
    BY <1>12, <2>1 DEF ExpireDirect, ServerTypes, store
<1>13. CASE ExpireAborts
  <2>1. expiry' \in Expiries
    BY <1>13 DEF ExpireAborts, ServerTypes, Expiries
  <2> QED
    BY <1>13, <2>1, StoreTyped DEF ExpireAborts, ServerTypes
<1>14. CASE ExpireRemoves
  BY <1>14 DEF ExpireRemoves, ServerTypes, store
<1>15. CASE CommitOnObject
  BY <1>15 DEF CommitOnObject, ServerTypes, store
<1>16. CASE PurgeObject
  BY <1>16 DEF PurgeObject, ServerTypes
<1>17. CASE UNCHANGED directVars
  BY <1>17 DEF directVars, store, ServerTypes
<1> QED
  BY <1>1, <1>2, <1>3, <1>4, <1>5, <1>6, <1>7, <1>8, <1>9, <1>10, <1>11, <1>12, <1>13,
     <1>14, <1>15, <1>16, <1>17
     DEF DirectNext, ClientStep, HandlerStep, ExpiryStep

\* A step of a client's loop moves it on by one part.
LEMMA NextClientTypes ==
  ASSUME ServerTypes, ClientTypes, PartInHand, [DirectNext]_directVars
  PROVE  ClientTypes'
<1> USE ReceiptFacts
<1>0. PartCount \in Nat /\ 1 \in 1 .. PartCount + 1
  BY DirectAssumption
<1>1. ASSUME NEW c \in Clients, CreateOrResumeDirect(c)
      PROVE  ClientTypes'
  <2>1. CASE ResumeDirect(c)
    BY <2>1 DEF ResumeDirect, At, ClientTypes, ServerTypes, Places
  <2>2. CASE AlreadyPresent(c)
    BY <2>2, CallTyped DEF AlreadyPresent, Places
  <2>3. CASE StartDirect(c)
    BY <2>3 DEF StartDirect, At, ClientTypes, Places
  <2> QED
    BY <1>1, <2>1, <2>2, <2>3 DEF CreateOrResumeDirect
<1>2. ASSUME NEW c \in Clients, SkipPart(c)
      PROVE  ClientTypes'
  <2>1. next[c] \in PartNumbers
    BY <1>2 DEF SkipPart, ClientTypes, Receipts
  <2> QED
    BY <1>0, <1>2, <2>1 DEF SkipPart, ClientTypes, PartNumbers
<1>3. ASSUME NEW c \in Clients, PutPart(c)
      PROVE  ClientTypes'
  BY <1>3 DEF PutPart, At, ClientTypes, Places
<1>4. ASSUME NEW c \in Clients, AcknowledgePart(c)
      PROVE  ClientTypes'
  <2>1. next[c] \in PartNumbers
    BY <1>4 DEF AcknowledgePart, PartInHand
  <2>2. [next EXCEPT ![c] = @ + 1] \in [Clients -> 1 .. PartCount + 1]
    BY <1>0, <2>1 DEF ClientTypes, PartNumbers
  <2>3. call' \in [Clients -> Places]
    BY <1>4, CallTyped DEF AcknowledgePart, Places
  <2> QED
    BY <1>4, <2>2, <2>3 DEF AcknowledgePart, ClientTypes
<1>5. ASSUME NEW c \in Clients, RecordPart(c)
      PROVE  ClientTypes'
  <2>1. next[c] \in PartNumbers
    BY <1>5 DEF RecordPart, PartInHand
  <2>2. [next EXCEPT ![c] = @ + 1] \in [Clients -> 1 .. PartCount + 1]
    BY <1>0, <2>1 DEF ClientTypes, PartNumbers
  <2>3. call' \in [Clients -> Places]
    BY <1>5, CallTyped DEF RecordPart, Places
  <2> QED
    BY <1>5, <2>2, <2>3 DEF RecordPart, ClientTypes
<1>6. ASSUME NEW c \in Clients, CompleteDirect(c)
      PROVE  ClientTypes'
  <2>1. At(c, "failing") \/ At(c, "verifying") => call' \in [Clients -> Places]
    BY CallTyped DEF Places
  <2>2. Leaves(c, "answered") => ClientTypes'
    BY CallTyped DEF Places
  <2> QED
    BY <1>6, <2>1, <2>2 DEF CompleteDirect, ClientTypes
<1>7. ASSUME NEW c \in Clients, RecordCompleted(c) \/ VerifyFails(c)
      PROVE  ClientTypes'
  <2>1. At(c, "failing") => call' \in [Clients -> Places]
    BY CallTyped DEF Places
  <2>2. Leaves(c, "answered") => ClientTypes'
    BY CallTyped DEF Places
  <2> QED
    BY <1>7, <2>1, <2>2 DEF RecordCompleted, VerifyFails, ClientTypes
<1>8. ASSUME NEW c \in Clients, ClearDirect(c)
      PROVE  ClientTypes'
  BY <1>8 DEF ClearDirect, At, ClientTypes, Places
<1>9. ASSUME NEW c \in Clients, AbortDirect(c) \/ ClientEnds(c)
      PROVE  ClientTypes'
  BY <1>9, CallTyped DEF AbortDirect, ClientEnds, Places
<1>10. CASE ServerEnds
  BY <1>0, <1>10 DEF ServerEnds, ClientTypes, Places
<1>11. CASE UNCHANGED client
  BY <1>11 DEF client, ClientTypes
<1>12. \A c \in Clients : CreateIsCut(c) => UNCHANGED client
  BY DEF CreateIsCut
<1>13. ExpireDirect \/ ExpiryStep \/ CommitOnObject \/ PurgeObject => UNCHANGED client
  BY DEF ExpireDirect, ExpiryStep, ExpireAborts, ExpireRemoves, CommitOnObject, PurgeObject
<1> QED
  BY <1>1, <1>2, <1>3, <1>4, <1>5, <1>6, <1>7, <1>8, <1>9, <1>10, <1>11, <1>12, <1>13
     DEF DirectNext, ClientStep, HandlerStep, directVars

LEMMA NextPartInHand ==
  ASSUME ClientTypes, PartInHand, [DirectNext]_directVars
  PROVE  PartInHand'
<1> USE DEF PartInHand, ClientTypes
<1>1. ASSUME NEW c \in Clients, PutPart(c)
      PROVE  PartInHand'
  BY <1>1 DEF PutPart, At, Places
<1>2. ASSUME NEW c \in Clients, AcknowledgePart(c) \/ RecordPart(c)
      PROVE  PartInHand'
  BY <1>2 DEF AcknowledgePart, RecordPart, At, Places
<1>3. ASSUME NEW c \in Clients, ClientStep(c), ~PutPart(c), ~AcknowledgePart(c)
      PROVE  PartInHand'
  BY <1>3 DEF ClientStep, CreateOrResumeDirect, ResumeDirect, AlreadyPresent, StartDirect,
     SkipPart, CompleteDirect, ClearDirect, AbortDirect, At, Leaves, Places
<1>4. ASSUME NEW c \in Clients, RecordCompleted(c) \/ VerifyFails(c) \/ ClientEnds(c)
      PROVE  PartInHand'
  BY <1>4 DEF RecordCompleted, VerifyFails, ClientEnds, At, Leaves, Places
<1>5. CASE ServerEnds
  BY <1>5 DEF ServerEnds
<1>6. CASE UNCHANGED client
  BY <1>6 DEF client
<1>7. \A c \in Clients : CreateIsCut(c) => UNCHANGED client
  BY DEF CreateIsCut
<1>8. ExpireDirect \/ ExpiryStep \/ CommitOnObject \/ PurgeObject => UNCHANGED client
  BY DEF ExpireDirect, ExpiryStep, ExpireAborts, ExpireRemoves, CommitOnObject, PurgeObject
<1> QED
  BY <1>1, <1>2, <1>3, <1>4, <1>5, <1>6, <1>7, <1>8
     DEF DirectNext, HandlerStep, directVars
------------------------------------------------------------------------------
\* The request that has the session in hand.

\* What a call's move does to the requests in progress.
Serving == {"recording", "verifying"}

LEMMA HandlingMoves ==
  ASSUME ClientTypes, NEW c \in Clients, NEW place, At(c, place)
  PROVE  Handling' = IF place \in Serving THEN Handling \cup {c} ELSE Handling \ {c}
  BY DEF ClientTypes, At, Handling, Serving

\* The steps that leave the requests in progress, the session and what they hold
\* of it.
HandUnchanged == UNCHANGED <<receipt, opened>> /\ Handling' = Handling

LEMMA IdleSteps ==
  ASSUME ClientTypes, NEW c \in Clients,
         SkipPart(c) \/ PutPart(c) \/ ClearDirect(c) \/ ClientEnds(c)
  PROVE  HandUnchanged
<1>1. CASE SkipPart(c)
  BY <1>1 DEF SkipPart, Handling, HandUnchanged
<1>2. CASE PutPart(c)
  BY <1>2, HandlingMoves DEF PutPart, Serving, Handling, HandUnchanged
<1>3. CASE ClearDirect(c)
  BY <1>3, HandlingMoves DEF ClearDirect, Serving, Handling, HandUnchanged
<1>4. CASE ClientEnds(c)
  BY <1>4, HandlingMoves DEF ClientEnds, Leaves, Serving, Handling, HandUnchanged
<1> QED
  BY <1>1, <1>2, <1>3, <1>4

LEMMA NextOneInHand ==
  ASSUME ServerTypes, ClientTypes, OneInHand, OpenedSound, [DirectNext]_directVars
  PROVE  OneInHand' /\ OpenedSound'
<1> USE ReceiptFacts DEF OneInHand, OpenedSound
<1>1. ASSUME NEW c \in Clients, CreateOrResumeDirect(c)
      PROVE  OneInHand' /\ OpenedSound'
  <2>1. Handling = {} /\ opened' = opened
    BY <1>1 DEF CreateOrResumeDirect, LoopFree
  <2>2. At(c, "putting") \/ At(c, "answered")
    BY <1>1 DEF CreateOrResumeDirect, ResumeDirect, AlreadyPresent, StartDirect, Leaves
  <2>3. Handling' = {}
    BY <2>1, <2>2, HandlingMoves DEF Serving
  <2> QED
    BY <2>1, <2>3
<1>2. ASSUME NEW c \in Clients, CreateIsCut(c)
      PROVE  OneInHand' /\ OpenedSound'
  BY <1>2 DEF CreateIsCut, LoopFree, client, Handling
<1>3. ASSUME NEW c \in Clients, SkipPart(c) \/ PutPart(c) \/ ClearDirect(c) \/ ClientEnds(c)
      PROVE  OneInHand' /\ OpenedSound'
  BY <1>3, IdleSteps DEF HandUnchanged
<1>4. ASSUME NEW c \in Clients, AcknowledgePart(c)
      PROVE  OneInHand' /\ OpenedSound'
  <2>1. Handling = {} /\ receipt' = receipt
    BY <1>4 DEF AcknowledgePart, LoopFree
  <2>2. CASE receipt.state = "uploading" /\ opened' = receipt /\ At(c, "recording")
    BY <2>1, <2>2, HandlingMoves DEF Serving
  <2>3. CASE opened' = opened /\ (At(c, "failing") \/ At(c, "putting"))
    <3>1. Handling' = {}
      BY <2>1, <2>3, HandlingMoves DEF Serving
    <3> QED
      BY <2>1, <2>3, <3>1
  <2> QED
    BY <1>4, <2>2, <2>3 DEF AcknowledgePart
<1>5. ASSUME NEW c \in Clients, RecordPart(c) \/ RecordCompleted(c) \/ VerifyFails(c)
      PROVE  OneInHand' /\ OpenedSound'
  <2>1. Handling = {c} /\ opened' = NoReceipt
    BY <1>5 DEF RecordPart, RecordCompleted, VerifyFails, Handling
  <2>2. At(c, "putting") \/ At(c, "answered") \/ At(c, "failing")
    BY <1>5 DEF RecordPart, RecordCompleted, VerifyFails, Leaves
  <2>3. Handling' = {}
    BY <2>1, <2>2, HandlingMoves DEF Serving
  <2> QED
    BY <2>1, <2>3
<1>6. ASSUME NEW c \in Clients, CompleteDirect(c)
      PROVE  OneInHand' /\ OpenedSound'
  <2>1. Handling = {} /\ receipt' = receipt
    BY <1>6 DEF CompleteDirect, LoopFree
  <2>2. CASE receipt.state = "uploading" /\ opened' = receipt /\ At(c, "verifying")
    BY <2>1, <2>2, HandlingMoves DEF Serving
  <2>3. CASE opened' = opened /\ (At(c, "failing") \/ At(c, "answered"))
    <3>1. Handling' = {}
      BY <2>1, <2>3, HandlingMoves DEF Serving
    <3> QED
      BY <2>1, <2>3, <3>1
  <2> QED
    BY <1>6, <2>2, <2>3 DEF CompleteDirect, Leaves
<1>7. ASSUME NEW c \in Clients, AbortDirect(c)
      PROVE  OneInHand' /\ OpenedSound'
  <2>1. Handling = {} /\ opened' = opened /\ At(c, "pending")
    BY <1>7 DEF AbortDirect, LoopFree, Leaves
  <2>2. Handling' = {}
    BY <2>1, HandlingMoves DEF Serving
  <2> QED
    BY <2>1, <2>2
<1>8. CASE ServerEnds
  <2>1. Handling' = {} /\ opened' = NoReceipt
    BY <1>8 DEF ServerEnds, Handling
  <2> QED
    BY <2>1
<1>9. CASE ExpireRemoves
  <2>1. Handling' = Handling /\ opened' = opened /\ receipt' = NoReceipt
    BY <1>9 DEF ExpireRemoves, client, Handling
  <2> QED
    BY <2>1
<1>10. CASE UNCHANGED <<client, opened, receipt>>
  BY <1>10 DEF client, Handling
<1>11. ExpireDirect \/ ExpireAborts \/ CommitOnObject \/ PurgeObject
         => UNCHANGED <<client, opened, receipt>>
  BY DEF ExpireDirect, ExpireAborts, CommitOnObject, PurgeObject
<1> QED
  BY <1>1, <1>2, <1>3, <1>4, <1>5, <1>6, <1>7, <1>8, <1>9, <1>10, <1>11
     DEF DirectNext, ClientStep, HandlerStep, ExpiryStep, directVars
------------------------------------------------------------------------------
\* The object.

StoredInv == FinishedIsVerified /\ CommittedIsStored /\ AnswerIsStored /\ StaleIsPurged

LEMMA NextStoredInv ==
  ASSUME ServerTypes, ClientTypes, OneInHand, OpenedSound, StoredInv,
         [DirectNext]_directVars
  PROVE  StoredInv'
<1> USE ReceiptFacts DEF StoredInv, FinishedIsVerified, CommittedIsStored, AnswerIsStored,
        StaleIsPurged
\* With no request in progress an incomplete session has no object yet.
<1>0. LoopFree /\ ~severed /\ receipt.state = "uploading" => ~object
  BY DEF LoopFree, Handling
<1>1. ASSUME NEW c \in Clients, CreateOrResumeDirect(c)
      PROVE  StoredInv'
  <2>1. UNCHANGED directHistory /\ LoopFree /\ call[c] = "pending"
    BY <1>1 DEF CreateOrResumeDirect
  <2>2. CASE ResumeDirect(c)
    BY <2>1, <2>2, <1>0 DEF ResumeDirect, directHistory, store, At, ClientTypes, LoopFree, Handling
  <2>3. CASE AlreadyPresent(c)
    BY <2>1, <2>3, <1>0 DEF AlreadyPresent, directHistory, store, At, Leaves, ClientTypes,
       LoopFree, Handling
  <2>4. CASE StartDirect(c)
    BY <2>1, <2>4, <1>0 DEF StartDirect, BeginMultipart, directHistory, At, ClientTypes,
       LoopFree, Handling
  <2> QED
    BY <1>1, <2>2, <2>3, <2>4 DEF CreateOrResumeDirect
<1>2. ASSUME NEW c \in Clients, CreateIsCut(c)
      PROVE  StoredInv'
  BY <1>2, <1>0 DEF CreateIsCut, BeginMultipart, client, LoopFree, Handling
<1>3. ASSUME NEW c \in Clients, SkipPart(c) \/ PutPart(c) \/ ClearDirect(c) \/ ClientEnds(c)
      PROVE  StoredInv'
  BY <1>3 DEF SkipPart, PutPart, ClearDirect, ClientEnds, store, directHistory, At, Leaves,
     ClientTypes
<1>4. ASSUME NEW c \in Clients, AcknowledgePart(c)
      PROVE  StoredInv'
  BY <1>4, <1>0 DEF AcknowledgePart, store, directHistory, At, ClientTypes, LoopFree, Handling
<1>5. ASSUME NEW c \in Clients, RecordPart(c)
      PROVE  StoredInv'
  BY <1>5 DEF RecordPart, store, directHistory, At, ClientTypes, OneInHand, Handling
<1>6. ASSUME NEW c \in Clients, CompleteDirect(c)
      PROVE  StoredInv'
  BY <1>6, <1>0 DEF CompleteDirect, store, directHistory, At, Leaves, ClientTypes,
     LoopFree, Handling
<1>7. ASSUME NEW c \in Clients, RecordCompleted(c)
      PROVE  StoredInv'
  <2>1. Handling = {c} /\ receipt.state # "completed"
    BY <1>7 DEF RecordCompleted, OneInHand, OpenedSound, Handling
  <2>2. \A d \in Clients : call[d] \notin Serving \/ d = c
    BY <2>1 DEF Handling, Serving
  <2>3. CASE object
    BY <1>7, <2>2, <2>3 DEF RecordCompleted, store, directHistory, At, Leaves, ClientTypes, Serving
  <2>4. CASE ~object
    BY <1>7, <2>1, <2>4 DEF RecordCompleted, store, directHistory, At, ClientTypes
  <2> QED
    BY <2>3, <2>4
<1>8. ASSUME NEW c \in Clients, VerifyFails(c)
      PROVE  StoredInv'
  BY <1>8 DEF VerifyFails
<1>9. ASSUME NEW c \in Clients, AbortDirect(c)
      PROVE  StoredInv'
  BY <1>9, <1>0 DEF AbortDirect, directHistory, At, Leaves, ClientTypes, LoopFree, Handling
<1>10. CASE ServerEnds
  BY <1>10 DEF ServerEnds, store, Handling, ClientTypes
<1>11. CASE ExpireDirect \/ ExpireAborts
  BY <1>11 DEF ExpireDirect, ExpireAborts, store, client, directHistory
<1>12. CASE ExpireRemoves
  BY <1>12 DEF ExpireRemoves, store, client
<1>13. CASE CommitOnObject
  BY <1>13 DEF CommitOnObject, store, client
<1>14. CASE PurgeObject
  BY <1>14 DEF PurgeObject, client
<1>15. CASE UNCHANGED directVars
  BY <1>15 DEF directVars, store, client, directHistory
<1> QED
  BY <1>1, <1>2, <1>3, <1>4, <1>5, <1>6, <1>7, <1>8, <1>9, <1>10, <1>11, <1>12, <1>13,
     <1>14, <1>15
     DEF DirectNext, ClientStep, HandlerStep, ExpiryStep
------------------------------------------------------------------------------
\* The multipart uploads.

\* A new multipart upload is one that no record names.
LEMMA BeginFresh ==
  ASSUME NEW u \in Uploads, BeginMultipart(u)
  PROVE  /\ open' = open \cup {u}
         /\ u \notin {receipt.upload, opened.upload, expiry.upload}
  BY DEF BeginMultipart, Free

OrphanInv == ClosedUploads /\ NoOrphanUpload

LEMMA NextOrphanInv ==
  ASSUME ServerTypes, ClientTypes, OneInHand, OpenedSound, OrphanInv,
         [DirectNext]_directVars
  PROVE  OrphanInv'
<1> USE ReceiptFacts DEF OrphanInv, ClosedUploads, NoOrphanUpload
<1>t. open \subseteq Uploads
  BY DEF ServerTypes
<1>1. ASSUME NEW c \in Clients, CreateOrResumeDirect(c)
      PROVE  OrphanInv'
  <2>1. /\ UNCHANGED <<opened, expiry, strayed>>
        /\ Handling = {} /\ opened = NoReceipt
    BY <1>1 DEF CreateOrResumeDirect, directHistory, LoopFree, OpenedSound
  <2>2. At(c, "putting") \/ At(c, "answered")
    BY <1>1 DEF CreateOrResumeDirect, ResumeDirect, AlreadyPresent, StartDirect, Leaves
  <2>3. Handling' = {} /\ ~\E d \in Clients : call'[d] = "verifying"
    <3>1. Handling' = {}
      BY <2>1, <2>2, HandlingMoves DEF Serving
    <3> QED
      BY <3>1 DEF Handling
  <2>4. CASE ResumeDirect(c)
    BY <2>1, <2>3, <2>4 DEF ResumeDirect, store
  <2>5. CASE AlreadyPresent(c)
    BY <1>t, <2>1, <2>3, <2>5 DEF AlreadyPresent, store
  <2>6. CASE StartDirect(c)
    <3>1. PICK u \in Uploads :
            /\ BeginMultipart(u)
            /\ receipt' = [state |-> "uploading", upload |-> u, parts |-> {}]
      BY <2>6 DEF StartDirect
    <3>2. /\ open' = open \cup {u} /\ receipt.upload \notin open
          /\ u \notin {receipt.upload, opened.upload, expiry.upload}
      BY <2>6, <3>1, BeginFresh DEF StartDirect
    <3> QED
      BY <1>t, <2>1, <2>3, <3>1, <3>2
  <2> QED
    BY <1>1, <2>4, <2>5, <2>6 DEF CreateOrResumeDirect
<1>2. ASSUME NEW c \in Clients, CreateIsCut(c)
      PROVE  OrphanInv'
  <2>1. PICK u \in Uploads : BeginMultipart(u)
    BY <1>2 DEF CreateIsCut
  <2>2. /\ open' \subseteq Uploads /\ receipt' = NoReceipt /\ strayed' = TRUE
        /\ UNCHANGED <<expiry, call>> /\ Handling = {}
    BY <1>2, <1>t, <2>1, BeginFresh DEF CreateIsCut, client, LoopFree
  <2>3. ~\E d \in Clients : call'[d] = "verifying"
    BY <2>2 DEF Handling
  <2> QED
    BY <2>2, <2>3
<1>3. ASSUME NEW c \in Clients, SkipPart(c) \/ PutPart(c) \/ ClearDirect(c) \/ ClientEnds(c)
      PROVE  OrphanInv'
  <2>1. HandUnchanged /\ UNCHANGED <<open, expiry, strayed>>
    BY <1>3, IdleSteps DEF SkipPart, PutPart, ClearDirect, ClientEnds, store, directHistory
  <2>2. (\E d \in Clients : call'[d] = "verifying") => \E d \in Clients : call[d] = "verifying"
    BY <1>3 DEF SkipPart, PutPart, ClearDirect, ClientEnds, Leaves, At, ClientTypes
  <2> QED
    BY <2>1, <2>2 DEF HandUnchanged
<1>4. ASSUME NEW c \in Clients, AcknowledgePart(c)
      PROVE  OrphanInv'
  <2>1. Handling = {} /\ opened = NoReceipt /\ UNCHANGED <<receipt, open, expiry, strayed>>
    BY <1>4 DEF AcknowledgePart, LoopFree, OpenedSound, store, directHistory
  <2>2. ~\E d \in Clients : call'[d] = "verifying"
    BY <1>4, <2>1 DEF AcknowledgePart, At, Handling, ClientTypes
  <2>3. CASE opened' = receipt
    BY <1>t, <2>1, <2>2, <2>3
  <2>4. CASE opened' = opened /\ (At(c, "failing") \/ At(c, "putting"))
    <3>1. Handling' = {}
      BY <2>1, <2>4, HandlingMoves DEF Serving
    <3> QED
      BY <2>1, <2>2, <2>4, <3>1
  <2> QED
    BY <1>4, <2>3, <2>4 DEF AcknowledgePart
<1>5. ASSUME NEW c \in Clients, RecordPart(c)
      PROVE  OrphanInv'
  <2>1. /\ Handling = {c} /\ call[c] = "recording" /\ opened.state = "uploading"
        /\ opened' = NoReceipt /\ UNCHANGED <<open, expiry, strayed>>
    BY <1>5 DEF RecordPart, OneInHand, Handling, store, directHistory
  <2>2. receipt'.upload = opened.upload /\ receipt'.state = "uploading"
    BY <1>5, <2>1 DEF RecordPart, ServerTypes, Receipts
  <2>3. Handling' = {} /\ ~\E d \in Clients : call'[d] = "verifying"
    <3>1. Handling' = {}
      BY <1>5, <2>1, HandlingMoves DEF RecordPart, Serving
    <3> QED
      BY <3>1 DEF Handling
  <2>4. receipt.upload \in {opened.upload, NoUpload}
    BY <2>1 DEF OpenedSound
  <2> QED
    BY <1>t, <2>1, <2>2, <2>3, <2>4
<1>6. ASSUME NEW c \in Clients, CompleteDirect(c)
      PROVE  OrphanInv'
  <2>1. /\ Handling = {} /\ opened = NoReceipt /\ UNCHANGED <<receipt, expiry, strayed>>
        /\ open' \subseteq open
    BY <1>6 DEF CompleteDirect, LoopFree, OpenedSound, store, directHistory, Close
  <2>2. CASE opened' = receipt /\ Close(receipt.upload)
    <3>1. receipt.upload \notin open' /\ opened'.upload = receipt.upload
      BY <2>2 DEF Close
    <3> QED
      BY <1>t, <2>1, <2>2, <3>1
  <2>3. CASE opened' = opened /\ (At(c, "failing") \/ At(c, "answered"))
    <3>1. Handling' = {}
      BY <2>1, <2>3, HandlingMoves DEF Serving
    <3>2. ~\E d \in Clients : call'[d] = "verifying"
      BY <3>1 DEF Handling
    <3> QED
      BY <2>1, <2>3, <3>1, <3>2
  <2> QED
    BY <1>6, <2>2, <2>3 DEF CompleteDirect, Leaves
<1>7. ASSUME NEW c \in Clients, RecordCompleted(c) \/ VerifyFails(c)
      PROVE  OrphanInv'
  <2>1. /\ Handling = {c} /\ call[c] = "verifying" /\ opened' = NoReceipt
        /\ UNCHANGED <<open, expiry, strayed>>
    BY <1>7 DEF RecordCompleted, VerifyFails, OneInHand, Handling, store, directHistory
  <2>2. Handling' = {}
    BY <1>7, <2>1, HandlingMoves DEF RecordCompleted, VerifyFails, Leaves, Serving
  <2>3. ~\E d \in Clients : call'[d] = "verifying"
    BY <2>2 DEF Handling
  <2>4. receipt.upload \notin open /\ opened.upload \notin open
    BY <1>t, <2>1 DEF OpenedSound
  <2>5. receipt' = receipt \/ receipt' = [NoReceipt EXCEPT !.state = "completed"]
    BY <1>7 DEF RecordCompleted, VerifyFails
  <2> QED
    BY <1>t, <2>1, <2>2, <2>3, <2>4, <2>5
<1>8. ASSUME NEW c \in Clients, AbortDirect(c)
      PROVE  OrphanInv'
  <2>1. /\ Handling = {} /\ opened = NoReceipt /\ UNCHANGED <<opened, expiry, strayed>>
        /\ At(c, "pending")
    BY <1>8 DEF AbortDirect, LoopFree, OpenedSound, directHistory, Leaves
  <2>2. Handling' = {}
    BY <2>1, HandlingMoves DEF Serving
  <2>3. ~\E d \in Clients : call'[d] = "verifying"
    BY <2>2 DEF Handling
  <2>4. \/ open' = open \ {receipt.upload} /\ receipt' = NoReceipt
        \/ open' = open /\ receipt' = receipt
    BY <1>8 DEF AbortDirect, Close
  <2> QED
    BY <1>t, <2>1, <2>2, <2>3, <2>4
<1>9. CASE ServerEnds
  <2>1. /\ Handling' = {} /\ opened' = NoReceipt
        /\ UNCHANGED <<receipt, open, expiry, strayed>>
    BY <1>9 DEF ServerEnds, Handling, store
  <2>2. ~\E d \in Clients : call'[d] = "verifying"
    BY <2>1 DEF Handling
  <2>3. ~strayed => opened.upload \notin open \/ opened.upload = receipt.upload
    BY <1>t DEF OpenedSound
  <2> QED
    BY <1>t, <2>1, <2>2, <2>3
<1>10. CASE ExpireDirect
  BY <1>10, <1>t DEF ExpireDirect, Idle, store, client, directHistory, Handling
<1>11. CASE ExpireAborts
  <2>1. /\ UNCHANGED <<receipt, opened, call>> /\ Handling' = Handling
        /\ expiry' = [expiry EXCEPT !.step = "remove"]
        /\ strayed => strayed'
    BY <1>11 DEF ExpireAborts, client, Handling
  <2>2. expiry'.step = "remove" /\ expiry'.upload = expiry.upload
    BY <2>1 DEF ServerTypes, Expiries
  <2>3. \/ open' = open \ {expiry.upload}
        \/ open' = open /\ strayed'
    BY <1>11 DEF ExpireAborts, Close
  <2> QED
    BY <2>1, <2>2, <2>3
<1>12. CASE ExpireRemoves
  <2>1. /\ UNCHANGED <<open, opened, call>> /\ Handling' = Handling
        /\ expiry.step = "remove" /\ expiry' = Idle /\ receipt' = NoReceipt
        /\ strayed' = (strayed \/ (receipt.state = "uploading"
                                   /\ receipt.upload # expiry.upload))
    BY <1>12 DEF ExpireRemoves, store, client, Handling
  <2>2. ~strayed' => receipt.upload \notin open /\ expiry.upload \notin open
    BY <2>1
  <2>3. ~strayed' /\ Handling # {} => opened.upload \notin open
    BY <1>t, <2>1, <2>2 DEF OpenedSound
  <2> QED
    BY <1>t, <2>1, <2>2, <2>3 DEF Idle
<1>13. CASE UNCHANGED <<receipt, open, call, opened, expiry, strayed>>
  BY <1>13 DEF Handling
<1>14. CommitOnObject \/ PurgeObject \/ UNCHANGED directVars
         => UNCHANGED <<receipt, open, call, opened, expiry, strayed>>
  BY DEF CommitOnObject, PurgeObject, directVars, store, client, directHistory
<1> QED
  BY <1>1, <1>2, <1>3, <1>4, <1>5, <1>6, <1>7, <1>8, <1>9, <1>10, <1>11, <1>12, <1>13, <1>14
     DEF DirectNext, ClientStep, HandlerStep, ExpiryStep
------------------------------------------------------------------------------
LEMMA InvParts ==
  DirectInv <=> /\ ServerTypes /\ ClientTypes /\ OneInHand /\ PartInHand /\ OpenedSound
                /\ StoredInv /\ OrphanInv
  BY TypeParts DEF DirectInv, StoredInv, OrphanInv

LEMMA InitDirectInv == DirectInit => DirectInv
<1> SUFFICES ASSUME DirectInit PROVE DirectInv
  OBVIOUS
<1> USE ReceiptFacts, DirectAssumption DEF DirectInit
<1>1. ServerTypes
  BY DEF ServerTypes
<1>2. ClientTypes
  BY DEF ClientTypes, Places
<1>3. Handling = {}
  BY DEF Handling
<1>4. OneInHand /\ PartInHand /\ OpenedSound
  BY <1>3 DEF OneInHand, PartInHand, OpenedSound
<1>5. StoredInv
  BY DEF StoredInv, FinishedIsVerified, CommittedIsStored, AnswerIsStored, StaleIsPurged
<1>6. OrphanInv
  BY <1>3 DEF OrphanInv, ClosedUploads, NoOrphanUpload, Idle
<1> QED
  BY <1>1, <1>2, <1>4, <1>5, <1>6, InvParts

LEMMA NextDirectInv ==
  ASSUME DirectInv, [DirectNext]_directVars
  PROVE  DirectInv'
<1>1. /\ ServerTypes /\ ClientTypes /\ OneInHand /\ PartInHand /\ OpenedSound
      /\ StoredInv /\ OrphanInv
  BY InvParts
<1>2. ServerTypes' /\ ClientTypes' /\ PartInHand'
  BY <1>1, NextServerTypes, NextClientTypes, NextPartInHand
<1>3. OneInHand' /\ OpenedSound'
  BY <1>1, NextOneInHand
<1>4. StoredInv' /\ OrphanInv'
  BY <1>1, NextStoredInv, NextOrphanInv
<1> QED
  BY <1>2, <1>3, <1>4, InvParts, PTL

LEMMA InvGives ==
  DirectInv => DirectSound
  BY DEF DirectInv, DirectSound, AnswerIsStored, AnsweredIsStored

\* An S3 session keeps its types; a version that was committed on the object and a
\* producer that was answered have it; no multipart upload is forgotten: for any
\* number of producers, parts and uploads, and any faults.
THEOREM DirectUploadSound ==
  DirectSpec => [](DirectTypeOK /\ CommittedIsStored /\ NoOrphanUpload /\ AnsweredIsStored)
<1>1. DirectInit => DirectInv
  BY InitDirectInv
<1>2. DirectInv /\ [DirectNext]_directVars => DirectInv'
  BY NextDirectInv
<1>3. DirectInv => DirectTypeOK /\ CommittedIsStored /\ NoOrphanUpload /\ AnsweredIsStored
  BY InvGives DEF DirectSound
<1> QED
  BY <1>1, <1>2, <1>3, PTL DEF DirectSpec

LEMMA RestsDirectInv ==
  ASSUME 1 \in Uploads, DirectRests
  PROVE  DirectInv
<1> USE ReceiptFacts, DirectAssumption DEF DirectRests
<1>1. ServerTypes
  BY DEF ServerTypes, Receipts
<1>2. ClientTypes
  BY DEF ClientTypes, Places
<1>3. Handling = {}
  BY DEF Handling
<1>4. OneInHand /\ PartInHand /\ OpenedSound
  BY <1>3 DEF OneInHand, PartInHand, OpenedSound
<1>5. StoredInv
  BY DEF StoredInv, FinishedIsVerified, CommittedIsStored, AnswerIsStored, StaleIsPurged
<1>6. OrphanInv
  BY <1>3 DEF OrphanInv, ClosedUploads, NoOrphanUpload, Idle
<1> QED
  BY <1>1, <1>2, <1>4, <1>5, <1>6, InvParts

\* The same of the composition: there a session of the other kind may be under way, and
\* this one rests completed under the identity 1.
THEOREM DirectSoundBeside ==
  ASSUME 1 \in Uploads
  PROVE  MCSpec => []DirectSound
<1>1. MCInit => DirectInv
  BY InitDirectInv, RestsDirectInv DEF MCInit
<1>2. [MCNext]_mcVars => [DirectNext]_directVars
  BY DEF MCNext, Step, Directs, mcVars
<1>3. DirectInv /\ [MCNext]_mcVars => DirectInv'
  BY <1>2, NextDirectInv
<1>4. DirectInv => DirectSound
  BY InvGives
<1> QED
  BY <1>1, <1>3, <1>4, PTL DEF MCSpec
=============================================================================
