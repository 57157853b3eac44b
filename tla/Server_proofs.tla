---------------------------- MODULE Server_proofs ----------------------------
(***************************************************************************)
(* The models of a server for all constants.                               *)
(*                                                                         *)
(* WriteQueue, for any number of writes, threads, retries and faults: its  *)
(* types, the uniqueness of the flush thread, and that the thread pops the *)
(* entry it wrote.  LogsCache, for any number of readers and queries: what *)
(* the caches answer.  HubMirror, for any sheets and rows: that what the   *)
(* mirror takes for current is, and that the dataset loses nothing.        *)
(* ProjectRuns, for any runs, records, projects and managers: that rows    *)
(* and media survive renaming, moving, repeated deliveries and crashes.    *)
(* At the end, the four side by side, as MCServer puts them.               *)
(***************************************************************************)
EXTENDS MCServer, SequenceTheorems, FiniteSetTheorems, TLAPS

\* The types, by the variables that the actions write together.
RequestsTyped ==
  /\ request \in [Writes -> {"new", "appending", "ensuring", "acked", "raised"}]
  /\ stored \subseteq Storable /\ rejected \subseteq Refused
  /\ given \subseteq Writes /\ swept \subseteq Writes /\ tailgated \subseteq Writes
  /\ faults \in 0..MaxFaults

ThreadsTyped ==
  /\ queue \in Seq(Writes)
  /\ current \in Flushers \cup {NoThread}
  /\ pc \in [Flushers -> {"none", "looping", "writing", "popping", "leaving",
                         "clearing", "exiting"}]
  /\ head \in [Flushers -> SUBSET Writes]
  /\ retries \in [Flushers -> 0..MaxRetries]

LEMMA TypesSplit == TypeOK <=> RequestsTyped /\ ThreadsTyped
  BY DEF TypeOK, RequestsTyped, ThreadsTyped

\* While a thread is between its reading of the head and its popleft, the entry is
\* still there: others append at the tail only.  A thread that writes has a retry left.
HeadHeld ==
  \A f \in Flushers :
    /\ pc[f] \in {"writing", "popping"} => queue # << >> /\ head[f] = {Head(queue)}
    /\ pc[f] = "writing" => retries[f] < MaxRetries

\* Sequences: what append and popleft do to the head and the entries.
LEMMA AppendFacts ==
  ASSUME NEW S, NEW s \in Seq(S), NEW x \in S
  PROVE  /\ Append(s, x) \in Seq(S)
         /\ Append(s, x) # << >>
         /\ s # << >> => Head(Append(s, x)) = Head(s)
  OBVIOUS

LEMMA HeadTailFacts ==
  ASSUME NEW S, NEW s \in Seq(S), s # << >>
  PROVE  Head(s) \in S /\ Tail(s) \in Seq(S)
  OBVIOUS

LEMMA EntriesTyped ==
  ASSUME NEW S, NEW s \in Seq(S)
  PROVE  Entries(s) \subseteq S
  BY DEF Entries
------------------------------------------------------------------------------
LEMMA InitInv == Init => RequestsTyped /\ ThreadsTyped /\ HeadHeld /\ SingleFlusher
  BY WriteQueueAssumption
  DEF Init, RequestsTyped, ThreadsTyped, HeadHeld, SingleFlusher, AliveThreads,
      WriteQueueAssumption

\* Types are kept by every step of a request and of a thread.
LEMMA NextTyped ==
  ASSUME RequestsTyped, ThreadsTyped, HeadHeld, [Next]_vars
  PROVE  RequestsTyped' /\ ThreadsTyped'
<1> USE WriteQueueAssumption DEF WriteQueueAssumption, RequestsTyped, ThreadsTyped,
        flush, history
<1>1. ASSUME NEW w \in Writes, RequestStep(w)
      PROVE  RequestsTyped' /\ ThreadsTyped'
  <2>1. CASE WriteDirectly(w)
    BY <2>1 DEF WriteDirectly
  <2>2. CASE WriteRaises(w)
    BY <2>2 DEF WriteRaises
  <2>3. CASE WriteFails(w)
    BY <2>3 DEF WriteFails
  <2>4. CASE EnqueueWrite(w)
    BY <2>4, AppendFacts DEF EnqueueWrite
  <2>5. CASE EnsureFlushThread(w)
    <3>1. /\ request' = [request EXCEPT ![w] = "acked"]
          /\ UNCHANGED <<queue, head, stored, history, faults>>
      BY <2>5 DEF EnsureFlushThread
    <3>2. CASE UNCHANGED <<current, pc, retries>>
      BY <3>1, <3>2
    <3>3. ASSUME NEW f \in Flushers, Start(f) PROVE RequestsTyped' /\ ThreadsTyped'
      <4>1. /\ current' = f /\ pc' = [pc EXCEPT ![f] = "looping"]
            /\ retries' = [retries EXCEPT ![f] = 0]
        BY <3>3 DEF Start
      <4> QED
        BY <3>1, <4>1
    <3> QED
      BY <2>5, <3>2, <3>3 DEF EnsureFlushThread
  <2> QED
    BY <1>1, <2>1, <2>2, <2>3, <2>4, <2>5 DEF RequestStep
<1>2. ASSUME NEW f \in Flushers, FlusherStep(f)
      PROVE  RequestsTyped' /\ ThreadsTyped'
  <2>1. CASE FlushLoop(f)
    <3>1. CASE queue # << >> /\ retries[f] < MaxRetries
      <4>1. {Head(queue)} \in SUBSET Writes
        BY <3>1, HeadTailFacts
      <4>2. /\ head' = [head EXCEPT ![f] = {Head(queue)}]
            /\ pc' = [pc EXCEPT ![f] = "writing"]
            /\ UNCHANGED <<request, queue, current, retries, stored, history, faults>>
        BY <2>1, <3>1 DEF FlushLoop
      <4>3. head' \in [Flushers -> SUBSET Writes]
        BY <4>1, <4>2
      <4> QED
        BY <4>2, <4>3
    <3>2. CASE ~(queue # << >> /\ retries[f] < MaxRetries)
      BY <2>1, <3>2 DEF FlushLoop
    <3> QED
      BY <3>1, <3>2
  <2>2. CASE FlushWrites(f)
    BY <2>2 DEF FlushWrites
  <2>3. CASE FlushFails(f)
    <3>1. retries[f] + 1 \in 0..MaxRetries /\ faults + 1 \in 0..MaxFaults
      BY <2>3 DEF FlushFails, HeadHeld
    <3> QED
      BY <2>3, <3>1 DEF FlushFails
  <2>4. CASE FlushRefused(f)
    BY <2>4 DEF FlushRefused
  <2>5. CASE FlushDies(f)
    BY <2>5 DEF FlushDies
  <2>6. CASE PopLeft(f)
    BY <2>6, HeadTailFacts DEF PopLeft, HeadHeld
  <2>7. CASE LeaveLoop(f)
    BY <2>7 DEF LeaveLoop
  <2>8. CASE ClearQueue(f)
    BY <2>8, EntriesTyped DEF ClearQueue
  <2>9. CASE FlusherEnds(f)
    BY <2>9 DEF FlusherEnds
  <2> QED
    BY <1>2, <2>1, <2>2, <2>3, <2>4, <2>5, <2>6, <2>7, <2>8, <2>9 DEF FlusherStep
<1>3. CASE UNCHANGED vars
  BY <1>3 DEF vars
<1> QED
  BY <1>1, <1>2, <1>3 DEF Next

\* A thread starts only when the one _flush_thread refers to has ended.
LEMMA NextSingleFlusher ==
  ASSUME ThreadsTyped, SingleFlusher, [Next]_vars
  PROVE  SingleFlusher'
<1> USE DEF ThreadsTyped, SingleFlusher, AliveThreads, flush
<1>1. ASSUME NEW w \in Writes, RequestStep(w)
      PROVE  SingleFlusher'
  BY <1>1 DEF RequestStep, WriteDirectly, WriteRaises, WriteFails, EnqueueWrite,
              EnsureFlushThread, Start
<1>2. ASSUME NEW f \in Flushers, FlusherStep(f)
      PROVE  SingleFlusher'
  <2>1. pc[f] # "none" /\ UNCHANGED current
    BY <1>2 DEF FlusherStep, FlushLoop, FlushWrites, FlushFails, FlushRefused, FlushDies,
                PopLeft, LeaveLoop, ClearQueue, FlusherEnds
  <2>2. \A g \in Flushers : g # f => pc'[g] = pc[g]
    BY <1>2 DEF FlusherStep, FlushLoop, FlushWrites, FlushFails, FlushRefused, FlushDies,
                PopLeft, LeaveLoop, ClearQueue, FlusherEnds
  <2> QED
    BY <2>1, <2>2
<1>3. CASE UNCHANGED vars
  BY <1>3 DEF vars
<1> QED
  BY <1>1, <1>2, <1>3 DEF Next

\* Requests append at the tail, and the only thread that removes entries is the one
\* that holds the head.
LEMMA NextHeadHeld ==
  ASSUME ThreadsTyped, SingleFlusher, HeadHeld, [Next]_vars
  PROVE  HeadHeld'
<1> USE DEF ThreadsTyped, HeadHeld, flush
<1>1. ASSUME NEW w \in Writes, RequestStep(w)
      PROVE  HeadHeld'
  <2>1. CASE EnqueueWrite(w)
    BY <2>1, AppendFacts DEF EnqueueWrite
  <2>2. CASE EnsureFlushThread(w)
    BY <2>2 DEF EnsureFlushThread, Start
  <2>3. CASE WriteDirectly(w) \/ WriteRaises(w) \/ WriteFails(w)
    BY <2>3 DEF WriteDirectly, WriteRaises, WriteFails
  <2> QED
    BY <1>1, <2>1, <2>2, <2>3 DEF RequestStep
<1>2. ASSUME NEW f \in Flushers, FlusherStep(f)
      PROVE  HeadHeld'
  <2>1. \A g \in Flushers : g # f => pc[g] = "none"
    BY <1>2 DEF SingleFlusher, AliveThreads, FlusherStep, FlushLoop, FlushWrites,
                FlushFails, FlushRefused, FlushDies, PopLeft, LeaveLoop, ClearQueue,
                FlusherEnds
  <2>2. CASE FlushLoop(f)
    BY <2>1, <2>2 DEF FlushLoop
  <2>3. CASE FlushWrites(f) \/ FlushRefused(f)
    BY <2>1, <2>3 DEF FlushWrites, FlushRefused
  <2>4. CASE FlushFails(f) \/ FlushDies(f)
    BY <2>1, <2>4 DEF FlushFails, FlushDies
  <2>5. CASE PopLeft(f)
    BY <2>1, <2>5 DEF PopLeft
  <2>6. CASE LeaveLoop(f) \/ ClearQueue(f) \/ FlusherEnds(f)
    BY <2>1, <2>6 DEF LeaveLoop, ClearQueue, FlusherEnds
  <2> QED
    BY <1>2, <2>2, <2>3, <2>4, <2>5, <2>6 DEF FlusherStep
<1>3. CASE UNCHANGED vars
  BY <1>3 DEF vars
<1> QED
  BY <1>1, <1>2, <1>3 DEF Next

\* The three facts are inductive together: popleft keeps the types only because the
\* queue is not empty then, and the head is held only because one thread is alive.
LEMMA Invariance == Spec => [](RequestsTyped /\ ThreadsTyped /\ HeadHeld /\ SingleFlusher)
<1>1. RequestsTyped /\ ThreadsTyped /\ HeadHeld /\ SingleFlusher /\ [Next]_vars
        => (RequestsTyped /\ ThreadsTyped /\ HeadHeld /\ SingleFlusher)'
  BY NextTyped, NextSingleFlusher, NextHeadHeld
<1> QED
  BY InitInv, <1>1, PTL DEF Spec

\* The variables of the server module keep their types; retries never exceeds
\* _MAX_RETRIES.
THEOREM WriteQueueTyped == Spec => []TypeOK
  BY Invariance, TypesSplit, PTL

\* _ensure_flush_thread under _flush_lock never lets two flush threads live.
THEOREM OneFlusher == Spec => []SingleFlusher
  BY Invariance, PTL

\* _flush_loop's popleft removes exactly the entry its storage call was made for.
THEOREM NoBlindPop == Spec => []PopsWhatItWrote
<1>1. HeadHeld => PopsWhatItWrote
  BY DEF HeadHeld, PopsWhatItWrote
<1> QED
  BY Invariance, <1>1, PTL
------------------------------------------------------------------------------
\* What the deque holds after an append and after a popleft.
LEMMA EntriesAppend ==
  ASSUME NEW S, NEW s \in Seq(S), NEW x \in S
  PROVE  Entries(Append(s, x)) = Entries(s) \cup {x}
<1>1. Len(Append(s, x)) = Len(s) + 1 /\ Append(s, x)[Len(s) + 1] = x
  OBVIOUS
<1>2. \A i \in 1..Len(s) : Append(s, x)[i] = s[i]
  OBVIOUS
<1>3. 1..(Len(s) + 1) = 1..Len(s) \cup {Len(s) + 1}
  OBVIOUS
<1> QED
  BY <1>1, <1>2, <1>3 DEF Entries

LEMMA EntriesTail ==
  ASSUME NEW S, NEW s \in Seq(S), s # << >>
  PROVE  Entries(s) = {Head(s)} \cup Entries(Tail(s))
<1>1. Len(Tail(s)) = Len(s) - 1 /\ Len(s) \in Nat \ {0}
  OBVIOUS
<1>2. \A i \in 1..(Len(s) - 1) : Tail(s)[i] = s[i + 1]
  OBVIOUS
<1>3. Head(s) = s[1]
  OBVIOUS
<1>4. \A j \in 1..Len(s) : j = 1 \/ (j - 1 \in 1..(Len(s) - 1) /\ s[j] = Tail(s)[j - 1])
  BY <1>1, <1>2
<1>5. \A i \in 1..(Len(s) - 1) : i + 1 \in 1..Len(s) /\ 1 \in 1..Len(s)
  BY <1>1
<1>6. ASSUME NEW x \in Entries(s)
      PROVE  x \in {Head(s)} \cup Entries(Tail(s))
  <2>1. PICK j \in 1..Len(s) : x = s[j]
    BY <1>6 DEF Entries
  <2>2. CASE j = 1
    BY <2>1, <2>2, <1>3
  <2>3. CASE j - 1 \in 1..(Len(s) - 1) /\ s[j] = Tail(s)[j - 1]
    BY <2>1, <2>3, <1>1 DEF Entries
  <2> QED
    BY <2>2, <2>3, <1>4
<1>7. Head(s) \in Entries(s)
  BY <1>1, <1>3 DEF Entries
<1>8. ASSUME NEW x \in Entries(Tail(s))
      PROVE  x \in Entries(s)
  <2>1. PICK i \in 1..(Len(s) - 1) : x = Tail(s)[i]
    BY <1>8, <1>1 DEF Entries
  <2> QED
    BY <2>1, <1>2, <1>5 DEF Entries
<1> QED
  BY <1>6, <1>7, <1>8

\* The strengthening of AckedUnlessTailgated: it holds from the append on; what is
\* about to be popped has been written or refused; and a thread that leaves its loop
\* with retries left, hence on an empty queue, finds only tailgated writes.
Enqueued(w) == request[w] \in {"ensuring", "acked"}
Accounted   == \A w \in Writes \ tailgated :
                 Enqueued(w) => w \in stored \cup Entries(queue) \cup rejected \cup given
PoppedDone  == \A f \in Flushers : pc[f] = "popping" => head[f] \subseteq stored \cup rejected
SweptRaced  == \A f \in Flushers :
                 pc[f] \in {"leaving", "clearing"} /\ retries[f] # MaxRetries
                   => Entries(queue) \subseteq tailgated

LEMMA NextAccounted ==
  ASSUME RequestsTyped, ThreadsTyped, SingleFlusher, HeadHeld,
         Accounted, PoppedDone, SweptRaced, [Next]_vars
  PROVE  Accounted' /\ PoppedDone' /\ SweptRaced'
<1> USE DEF RequestsTyped, ThreadsTyped, Accounted, PoppedDone, SweptRaced, Enqueued,
            flush, history
<1>1. ASSUME NEW w \in Writes, RequestStep(w)
      PROVE  Accounted' /\ PoppedDone' /\ SweptRaced'
  <2>1. CASE EnqueueWrite(w)
    <3>1. Entries(queue') = Entries(queue) \cup {w}
      BY <2>1, EntriesAppend DEF EnqueueWrite
    <3>2. UNCHANGED <<current, pc, head, retries, stored, rejected, given>>
      BY <2>1 DEF EnqueueWrite
    <3>3. tailgated \subseteq tailgated'
      BY <2>1 DEF EnqueueWrite
    <3>4. Accounted'
      BY <2>1, <3>1, <3>2, <3>3 DEF EnqueueWrite
    <3>5. PoppedDone'
      BY <3>2
    <3>6. SweptRaced'
      BY <2>1, <3>1, <3>2, <3>3 DEF EnqueueWrite
    <3> QED
      BY <3>4, <3>5, <3>6
  <2>2. CASE EnsureFlushThread(w)
    BY <2>2 DEF EnsureFlushThread, Start
  <2>3. CASE WriteDirectly(w) \/ WriteRaises(w) \/ WriteFails(w)
    BY <2>3 DEF WriteDirectly, WriteRaises, WriteFails
  <2> QED
    BY <1>1, <2>1, <2>2, <2>3 DEF RequestStep
<1>2. ASSUME NEW f \in Flushers, FlusherStep(f)
      PROVE  Accounted' /\ PoppedDone' /\ SweptRaced'
  <2>1. \A g \in Flushers : g # f => pc[g] = "none"
    BY <1>2 DEF SingleFlusher, AliveThreads, FlusherStep, FlushLoop, FlushWrites,
                FlushFails, FlushRefused, FlushDies, PopLeft, LeaveLoop, ClearQueue,
                FlusherEnds
  <2>2. CASE FlushLoop(f)
    <3>1. UNCHANGED <<request, queue, retries, stored, history>>
      BY <2>2 DEF FlushLoop
    <3>2. pc'[f] = "leaving" /\ retries[f] # MaxRetries => Entries(queue) = {}
      <4>1. ASSUME pc'[f] = "leaving", retries[f] # MaxRetries
            PROVE  queue = << >>
        <5>1. retries[f] < MaxRetries
          BY <4>1, WriteQueueAssumption DEF WriteQueueAssumption
        <5>2. queue # << >> /\ retries[f] < MaxRetries => pc' = [pc EXCEPT ![f] = "writing"]
          BY <2>2 DEF FlushLoop
        <5> QED
          BY <4>1, <5>1, <5>2
      <4>2. Len(<< >>) = 0 /\ 1..0 = {}
        OBVIOUS
      <4> QED
        BY <4>1, <4>2 DEF Entries
    <3>3. pc'[f] # "popping" /\ pc'[f] # "clearing"
          /\ \A g \in Flushers : g # f => pc'[g] = pc[g]
      BY <2>2 DEF FlushLoop
    <3> QED
      BY <2>1, <3>1, <3>2, <3>3
  <2>3. CASE FlushWrites(f) \/ FlushRefused(f)
    BY <2>1, <2>3 DEF FlushWrites, FlushRefused
  <2>4. CASE FlushFails(f) \/ FlushDies(f)
    BY <2>1, <2>4 DEF FlushFails, FlushDies
  <2>5. CASE PopLeft(f)
    <3>1. Entries(queue) = head[f] \cup Entries(queue')
      BY <2>5, EntriesTail DEF PopLeft, HeadHeld
    <3>2. head[f] \subseteq stored \cup rejected
      BY <2>5 DEF PopLeft
    <3> QED
      BY <2>1, <2>5, <3>1, <3>2 DEF PopLeft
  <2>6. CASE LeaveLoop(f) \/ FlusherEnds(f)
    BY <2>1, <2>6 DEF LeaveLoop, FlusherEnds
  <2>7. CASE ClearQueue(f)
    <3>1. Entries(queue) \subseteq given' \cup tailgated
      BY <2>7 DEF ClearQueue
    <3>2. given \subseteq given'
      BY <2>7 DEF ClearQueue
    <3>3. pc' = [pc EXCEPT ![f] = "exiting"]
          /\ UNCHANGED <<request, head, retries, stored, rejected, tailgated>>
      BY <2>7 DEF ClearQueue
    <3> QED
      BY <2>1, <3>1, <3>2, <3>3
  <2> QED
    BY <1>2, <2>2, <2>3, <2>4, <2>5, <2>6, <2>7 DEF FlusherStep
<1>3. CASE UNCHANGED vars
  BY <1>3 DEF vars
<1> QED
  BY <1>1, <1>2, <1>3 DEF Next

\* The server acknowledges a queued write before it is stored; such a write is lost
\* only through a refusal, MaxRetries failures, or the race at the end of the loop.
THEOREM AckedAccounted == Spec => []AckedUnlessTailgated
<1>1. Init => Accounted /\ PoppedDone /\ SweptRaced
  BY DEF Init, Accounted, PoppedDone, SweptRaced, Enqueued
<1>2. /\ RequestsTyped /\ ThreadsTyped /\ HeadHeld /\ SingleFlusher
      /\ Accounted /\ PoppedDone /\ SweptRaced
      /\ [Next]_vars
      => (Accounted /\ PoppedDone /\ SweptRaced)'
  BY NextAccounted
<1>3. Accounted => AckedUnlessTailgated
  BY DEF Accounted, Enqueued, AckedUnlessTailgated
<1> QED
  BY Invariance, <1>1, <1>2, <1>3, PTL DEF Spec
------------------------------------------------------------------------------
\* A thread past its last look at the queue finds only what was appended since.
ExitRaced == \A f \in Flushers : pc[f] = "exiting" => Entries(queue) \subseteq tailgated

LEMMA NextStalled ==
  ASSUME RequestsTyped, ThreadsTyped, SingleFlusher, HeadHeld,
         ExitRaced, StalledOnlyByRace, [Next]_vars
  PROVE  ExitRaced' /\ StalledOnlyByRace'
<1> USE DEF RequestsTyped, ThreadsTyped, ExitRaced, flush, history
<1>1. ASSUME NEW w \in Writes, RequestStep(w)
      PROVE  ExitRaced' /\ StalledOnlyByRace'
  <2>1. CASE EnqueueWrite(w)
    <3>1. Entries(queue') = Entries(queue) \cup {w}
      BY <2>1, EntriesAppend DEF EnqueueWrite
    <3>2. request'[w] = "ensuring" /\ UNCHANGED pc
      BY <2>1 DEF EnqueueWrite
    <3>3. ExitRaced'
      BY <2>1, <3>1, <3>2 DEF EnqueueWrite
    <3>4. StalledOnlyByRace'
      BY <3>2 DEF StalledOnlyByRace
    <3> QED
      BY <3>3, <3>4
  <2>2. CASE EnsureFlushThread(w)
    <3>1. AliveThreads' # {}
      BY <2>2 DEF EnsureFlushThread, Start, AliveThreads
    <3>2. ExitRaced'
      BY <2>2 DEF EnsureFlushThread, Start
    <3> QED
      BY <3>1, <3>2 DEF StalledOnlyByRace
  <2>3. CASE WriteDirectly(w) \/ WriteRaises(w) \/ WriteFails(w)
    <3>1. /\ UNCHANGED <<queue, pc, tailgated>>
          /\ \A x \in Writes : request[x] = "ensuring" => request'[x] = "ensuring"
      BY <2>3 DEF WriteDirectly, WriteRaises, WriteFails
    <3> QED
      BY <3>1 DEF StalledOnlyByRace, AliveThreads, Entries
  <2> QED
    BY <1>1, <2>1, <2>2, <2>3 DEF RequestStep
<1>2. ASSUME NEW f \in Flushers, FlusherStep(f)
      PROVE  ExitRaced' /\ StalledOnlyByRace'
  <2>1. /\ \A g \in Flushers : g # f => pc'[g] = "none"
        /\ UNCHANGED <<request, tailgated>>
    BY <1>2 DEF SingleFlusher, AliveThreads, FlusherStep, FlushLoop, FlushWrites,
                FlushFails, FlushRefused, FlushDies, PopLeft, LeaveLoop, ClearQueue,
                FlusherEnds
  <2>2. ASSUME pc'[f] \notin {"none", "exiting"}
        PROVE  ExitRaced' /\ StalledOnlyByRace'
    BY <2>1, <2>2 DEF StalledOnlyByRace, AliveThreads
  <2>3. ASSUME pc'[f] = "exiting", Entries(queue') = {}
        PROVE  ExitRaced' /\ StalledOnlyByRace'
    BY <2>1, <2>3 DEF StalledOnlyByRace, AliveThreads
  <2>4. Entries(<< >>) = {}
    BY DEF Entries
  <2>5. CASE LeaveLoop(f)
    <3>1. \/ pc'[f] = "clearing"
          \/ pc'[f] = "exiting" /\ queue' = << >>
      BY <2>5 DEF LeaveLoop
    <3> QED
      BY <2>2, <2>3, <2>4, <3>1
  <2>6. CASE ClearQueue(f)
    BY <2>3, <2>4, <2>6 DEF ClearQueue
  <2>7. CASE FlusherEnds(f)
    <3>1. Entries(queue) \subseteq tailgated /\ UNCHANGED queue /\ pc'[f] = "none"
      BY <2>7 DEF FlusherEnds
    <3>2. queue # << >> => Head(queue) \in Entries(queue)
      BY EntriesTail
    <3>3. StalledOnlyByRace'
      BY <2>1, <3>1, <3>2 DEF StalledOnlyByRace, Entries
    <3> QED
      BY <2>1, <3>1, <3>3
  <2>8. CASE FlushDies(f)
    <3>1. /\ queue # << >> /\ Head(queue) \in Fatal
          /\ UNCHANGED queue /\ pc'[f] = "none"
      BY <2>8 DEF FlushDies, HeadHeld
    <3>2. Head(queue) \in Entries(queue)
      BY <3>1, EntriesTail
    <3>3. StalledOnlyByRace'
      BY <3>1, <3>2 DEF StalledOnlyByRace, Entries
    <3> QED
      BY <2>1, <3>1, <3>3
  <2>9. CASE FlushLoop(f) \/ FlushWrites(f) \/ FlushFails(f) \/ FlushRefused(f) \/ PopLeft(f)
    <3>1. pc'[f] \notin {"none", "exiting"}
      BY <2>9 DEF FlushLoop, FlushWrites, FlushFails, FlushRefused, PopLeft
    <3> QED
      BY <2>2, <3>1
  <2> QED
    BY <1>2, <2>5, <2>6, <2>7, <2>8, <2>9 DEF FlusherStep
<1>3. CASE UNCHANGED vars
  BY <1>3 DEF vars, StalledOnlyByRace, AliveThreads, Entries
<1> QED
  BY <1>1, <1>2, <1>3 DEF Next

\* _ensure_flush_thread after every append: a queue that no thread serves and no request
\* is about to serve holds a write that killed a thread or one appended beside its end.
THEOREM StallsExplained == Spec => []StalledOnlyByRace
<1>1. Init => ExitRaced /\ StalledOnlyByRace
  BY DEF Init, ExitRaced, StalledOnlyByRace
<1>2. /\ RequestsTyped /\ ThreadsTyped /\ HeadHeld /\ SingleFlusher
      /\ ExitRaced /\ StalledOnlyByRace /\ [Next]_vars
      => (ExitRaced /\ StalledOnlyByRace)'
  BY NextStalled
<1> QED
  BY Invariance, <1>1, <1>2, PTL DEF Spec

----------------------------------------------------------------------------
(***************************************************************************)
(* The caches of logs.                                                     *)
(***************************************************************************)

Requests ==
  [at : {"none"}] \cup [at : {"reading"}, query : Queries, since : Nat]
  \cup [at : {"putting"}, query : Queries, rows : Nat, since : Nat]
  \cup [at : {"answered"}, rows : Nat, since : Nat, raced : BOOLEAN]

CacheEntries == [query : Queries \ Bulky, mtime : Nat, rows : Nat]

CacheTyped == /\ commits \in Nat /\ mtime \in Nat
              /\ cached \in Seq(CacheEntries) /\ reader \in [Readers -> Requests]

\* A bounded dictionary.
Dictionary(entries) ==
  /\ Len(entries) <= MaxCached
  /\ \A i, j \in 1 .. Len(entries) : entries[i].query = entries[j].query => i = j

\* Unless it was raced, an entry that is believed shows what there is.
EntryFits(entry) ==
  /\ entry.mtime <= mtime /\ entry.rows <= commits
  /\ entry.mtime = mtime => entry.rows = commits \/ entry \in raced

ReaderFits(x) ==
  /\ reader[x].at \in {"reading", "putting"} => reader[x].since <= commits
  /\ reader[x].at = "putting" => /\ reader[x].since <= reader[x].rows
                                 /\ reader[x].rows <= commits
  /\ reader[x].at = "answered" => reader[x].rows >= reader[x].since \/ reader[x].raced

CacheInv == /\ CacheTyped /\ Dictionary(cached)
            /\ \A i \in 1 .. Len(cached) : EntryFits(cached[i])
            /\ \A x \in Readers : ReaderFits(x)

\* The entries by their places.
LEMMA CachedRange ==
  ASSUME NEW S, NEW s \in Seq(S)
  PROVE  Range(s) = {s[i] : i \in 1 .. Len(s)} /\ DOMAIN s = 1 .. Len(s) /\ Len(s) \in Nat
BY RangeEquality, LenProperties

\* Without one of its places, a dictionary is one of the same entries.
LEMMA Removed ==
  ASSUME NEW s \in Seq(CacheEntries), NEW k \in 1 .. Len(s), Dictionary(s), MaxCached \in Nat
  PROVE  /\ RemoveAt(s, k) \in Seq(CacheEntries) /\ Dictionary(RemoveAt(s, k))
         /\ \A i \in 1 .. Len(RemoveAt(s, k)) : \E j \in 1 .. Len(s) : RemoveAt(s, k)[i] = s[j]
<1> DEFINE a == SubSeq(s, 1, k - 1)
           b == SubSeq(s, k + 1, Len(s))
           r == a \o b
<1>0. Len(s) \in Nat /\ k \in Nat
  BY LenProperties
<1>1. /\ a \in Seq(CacheEntries) /\ Len(a) = k - 1
      /\ \A i \in 1 .. k - 1 : a[i] = s[i]
  <2>1. \A i \in 1 .. k - 1 : s[i] \in CacheEntries
    BY <1>0, ElementOfSeq
  <2>2. \A i \in 1 .. (k - 1) - 1 + 1 : a[i] = s[1 + i - 1]
    BY <1>0, <2>1, SubSeqProperties
  <2> QED
    BY <1>0, <2>1, <2>2, SubSeqProperties
<1>2. /\ b \in Seq(CacheEntries) /\ Len(b) = Len(s) - k
      /\ \A i \in 1 .. Len(s) - k : b[i] = s[k + i]
  <2>1. \A i \in k + 1 .. Len(s) : s[i] \in CacheEntries
    BY <1>0, ElementOfSeq
  <2>2. \A i \in 1 .. Len(s) - (k + 1) + 1 : b[i] = s[(k + 1) + i - 1]
    BY <1>0, <2>1, SubSeqProperties
  <2>3. \A i \in 1 .. Len(s) - k : b[i] = s[k + i]
    BY <1>0, <2>2
  <2> QED
    BY <1>0, <2>1, <2>3, SubSeqProperties
<1>3. /\ r \in Seq(CacheEntries) /\ Len(r) = Len(s) - 1
      /\ \A i \in 1 .. Len(s) - 1 : r[i] = IF i <= k - 1 THEN s[i] ELSE s[i + 1]
  <2> HIDE DEF a, b
  <2>1. /\ r \in Seq(CacheEntries) /\ Len(r) = Len(a) + Len(b)
        /\ \A i \in 1 .. Len(a) + Len(b) : r[i] = IF i <= Len(a) THEN a[i] ELSE b[i - Len(a)]
    BY <1>1, <1>2, ConcatProperties
  <2>2. Len(r) = Len(s) - 1 /\ Len(a) = k - 1 /\ Len(b) = Len(s) - k
    BY <1>0, <1>1, <1>2, <2>1
  <2>3. ASSUME NEW i \in 1 .. Len(s) - 1
        PROVE  r[i] = IF i <= k - 1 THEN s[i] ELSE s[i + 1]
    <3>1. CASE i <= k - 1
      BY <1>0, <1>1, <2>1, <2>2, <3>1
    <3>2. CASE ~(i <= k - 1)
      <4>1. i - (k - 1) \in 1 .. Len(s) - k /\ k + (i - (k - 1)) = i + 1
        BY <1>0, <3>2
      <4>2. r[i] = b[i - (k - 1)]
        BY <1>0, <2>1, <2>2, <3>2
      <4> QED
        BY <1>2, <3>2, <4>1, <4>2
    <3> QED
      BY <3>1, <3>2
  <2> QED
    BY <2>1, <2>2, <2>3
<1>4. RemoveAt(s, k) = r
  BY DEF RemoveAt
<1> HIDE DEF r
<1>5. Dictionary(r)
  <2>1. Len(r) <= MaxCached
    BY <1>0, <1>3 DEF Dictionary
  <2>2. ASSUME NEW i \in 1 .. Len(r), NEW j \in 1 .. Len(r), r[i].query = r[j].query
        PROVE  i = j
    <3> DEFINE At(n) == IF n <= k - 1 THEN n ELSE n + 1
    <3>1. \A n \in 1 .. Len(r) : At(n) \in 1 .. Len(s) /\ r[n] = s[At(n)]
      BY <1>0, <1>3
    <3>2. At(i) = At(j)
      <4> HIDE DEF At
      <4> QED
        BY <2>2, <3>1 DEF Dictionary
    <3> QED
      BY <1>0, <1>3, <3>2
  <2> QED
    BY <2>1, <2>2 DEF Dictionary
<1>6. \A i \in 1 .. Len(r) : \E j \in 1 .. Len(s) : r[i] = s[j]
  BY <1>0, <1>3
<1> QED
  BY <1>3, <1>4, <1>5, <1>6

\* Eviction makes room.
LEMMA EvictedIs ==
  ASSUME NEW s \in Seq(CacheEntries), Dictionary(s), MaxCached \in Nat \ {0}
  PROVE  /\ Evicted(s) \in Seq(CacheEntries) /\ Dictionary(Evicted(s))
         /\ Len(Evicted(s)) < MaxCached
         /\ \A i \in 1 .. Len(Evicted(s)) : \E j \in 1 .. Len(s) : Evicted(s)[i] = s[j]
<1>0. Len(s) \in Nat
  BY LenProperties
<1>1. CASE Len(s) < MaxCached
  BY <1>0, <1>1 DEF Evicted
<1>2. CASE ~(Len(s) < MaxCached)
  <2> DEFINE m == Len(s) - MaxCached + 2
             r == SubSeq(s, m, Len(s))
  <2>0. Len(s) = MaxCached /\ m = 2
    BY <1>0, <1>2 DEF Dictionary
  <2>1. Evicted(s) = r
    BY <1>2 DEF Evicted
  <2>2. /\ r \in Seq(CacheEntries) /\ Len(r) = Len(s) - 1
        /\ \A i \in 1 .. Len(s) - 1 : r[i] = s[i + 1]
    <3>1. \A i \in 2 .. Len(s) : s[i] \in CacheEntries
      BY <1>0, ElementOfSeq
    <3>2. r = SubSeq(s, 2, Len(s))
      BY <2>0
    <3> HIDE DEF r
    <3>3. \A i \in 1 .. Len(s) - 2 + 1 : r[i] = s[2 + i - 1]
      BY <1>0, <3>1, <3>2, SubSeqProperties
    <3>4. r \in Seq(CacheEntries) /\ Len(r) = IF 2 <= Len(s) THEN Len(s) - 2 + 1 ELSE 0
      BY <1>0, <3>1, <3>2, SubSeqProperties
    <3> QED
      BY <1>0, <2>0, <3>3, <3>4
  <2> HIDE DEF r, m
  <2>3. Dictionary(r)
    <3>1. Len(r) <= MaxCached
      BY <1>0, <2>0, <2>2
    <3>2. ASSUME NEW i \in 1 .. Len(r), NEW j \in 1 .. Len(r), r[i].query = r[j].query
          PROVE  i = j
      <4>1. i \in Nat /\ j \in Nat /\ i + 1 \in 1 .. Len(s) /\ j + 1 \in 1 .. Len(s)
        BY <1>0, <2>2
      <4>2. s[i + 1].query = s[j + 1].query
        BY <1>0, <2>2, <3>2
      <4>3. i + 1 = j + 1
        BY <1>0, <4>1, <4>2 DEF Dictionary
      <4> QED
        BY <4>1, <4>3
    <3> QED
      BY <3>1, <3>2 DEF Dictionary
  <2> QED
    BY <1>0, <2>0, <2>1, <2>2, <2>3
<1> QED
  BY <1>1, <1>2

\* A put adds or replaces one entry.
LEMMA PlacedIs ==
  ASSUME NEW s \in Seq(CacheEntries), Dictionary(s), MaxCached \in Nat, Len(s) < MaxCached,
         NEW entry \in CacheEntries
  PROVE  /\ Placed(s, entry) \in Seq(CacheEntries) /\ Dictionary(Placed(s, entry))
         /\ \A i \in 1 .. Len(Placed(s, entry)) :
               Placed(s, entry)[i] = entry \/ \E j \in 1 .. Len(s) : Placed(s, entry)[i] = s[j]
<1>0. Len(s) \in Nat /\ \A i \in 1 .. Len(s) : s[i] \in CacheEntries
  BY LenProperties, ElementOfSeq
<1>1. CASE \E i \in 1 .. Len(s) : s[i].query = entry.query
  <2> DEFINE r == [i \in 1 .. Len(s) |-> IF s[i].query = entry.query THEN entry ELSE s[i]]
  <2>1. Placed(s, entry) = r
    BY <1>1 DEF Placed
  <2>2. r \in Seq(CacheEntries) /\ Len(r) = Len(s)
    BY <1>0
  <2>3. \A i \in 1 .. Len(s) : /\ r[i] = entry \/ r[i] = s[i]
                               /\ r[i].query = s[i].query
    OBVIOUS
  <2> HIDE DEF r
  <2>4. Dictionary(r)
    BY <2>2, <2>3 DEF Dictionary
  <2> QED
    BY <2>1, <2>2, <2>3, <2>4
<1>2. CASE ~(\E i \in 1 .. Len(s) : s[i].query = entry.query)
  <2> DEFINE r == Append(s, entry)
  <2>1. Placed(s, entry) = r
    BY <1>2 DEF Placed
  <2>2. /\ r \in Seq(CacheEntries) /\ Len(r) = Len(s) + 1
        /\ \A i \in 1 .. Len(s) : r[i] = s[i]
        /\ r[Len(s) + 1] = entry
    BY AppendProperties
  <2> HIDE DEF r
  <2>3. Dictionary(r)
    <3>1. Len(r) <= MaxCached
      BY <1>0, <2>2
    <3>2. ASSUME NEW i \in 1 .. Len(r), NEW j \in 1 .. Len(r), r[i].query = r[j].query
          PROVE  i = j
      BY <1>0, <1>2, <2>2, <3>2 DEF Dictionary
    <3> QED
      BY <3>1, <3>2 DEF Dictionary
  <2>4. \A i \in 1 .. Len(r) : r[i] = entry \/ \E j \in 1 .. Len(s) : r[i] = s[j]
    BY <1>0, <2>2
  <2> QED
    BY <2>1, <2>2, <2>3, <2>4
<1> QED
  BY <1>1, <1>2

LEMMA CacheInvInit == CacheInit => CacheInv
<1> SUFFICES ASSUME CacheInit PROVE CacheInv
  OBVIOUS
<1>1. cached = << >> /\ Len(cached) = 0 /\ cached \in Seq(CacheEntries)
  BY DEF CacheInit
<1>2. \A x \in Readers : reader[x] = Resigned
  BY DEF CacheInit
<1>3. CacheTyped
  BY <1>1 DEF CacheInit, CacheTyped, Requests, Resigned
<1>4. Dictionary(cached)
  BY <1>1, LogsCacheAssumption DEF Dictionary
<1>5. \A x \in Readers : ReaderFits(x)
  BY <1>2 DEF ReaderFits, Resigned
<1> QED
  BY <1>1, <1>3, <1>4, <1>5 DEF CacheInv

LEMMA CommitsKeeps ==
  ASSUME CacheInv, NEW ticks \in BOOLEAN, Commits(ticks)
  PROVE  CacheInv'
<1>0. /\ commits' = commits + 1 /\ mtime' = IF ticks THEN mtime + 1 ELSE mtime
      /\ raced' = raced \cup {entry \in Range(cached) : ~ticks /\ entry.mtime = mtime}
      /\ UNCHANGED <<cached, reader>>
  BY DEF Commits
<1>1. CacheTyped'
  BY <1>0 DEF CacheInv, CacheTyped
<1>2. Dictionary(cached)'
  BY <1>0 DEF CacheInv, Dictionary
<1>3. ASSUME NEW i \in 1 .. Len(cached)
      PROVE  EntryFits(cached[i])'
  <2>1. EntryFits(cached[i]) /\ cached[i] \in CacheEntries /\ cached[i] \in Range(cached)
    BY CachedRange, ElementOfSeq DEF CacheInv, CacheTyped
  <2> QED
    BY <1>0, <2>1 DEF EntryFits, CacheInv, CacheTyped, CacheEntries
<1>4. ASSUME NEW x \in Readers
      PROVE  ReaderFits(x)'
  <2>1. ReaderFits(x) /\ reader[x] \in Requests
    BY DEF CacheInv, CacheTyped
  <2> QED
    BY <1>0, <2>1 DEF ReaderFits, CacheInv, CacheTyped, Requests
<1> QED
  BY <1>0, <1>1, <1>2, <1>3, <1>4 DEF CacheInv

LEMMA CheckpointsKeeps ==
  ASSUME CacheInv, Checkpoints
  PROVE  CacheInv'
<1>0. /\ mtime' = mtime + 1 /\ UNCHANGED <<commits, cached, reader, raced>>
  BY DEF Checkpoints
<1>1. CacheTyped'
  BY <1>0 DEF CacheInv, CacheTyped
<1>2. Dictionary(cached)'
  BY <1>0 DEF CacheInv, Dictionary
<1>3. ASSUME NEW i \in 1 .. Len(cached)
      PROVE  EntryFits(cached[i])'
  <2>1. EntryFits(cached[i]) /\ cached[i] \in CacheEntries
    BY ElementOfSeq DEF CacheInv, CacheTyped
  <2> QED
    BY <1>0, <2>1 DEF EntryFits, CacheInv, CacheTyped, CacheEntries
<1>4. \A x \in Readers : ReaderFits(x)'
  BY <1>0 DEF ReaderFits, CacheInv
<1> QED
  BY <1>0, <1>1, <1>2, <1>3, <1>4 DEF CacheInv

\* What a request of x finds and what it leaves of the cache.
LEMMA LookUpKeeps ==
  ASSUME CacheInv, NEW x \in Readers, NEW q \in Queries, LookUp(x, q)
  PROVE  CacheInv'
<1>0. UNCHANGED <<commits, mtime, raced>>
  BY DEF LookUp
<1>1. /\ cached \in Seq(CacheEntries) /\ Dictionary(cached)
      /\ Range(cached) = {cached[i] : i \in 1 .. Len(cached)} /\ DOMAIN cached = 1 .. Len(cached)
      /\ \A i \in 1 .. Len(cached) : cached[i] \in CacheEntries /\ EntryFits(cached[i])
  BY CachedRange, ElementOfSeq DEF CacheInv, CacheTyped
<1>2. /\ cached' \in Seq(CacheEntries) /\ Dictionary(cached')
      /\ \A i \in 1 .. Len(cached') : \E j \in 1 .. Len(cached) : cached'[i] = cached[j]
  <2>1. CASE Outdated(q) = {}
    BY <1>1, <2>1 DEF LookUp
  <2>2. CASE Outdated(q) # {}
    <3> DEFINE k == CHOOSE i \in Outdated(q) : TRUE
    <3>1. k \in 1 .. Len(cached)
      BY <1>1, <2>2 DEF Outdated
    <3>2. cached' = RemoveAt(cached, k)
      BY <2>2 DEF LookUp
    <3> HIDE DEF k
    <3> QED
      BY <1>1, <3>1, <3>2, Removed, LogsCacheAssumption
  <2> QED
    BY <2>1, <2>2
<1>3. \A i \in 1 .. Len(cached') : EntryFits(cached[i])'
  BY <1>0, <1>1, <1>2 DEF EntryFits
<1>4. /\ reader' = [reader EXCEPT ![x] = reader'[x]]
      /\ reader'[x] \in Requests
      /\ ReaderFits(x)'
  <2>0. reader \in [Readers -> Requests] /\ commits \in Nat
    BY DEF CacheInv, CacheTyped
  <2>1. CASE \E entry \in Entry(q) : entry.mtime = mtime
    <3> DEFINE hit == CHOOSE entry \in Entry(q) : TRUE
    <3>1. hit \in Entry(q)
      BY <2>1
    <3>2. reader' = [reader EXCEPT ![x] = [at |-> "answered", rows |-> hit.rows,
                                           since |-> commits, raced |-> hit \in raced]]
      BY <2>1 DEF LookUp
    <3> HIDE DEF hit
    <3>3. PICK i \in 1 .. Len(cached) : hit = cached[i] /\ hit.query = q
      BY <1>1, <3>1 DEF Entry
    <3>4. PICK j \in 1 .. Len(cached) : cached[j].query = q /\ cached[j].mtime = mtime
      BY <1>1, <2>1 DEF Entry
    <3>5. i = j
      BY <1>1, <3>3, <3>4 DEF Dictionary
    <3>6. hit.rows \in Nat /\ (hit.rows = commits \/ hit \in raced)
      BY <1>1, <3>3, <3>4, <3>5 DEF EntryFits, CacheEntries
    <3>7. reader'[x] = [at |-> "answered", rows |-> hit.rows, since |-> commits,
                        raced |-> hit \in raced]
      BY <2>0, <3>2
    <3>8. reader'[x] \in Requests
      BY <2>0, <3>6, <3>7 DEF Requests
    <3>9. ReaderFits(x)'
      <4>1. /\ reader'[x].at = "answered" /\ reader'[x].rows = hit.rows
            /\ reader'[x].since = commits /\ reader'[x].raced = (hit \in raced)
        BY <3>7
      <4>2. CASE hit.rows = commits
        BY <2>0, <4>1, <4>2 DEF ReaderFits
      <4>3. CASE hit \in raced
        BY <4>1, <4>3 DEF ReaderFits
      <4> QED
        BY <3>6, <4>2, <4>3
    <3> QED
      BY <2>0, <3>2, <3>7, <3>8, <3>9
  <2>2. CASE ~(\E entry \in Entry(q) : entry.mtime = mtime)
    <3>1. reader' = [reader EXCEPT ![x] = [at |-> "reading", query |-> q, since |-> commits]]
      BY <2>2 DEF LookUp
    <3>2. reader'[x] = [at |-> "reading", query |-> q, since |-> commits]
      BY <2>0, <3>1
    <3>3. reader'[x] \in Requests /\ ReaderFits(x)'
      BY <1>0, <2>0, <3>2 DEF Requests, ReaderFits
    <3> QED
      BY <2>0, <3>1, <3>2, <3>3
  <2> QED
    BY <2>1, <2>2
<1>5. ASSUME NEW y \in Readers, y # x
      PROVE  ReaderFits(y)'
  <2>1. reader'[y] = reader[y] /\ ReaderFits(y)
    BY <1>4, <1>5 DEF CacheInv, CacheTyped
  <2> QED
    BY <1>0, <2>1 DEF ReaderFits
<1>6. CacheTyped'
  BY <1>0, <1>2, <1>4 DEF CacheInv, CacheTyped
<1> QED
  BY <1>2, <1>3, <1>4, <1>5, <1>6 DEF CacheInv, Dictionary

LEMMA ReadLogsKeeps ==
  ASSUME CacheInv, NEW x \in Readers, ReadLogs(x)
  PROVE  CacheInv'
<1>0. /\ UNCHANGED <<commits, mtime, cached, raced>> /\ reader[x].at = "reading"
      /\ reader' = [reader EXCEPT ![x] = [at |-> "putting", query |-> reader[x].query,
                                          rows |-> commits, since |-> reader[x].since]]
  BY DEF ReadLogs
<1>1. reader \in [Readers -> Requests] /\ commits \in Nat /\ reader[x] \in Requests
      /\ reader[x].since <= commits
  BY <1>0 DEF CacheInv, CacheTyped, ReaderFits
<1>2. reader[x].query \in Queries /\ reader[x].since \in Nat
  BY <1>0, <1>1 DEF Requests
<1>3. reader'[x] = [at |-> "putting", query |-> reader[x].query, rows |-> commits,
                    since |-> reader[x].since]
  BY <1>0, <1>1
<1>4. ReaderFits(x)' /\ reader' \in [Readers -> Requests]
  BY <1>0, <1>1, <1>2, <1>3 DEF ReaderFits, Requests
<1>5. ASSUME NEW y \in Readers, y # x
      PROVE  ReaderFits(y)'
  BY <1>0, <1>1, <1>5 DEF ReaderFits, CacheInv
<1>6. CacheTyped' /\ Dictionary(cached)' /\ \A i \in 1 .. Len(cached') : EntryFits(cached[i])'
  BY <1>0, <1>4 DEF CacheInv, CacheTyped, Dictionary, EntryFits
<1> QED
  BY <1>4, <1>5, <1>6 DEF CacheInv

LEMMA PutLogsKeeps ==
  ASSUME CacheInv, NEW x \in Readers, PutLogs(x)
  PROVE  CacheInv'
<1> DEFINE entry == [query |-> reader[x].query, mtime |-> mtime, rows |-> reader[x].rows]
<1>0. /\ UNCHANGED <<commits, mtime>> /\ reader[x].at = "putting"
      /\ reader' = [reader EXCEPT ![x] = [at |-> "answered", rows |-> reader[x].rows,
                                          since |-> reader[x].since, raced |-> FALSE]]
      /\ cached' = IF reader[x].query \in Bulky THEN cached ELSE Placed(Evicted(cached), entry)
      /\ raced' = (IF reader[x].rows # commits THEN raced \cup {entry} ELSE raced)
                  \cap Range(cached')
  BY DEF PutLogs
<1>1. /\ reader \in [Readers -> Requests] /\ commits \in Nat /\ mtime \in Nat
      /\ reader[x] \in Requests
      /\ reader[x].since <= reader[x].rows /\ reader[x].rows <= commits
  BY <1>0 DEF CacheInv, CacheTyped, ReaderFits
<1>2. reader[x].query \in Queries /\ reader[x].since \in Nat /\ reader[x].rows \in Nat
  BY <1>0, <1>1 DEF Requests
<1>3. /\ cached \in Seq(CacheEntries) /\ Dictionary(cached)
      /\ \A i \in 1 .. Len(cached) : cached[i] \in CacheEntries /\ EntryFits(cached[i])
  BY ElementOfSeq DEF CacheInv, CacheTyped
<1>4. entry.query = reader[x].query /\ entry.mtime = mtime /\ entry.rows = reader[x].rows
      /\ (reader[x].query \notin Bulky => entry \in CacheEntries)
  BY <1>1, <1>2 DEF CacheEntries
<1> HIDE DEF entry
<1>5. /\ cached' \in Seq(CacheEntries) /\ Dictionary(cached')
      /\ \A i \in 1 .. Len(cached') :
            cached'[i] = entry \/ \E j \in 1 .. Len(cached) : cached'[i] = cached[j]
  <2>1. CASE reader[x].query \in Bulky
    BY <1>0, <1>3, <2>1
  <2>2. CASE reader[x].query \notin Bulky
    <3> DEFINE left == Evicted(cached)
    <3>1. /\ left \in Seq(CacheEntries) /\ Dictionary(left) /\ Len(left) < MaxCached
          /\ \A i \in 1 .. Len(left) : \E j \in 1 .. Len(cached) : left[i] = cached[j]
      BY <1>3, EvictedIs, LogsCacheAssumption
    <3>2. cached' = Placed(left, entry)
      BY <1>0, <2>2
    <3> HIDE DEF left
    <3>3. /\ cached' \in Seq(CacheEntries) /\ Dictionary(cached')
          /\ \A i \in 1 .. Len(cached') :
                cached'[i] = entry \/ \E j \in 1 .. Len(left) : cached'[i] = left[j]
      BY <1>4, <2>2, <3>1, <3>2, PlacedIs, LogsCacheAssumption
    <3> QED
      BY <3>1, <3>3
  <2> QED
    BY <2>1, <2>2
<1>6. ASSUME NEW i \in 1 .. Len(cached')
      PROVE  EntryFits(cached[i])'
  <2>1. cached'[i] \in Range(cached')
    BY <1>5, CachedRange
  <2>2. CASE cached'[i] = entry
    BY <1>0, <1>1, <1>2, <1>4, <2>1, <2>2 DEF EntryFits
  <2>3. CASE \E j \in 1 .. Len(cached) : cached'[i] = cached[j]
    <3>1. PICK j \in 1 .. Len(cached) : cached'[i] = cached[j]
      BY <2>3
    <3>2. EntryFits(cached[j])
      BY <1>3
    <3> QED
      BY <1>0, <2>1, <3>1, <3>2 DEF EntryFits
  <2> QED
    BY <1>5, <2>2, <2>3
<1>7. reader'[x] = [at |-> "answered", rows |-> reader[x].rows,
                    since |-> reader[x].since, raced |-> FALSE]
  BY <1>0, <1>1
<1>8. ReaderFits(x)' /\ reader' \in [Readers -> Requests]
  BY <1>0, <1>1, <1>2, <1>7 DEF ReaderFits, Requests
<1>9. ASSUME NEW y \in Readers, y # x
      PROVE  ReaderFits(y)'
  BY <1>0, <1>1, <1>9 DEF ReaderFits, CacheInv
<1>10. CacheTyped'
  BY <1>0, <1>1, <1>5, <1>8 DEF CacheTyped
<1> QED
  BY <1>5, <1>6, <1>8, <1>9, <1>10 DEF CacheInv, Dictionary

LEMMA CacheInvNext == CacheInv /\ [CacheNext]_cacheVars => CacheInv'
<1> SUFFICES ASSUME CacheInv, [CacheNext]_cacheVars PROVE CacheInv'
  OBVIOUS
<1>1. CASE UNCHANGED cacheVars
  BY <1>1 DEF cacheVars, CacheInv, CacheTyped, Dictionary, EntryFits, ReaderFits
<1>2. CASE CacheNext
  BY <1>2, CommitsKeeps, CheckpointsKeeps, LookUpKeeps, ReadLogsKeeps, PutLogsKeeps
     DEF CacheNext
<1> QED
  BY <1>1, <1>2

LEMMA CacheInvGives == CacheInv => CacheTypeOK /\ CacheFresh
<1> SUFFICES ASSUME CacheInv PROVE CacheTypeOK /\ CacheFresh
  OBVIOUS
<1>1. /\ Range(cached) = {cached[i] : i \in 1 .. Len(cached)}
      /\ \A i \in 1 .. Len(cached) : cached[i] \in CacheEntries /\ EntryFits(cached[i])
  BY CachedRange, ElementOfSeq DEF CacheInv, CacheTyped
<1>2. \A entry \in Range(cached) : /\ entry.mtime <= mtime /\ entry.rows <= commits
                                   /\ entry.query \notin Bulky
  BY <1>1 DEF EntryFits, CacheEntries
<1> QED
  BY <1>2 DEF CacheInv, CacheTypeOK, CacheFresh, Dictionary, ReaderFits

\* _logs_read_cache_get and _put: a reply shows every commit that preceded its request,
\* unless a commit raced the put of its entry; the dictionary keeps its bound and its keys.
THEOREM CachesFresh == CacheSpec => [](CacheTypeOK /\ CacheFresh)
  BY CacheInvInit, CacheInvNext, CacheInvGives, PTL DEF CacheSpec

----------------------------------------------------------------------------
(***************************************************************************)
(* The mirror of a Space.                                                  *)
(***************************************************************************)

ExportStates == [at : {"exporting"}, left : SUBSET Sheets, sheet : Sheets \cup {"none"},
                 rows : SUBSET HubRows]

\* Of an export or a scheduler e, and the rows E that were entered.
ExportTyped(e, E) ==
  e.at = "exporting" =>
    /\ e \in ExportStates
    /\ e.sheet # "none" => e.rows \subseteq RowsOfSheet(e.sheet) \cap E

\* A set of rows, where there is a file, of the sheet and entered.
FileTyped(file, s) == file # NoFile => file \subseteq RowsOfSheet(s) \cap entered

TablesTyped ==
  /\ content \in [Sheets -> SUBSET HubRows]
  /\ parquet \in [Sheets -> {NoFile} \cup SUBSET HubRows]
  /\ hub \in [Sheets -> {NoFile} \cup SUBSET HubRows]
  /\ \A s \in Sheets : /\ content[s] \subseteq RowsOfSheet(s) \cap entered
                       /\ FileTyped(parquet[s], s) /\ FileTyped(hub[s], s)
                       /\ content[s] # {} => OwnerOf[s] \in based

MovesTyped ==
  /\ flags \in [synced : BOOLEAN, pending : BOOLEAN, attempted : BOOLEAN]
  /\ push.at \in {"resting", "exporting", "uploading", "marking"}
  /\ forced.at \in {"resting", "exporting"}
  /\ ExportTyped(push, entered) /\ ExportTyped(forced, entered)
  /\ push.at \in {"uploading", "marking"} =>
       /\ push = [at |-> push.at, files |-> push.files, listed |-> push.listed]
       /\ push.listed \subseteq push.files /\ push.files \subseteq Sheets
  /\ push.at = "exporting" => load = Resting

\* A file taken for uploaded, or that the push will take for it, is the one uploaded.
PushedIsThere ==
  /\ \A s \in pushed : s \in Sheets /\ parquet[s] # NoFile => hub[s] = parquet[s]
  /\ push.at = "marking" => \A s \in push.listed : parquet[s] # NoFile => hub[s] = parquet[s]

\* A file taken for current is.
NewerIsCurrent ==
  \A s \in Sheets \ Behind : s \in newer /\ content[s] # {} => parquet[s] = content[s]

\* An export exists only where the load is done; what it has read is still there
\* unless it met a change, and gone only if it was deleted.
ReadIsThere(e, F, M, C, X) ==
  e.at = "exporting" =>
    /\ e.left # {} \/ e.sheet # "none" => F.attempted
    /\ e.sheet # "none" => /\ e.sheet \in M \/ e.rows = C[e.sheet]
                           /\ e.rows \subseteq C[e.sheet] \cup X

\* The sheets whose file in the dataset the database was given, or that a load that
\* is done says it was.
Given(s) == s \notin unseen \/ (flags.attempted /\ ~bypassed)

\* Of these, nothing that reached a file leaves the database undeleted.
FilesKept ==
  \A s \in Sheets : Given(s) =>
     /\ parquet[s] # NoFile => parquet[s] \subseteq content[s] \cup erased
     /\ hub[s] # NoFile => hub[s] \subseteq content[s] \cup erased

\* An upload of the file as it is would take nothing away.
UploadsKeep ==
  \A s \in Sheets \ (IF bypassed THEN Behind ELSE missed) :
     hub[s] # NoFile /\ parquet[s] # NoFile => hub[s] \ parquet[s] \subseteq erased

HubInv == /\ TablesTyped /\ MovesTyped /\ PushedIsThere /\ NewerIsCurrent
          /\ ReadIsThere(push, flags, missed, content, erased)
          /\ ReadIsThere(forced, flags, missed, content, erased)
          /\ FilesKept /\ UploadsKeep

LEMMA HubInvInit == HubInit => HubInv
<1> SUFFICES ASSUME HubInit PROVE HubInv
  OBVIOUS
<1>1. /\ \A s \in Sheets : content[s] = {} /\ parquet[s] = NoFile
      /\ push = Resting /\ forced = Resting /\ load = Resting
      /\ pushed = {} /\ newer = {} /\ bypassed = FALSE /\ flags.attempted = FALSE
      /\ unseen = {s \in Sheets : hub[s] # NoFile}
  BY DEF HubInit, FirstFlags
<1>2. TablesTyped
  <2>1. \A s \in Sheets : hub[s] # NoFile => hub[s] \subseteq RowsOfSheet(s) \cap entered
    BY DEF HubInit
  <2>2. hub \in [Sheets -> {NoFile} \cup SUBSET HubRows]
    BY DEF HubInit
  <2> QED
    BY <1>1, <2>1, <2>2 DEF HubInit, TablesTyped, FileTyped
<1>3. MovesTyped
  BY <1>1 DEF HubInit, MovesTyped, FirstFlags, Resting, ExportTyped
<1>4. /\ PushedIsThere
      /\ NewerIsCurrent
      /\ ReadIsThere(push, flags, missed, content, erased)
      /\ ReadIsThere(forced, flags, missed, content, erased)
  BY <1>1 DEF PushedIsThere, NewerIsCurrent, ReadIsThere, Resting
<1>5. FilesKept /\ UploadsKeep
  BY <1>1 DEF FilesKept, UploadsKeep, Given
<1> QED
  BY <1>2, <1>3, <1>4, <1>5 DEF HubInv

\* Steps that leave the files and the tables alone and do not call a load done.
LEMMA FilesLeft ==
  ASSUME HubInv, UNCHANGED <<content, parquet, hub, entered, unseen, missed>>,
         based \subseteq based', erased \subseteq erased', newer' \subseteq newer,
         bypassed => bypassed', flags'.attempted => flags.attempted \/ bypassed' \/ unseen = {}
  PROVE  TablesTyped' /\ NewerIsCurrent' /\ FilesKept' /\ UploadsKeep'
<1>1. TablesTyped'
  BY DEF HubInv, TablesTyped, FileTyped
<1>2. NewerIsCurrent'
  BY DEF HubInv, NewerIsCurrent, Behind
<1>3. FilesKept'
  <2>1. \A s \in Sheets : Given(s)' => Given(s)
    BY DEF Given
  <2> QED
    BY <2>1 DEF HubInv, FilesKept
<1>4. UploadsKeep'
  BY DEF HubInv, UploadsKeep, Behind
<1> QED
  BY <1>1, <1>2, <1>3, <1>4

\* A change of one sheet's table: rows come in, or go and are known as erased.
LEMMA TableChanges ==
  ASSUME HubInv, NEW s \in Sheets, NEW rows \in SUBSET HubRows,
         content' = [content EXCEPT ![s] = rows],
         rows \subseteq RowsOfSheet(s) \cap entered',
         content[s] \ rows \subseteq erased', erased \subseteq erased', entered \subseteq entered',
         rows # {} => OwnerOf[s] \in based', based \subseteq based',
         newer' = newer \ OfProject(OwnerOf[s]),
         missed' = missed \cup (Reading \cap {s}),
         UNCHANGED <<parquet, hub, pushed, push, forced, flags, bypassed>>,
         unseen' \subseteq unseen,
         \A x \in unseen \ unseen' : x = s /\ parquet[s] = hub[s]
                                     /\ (parquet[s] # NoFile => rows = parquet[s])
  PROVE  TablesTyped' /\ NewerIsCurrent' /\ PushedIsThere' /\ FilesKept' /\ UploadsKeep'
         /\ ReadIsThere(push', flags', missed', content', erased')
         /\ ReadIsThere(forced', flags', missed', content', erased')
<1>0. /\ content \in [Sheets -> SUBSET HubRows]
      /\ \A x \in Sheets : content'[x] = IF x = s THEN rows ELSE content[x]
      /\ \A x \in Sheets : content[x] \cup erased \subseteq content'[x] \cup erased'
  BY DEF HubInv, TablesTyped
<1>1. TablesTyped'
  BY <1>0 DEF HubInv, TablesTyped, FileTyped
<1>2. NewerIsCurrent'
  <2> SUFFICES ASSUME NEW x \in Sheets \ Behind', x \in newer', content'[x] # {}
               PROVE  parquet'[x] = content'[x]
    BY DEF NewerIsCurrent
  <2>1. x # s
    BY DEF OfProject
  <2>2. x \notin Behind /\ x \in newer
    BY <2>1 DEF Behind
  <2> QED
    BY <1>0, <2>1, <2>2 DEF HubInv, NewerIsCurrent
<1>3. PushedIsThere'
  BY DEF HubInv, PushedIsThere
<1>4. FilesKept'
  <2> SUFFICES ASSUME NEW x \in Sheets, Given(x)'
               PROVE  /\ parquet[x] # NoFile => parquet[x] \subseteq content'[x] \cup erased'
                      /\ hub[x] # NoFile => hub[x] \subseteq content'[x] \cup erased'
    BY DEF FilesKept
  <2>1. CASE Given(x)
    BY <1>0, <2>1 DEF HubInv, FilesKept
  <2>2. CASE ~Given(x)
    <3>1. x \in unseen \ unseen'
      BY <2>2 DEF Given
    <3> QED
      BY <1>0, <3>1
  <2> QED
    BY <2>1, <2>2
<1>5. UploadsKeep'
  <2> SUFFICES ASSUME NEW x \in Sheets \ (IF bypassed THEN Behind' ELSE missed'),
                      hub[x] # NoFile, parquet[x] # NoFile
               PROVE  hub[x] \ parquet[x] \subseteq erased'
    BY DEF UploadsKeep
  <2>1. CASE x \in unseen \ unseen'
    BY <2>1
  <2>2. CASE x \notin unseen \ unseen'
    <3>1. x \in Sheets \ (IF bypassed THEN Behind ELSE missed)
      BY <2>2 DEF Behind
    <3> QED
      BY <3>1 DEF HubInv, UploadsKeep
  <2> QED
    BY <2>1, <2>2
<1>6. ASSUME NEW e \in {push, forced}
      PROVE  e.at = "exporting" =>
                /\ e.left # {} \/ e.sheet # "none" => flags'.attempted
                /\ e.sheet # "none" => /\ e.sheet \in missed' \/ e.rows = content'[e.sheet]
                                       /\ e.rows \subseteq content'[e.sheet] \cup erased'
  <2> SUFFICES ASSUME e.at = "exporting"
               PROVE  /\ e.left # {} \/ e.sheet # "none" => flags'.attempted
                      /\ e.sheet # "none" => /\ e.sheet \in missed' \/ e.rows = content'[e.sheet]
                                             /\ e.rows \subseteq content'[e.sheet] \cup erased'
    OBVIOUS
  <2>1. ReadIsThere(e, flags, missed, content, erased) /\ ExportTyped(e, entered)
    BY DEF HubInv, MovesTyped
  <2>2. e.sheet # "none" => e.sheet \in Reading /\ e.sheet \in Sheets
    BY <2>1 DEF Reading, Exports, ExportTyped, ExportStates
  <2> QED
    BY <1>0, <2>1, <2>2 DEF ReadIsThere
<1> QED
  BY <1>1, <1>2, <1>3, <1>4, <1>5, <1>6 DEF ReadIsThere

\* The exports and the load that a step does not touch keep their types.
LEMMA MovesLeft ==
  ASSUME HubInv, UNCHANGED <<push, forced, load, flags>>, entered \subseteq entered'
  PROVE  MovesTyped'
BY DEF HubInv, MovesTyped, ExportTyped

LEMMA InsertRowKeeps ==
  ASSUME HubInv, NEW r \in HubRows, InsertRow(r)
  PROVE  HubInv'
<1> DEFINE s == SheetOf[r]
<1>1. /\ s \in Sheets /\ content[s] \in SUBSET HubRows /\ r \in RowsOfSheet(s)
      /\ content[s] \subseteq RowsOfSheet(s) \cap entered
  BY HubMirrorAssumption DEF HubInv, TablesTyped, RowsOfSheet
<1>2. /\ content' = [content EXCEPT ![s] = content[s] \cup {r}]
      /\ based' = based \cup {OwnerOf[s]} /\ newer' = newer \ OfProject(OwnerOf[s])
      /\ entered' = entered \cup {r} /\ missed' = missed \cup (Reading \cap {s})
      /\ UNCHANGED <<parquet, pushed, hub, flags, push, forced, load, erased, unseen, bypassed>>
  BY DEF InsertRow, Touch
<1> HIDE DEF s
<1>3. TablesTyped' /\ NewerIsCurrent' /\ PushedIsThere' /\ FilesKept' /\ UploadsKeep'
      /\ ReadIsThere(push', flags', missed', content', erased')
      /\ ReadIsThere(forced', flags', missed', content', erased')
  <2> DEFINE rows == content[s] \cup {r}
  <2>1. /\ rows \in SUBSET HubRows /\ rows \subseteq RowsOfSheet(s) \cap entered'
        /\ content[s] \ rows \subseteq erased'
        /\ erased \subseteq erased'
        /\ entered \subseteq entered'
        /\ content' = [content EXCEPT ![s] = rows]
        /\ (rows # {} => OwnerOf[s] \in based') /\ based \subseteq based'
        /\ unseen' \subseteq unseen /\ unseen \ unseen' = {}
    BY <1>1, <1>2
  <2> HIDE DEF rows
  <2> QED
    BY <1>1, <1>2, <2>1, TableChanges
<1>4. MovesTyped'
  BY <1>2, MovesLeft
<1> QED
  BY <1>3, <1>4 DEF HubInv

LEMMA DeleteRowKeeps ==
  ASSUME HubInv, NEW r \in HubRows, DeleteRow(r)
  PROVE  HubInv'
<1> DEFINE s == SheetOf[r]
<1>1. /\ s \in Sheets /\ content[s] \in SUBSET HubRows
      /\ content[s] \subseteq RowsOfSheet(s) \cap entered
      /\ content[s] # {} => OwnerOf[s] \in based
  BY HubMirrorAssumption DEF HubInv, TablesTyped
<1>2. /\ content' = [content EXCEPT ![s] = content[s] \ {r}]
      /\ newer' = newer \ OfProject(OwnerOf[s])
      /\ erased' = erased \cup {r} /\ missed' = missed \cup (Reading \cap {s})
      /\ UNCHANGED <<based, parquet, pushed, hub, flags, push, forced, load, entered, unseen,
                     bypassed>>
  BY DEF DeleteRow, Touch
<1> HIDE DEF s
<1>3. TablesTyped' /\ NewerIsCurrent' /\ PushedIsThere' /\ FilesKept' /\ UploadsKeep'
      /\ ReadIsThere(push', flags', missed', content', erased')
      /\ ReadIsThere(forced', flags', missed', content', erased')
  <2> DEFINE rows == content[s] \ {r}
  <2>1. /\ rows \in SUBSET HubRows /\ rows \subseteq RowsOfSheet(s) \cap entered'
        /\ content[s] \ rows \subseteq erased'
        /\ erased \subseteq erased'
        /\ entered \subseteq entered'
        /\ content' = [content EXCEPT ![s] = rows]
        /\ (rows # {} => OwnerOf[s] \in based') /\ based \subseteq based'
        /\ unseen' \subseteq unseen /\ unseen \ unseen' = {}
    BY <1>1, <1>2
  <2> HIDE DEF rows
  <2> QED
    BY <1>1, <1>2, <2>1, TableChanges
<1>4. MovesTyped'
  BY <1>2, MovesLeft
<1> QED
  BY <1>3, <1>4 DEF HubInv

LEMMA DeleteMirroredKeeps ==
  ASSUME HubInv, NEW p \in HubProjects, DeleteMirrored(p)
  PROVE  HubInv'
<1>0. /\ based' = based \ {p}
      /\ content' = [s \in Sheets |-> IF s \in OfProject(p) THEN {} ELSE content[s]]
      /\ parquet' = [s \in Sheets |-> IF s \in OfProject(p) THEN NoFile ELSE parquet[s]]
      /\ erased' = erased \cup {r \in entered : OwnerOf[SheetOf[r]] = p}
      /\ missed' = missed \cup (Reading \cap OfProject(p))
      /\ UNCHANGED <<newer, pushed, hub, flags, push, forced, load, entered, unseen, bypassed>>
  BY DEF DeleteMirrored
<1>1. \A s \in OfProject(p) : RowsOfSheet(s) \cap entered \subseteq erased' /\ s \in Sheets
  BY <1>0 DEF OfProject, RowsOfSheet
<1>2. \A s \in Sheets : content[s] \cup erased \subseteq content'[s] \cup erased'
  BY <1>0, <1>1 DEF HubInv, TablesTyped
<1>3. TablesTyped'
  BY <1>0 DEF HubInv, TablesTyped, FileTyped, OfProject
<1>4. NewerIsCurrent' /\ PushedIsThere'
  BY <1>0 DEF HubInv, NewerIsCurrent, PushedIsThere, Behind, MovesTyped
<1>5. FilesKept'
  BY <1>0, <1>2 DEF HubInv, FilesKept, Given
<1>6. UploadsKeep'
  BY <1>0 DEF HubInv, UploadsKeep, Behind
<1>7. ASSUME NEW e \in {push, forced}, e.at = "exporting"
      PROVE  /\ e.left # {} \/ e.sheet # "none" => flags'.attempted
             /\ e.sheet # "none" => /\ e.sheet \in missed' \/ e.rows = content'[e.sheet]
                                    /\ e.rows \subseteq content'[e.sheet] \cup erased'
  <2>1. ReadIsThere(e, flags, missed, content, erased) /\ ExportTyped(e, entered)
    BY DEF HubInv, MovesTyped
  <2>2. e.sheet # "none" => e.sheet \in Reading /\ e.sheet \in Sheets
    BY <1>7, <2>1 DEF Reading, Exports, ExportTyped, ExportStates
  <2>3. \A s \in Sheets : s \in missed' \/ s \notin Reading \/ content'[s] = content[s]
    BY <1>0
  <2> QED
    BY <1>0, <1>2, <1>7, <2>1, <2>2, <2>3 DEF ReadIsThere
<1>8. MovesTyped'
  BY <1>0, MovesLeft
<1> QED
  BY <1>0, <1>3, <1>4, <1>5, <1>6, <1>7, <1>8 DEF HubInv, ReadIsThere

\* One table more is read.
LEMMA AfterReadingFits ==
  ASSUME HubInv, NEW e \in {push, forced}, NEW s \in Sheets, ReadSheet(e, s),
         UNCHANGED <<content, entered, missed, erased, flags>>
  PROVE  /\ AfterReading(e, s).at = "exporting"
         /\ ExportTyped(AfterReading(e, s), entered')
         /\ ReadIsThere(AfterReading(e, s), flags', missed', content', erased')
         /\ based \subseteq based'
<1>1. /\ ExportTyped(e, entered)
      /\ ReadIsThere(e, flags, missed, content, erased)
      /\ content[s] \subseteq RowsOfSheet(s) \cap entered
      /\ e.at = "exporting" /\ s \in e.left /\ e.sheet = "none"
  BY DEF HubInv, TablesTyped, MovesTyped, ReadSheet
<1>2. e \in ExportStates /\ flags.attempted
  BY <1>1 DEF ExportTyped, ReadIsThere
<1> DEFINE f == AfterReading(e, s)
<1>3. /\ f \in ExportStates /\ f.at = "exporting" /\ f.sheet \in {s, "none"}
      /\ f.sheet # "none" => f.rows = content[s] /\ f.sheet = s
  <2>0. e.left \ {s} \in SUBSET Sheets /\ content[s] \in SUBSET HubRows /\ e.sheet = "none"
    BY <1>1, <1>2 DEF ExportStates, HubInv, TablesTyped
  <2>1. CASE Needed(s) /\ content[s] # {}
    <3>1. f = [e EXCEPT !.left = @ \ {s}, !.sheet = s, !.rows = content[s]]
      BY <2>1 DEF AfterReading
    <3> HIDE DEF f
    <3> QED
      BY <1>2, <2>0, <3>1 DEF ExportStates
  <2>2. CASE ~(Needed(s) /\ content[s] # {})
    <3>1. f = [e EXCEPT !.left = @ \ {s}]
      BY <2>2 DEF AfterReading
    <3> HIDE DEF f
    <3> QED
      BY <1>2, <2>0, <3>1 DEF ExportStates
  <2> QED
    BY <2>1, <2>2
<1>4. based \subseteq based'
  BY DEF ReadSheet
<1> HIDE DEF f
<1>5. ExportTyped(f, entered') /\ ReadIsThere(f, flags', missed', content', erased')
  BY <1>1, <1>2, <1>3 DEF ExportTyped, ReadIsThere
<1> QED
  BY <1>3, <1>4, <1>5 DEF f

\* One file is written, by an export e beside the other.
LEMMA WriteSheetKeeps ==
  ASSUME HubInv, NEW e \in {push, forced}, NEW other \in {push, forced}, WriteSheet(e, other),
         UNCHANGED <<content, based, hub, flags, entered, erased, unseen, bypassed>>
  PROVE  /\ TablesTyped' /\ NewerIsCurrent' /\ FilesKept' /\ UploadsKeep'
         /\ \A s \in pushed' : s \in Sheets /\ parquet'[s] # NoFile => hub'[s] = parquet'[s]
         /\ ExportTyped(AfterWriting(e), entered')
         /\ ReadIsThere(AfterWriting(e), flags', missed', content', erased')
         /\ AfterWriting(e).at = "exporting"
         /\ ExportTyped(other, entered') /\ ReadIsThere(other, flags', missed', content', erased')
<1> DEFINE s == e.sheet
<1>1. /\ ExportTyped(e, entered)
      /\ ReadIsThere(e, flags, missed, content, erased)
      /\ ExportTyped(other, entered)
      /\ ReadIsThere(other, flags, missed, content, erased)
      /\ e.at = "exporting" /\ s # "none"
  BY DEF HubInv, MovesTyped, WriteSheet
<1>2. /\ s \in Sheets /\ e.rows \subseteq RowsOfSheet(s) \cap entered /\ flags.attempted
      /\ e \in ExportStates
      /\ s \in missed \/ e.rows = content[s]
      /\ e.rows \subseteq content[s] \cup erased
  BY <1>1 DEF ExportTyped, ReadIsThere, ExportStates
<1>3. /\ parquet' = [parquet EXCEPT ![s] = e.rows] /\ newer' = newer \cup {s}
      /\ pushed' = pushed \ {s}
      /\ missed' = (IF e.rows = content[s] THEN missed \ {s} ELSE missed)
                   \cup {x \in {s} : other.at = "exporting" /\ other.sheet = x}
  BY DEF WriteSheet
<1>4. /\ AfterWriting(e) \in ExportStates /\ AfterWriting(e).at = "exporting"
      /\ AfterWriting(e).left = e.left /\ AfterWriting(e).sheet = "none"
  BY <1>2 DEF AfterWriting, ExportStates
<1> HIDE DEF s
<1>5. /\ s \notin missed' => e.rows = content[s]
      /\ \A x \in Sheets : x # s => (x \in missed' <=> x \in missed)
      /\ s \notin missed' => ~(other.at = "exporting" /\ other.sheet = s)
  BY <1>2, <1>3
<1>6. /\ parquet \in [Sheets -> {NoFile} \cup SUBSET HubRows]
      /\ \A x \in Sheets : parquet'[x] = IF x = s THEN e.rows ELSE parquet[x]
  BY <1>3 DEF HubInv, TablesTyped
<1>7. TablesTyped'
  <2>1. RowsOfSheet(s) \subseteq HubRows
    BY DEF RowsOfSheet
  <2> QED
    BY <1>2, <1>3, <1>6, <2>1 DEF HubInv, TablesTyped, FileTyped
<1>8. NewerIsCurrent'
  BY <1>3, <1>5, <1>6 DEF HubInv, NewerIsCurrent, Behind
<1>9. FilesKept'
  BY <1>2, <1>6 DEF HubInv, FilesKept, Given
<1>10. UploadsKeep'
  <2> SUFFICES ASSUME NEW x \in Sheets \ (IF bypassed THEN Behind' ELSE missed'),
                      hub[x] # NoFile, parquet'[x] # NoFile
               PROVE  hub[x] \ parquet'[x] \subseteq erased
    BY DEF UploadsKeep
  <2>1. CASE x = s
    <3>1. e.rows = content[s] /\ Given(s)
      BY <1>2, <1>5, <2>1 DEF Given, Behind
    <3> QED
      BY <1>6, <2>1, <3>1 DEF HubInv, FilesKept
  <2>2. CASE x # s
    BY <1>5, <1>6, <2>2 DEF HubInv, UploadsKeep, Behind
  <2> QED
    BY <2>1, <2>2
<1>11. \A x \in pushed' : x \in Sheets /\ parquet'[x] # NoFile => hub'[x] = parquet'[x]
  BY <1>3, <1>6 DEF HubInv, PushedIsThere
<1>12. /\ ExportTyped(AfterWriting(e), entered')
       /\ ReadIsThere(AfterWriting(e), flags', missed', content', erased')
       /\ AfterWriting(e).at = "exporting"
  BY <1>2, <1>4 DEF ExportTyped, ReadIsThere
<1>13. ExportTyped(other, entered') /\ ReadIsThere(other, flags', missed', content', erased')
  <2>1. other.at = "exporting" /\ other.sheet # "none" => other.sheet \in Sheets
    BY <1>1 DEF ExportTyped, ExportStates
  <2> QED
    BY <1>1, <1>5, <2>1 DEF ExportTyped, ReadIsThere
<1> QED
  BY <1>7, <1>8, <1>9, <1>10, <1>11, <1>12, <1>13

\* An export that is done rests.
LEMMA UnlessDoneFits ==
  ASSUME NEW e, e.at = "exporting", ExportTyped(e, entered'),
         ReadIsThere(e, flags', missed', content', erased')
  PROVE  /\ UnlessDone(e).at \in {"resting", "exporting"}
         /\ ExportTyped(UnlessDone(e), entered')
         /\ ReadIsThere(UnlessDone(e), flags', missed', content', erased')
<1>1. Resting.at = "resting"
  BY DEF Resting
<1> QED
  BY <1>1 DEF UnlessDone, ExportTyped, ReadIsThere

LEMMA ForcedReadsKeeps ==
  ASSUME HubInv, NEW s \in Sheets, ForcedReads(s)
  PROVE  HubInv'
<1>0. /\ ReadSheet(forced, s) /\ forced' = UnlessDone(AfterReading(forced, s))
      /\ UNCHANGED <<content, parquet, newer, pushed, hub, flags, push, load, entered, erased,
                     missed, unseen, bypassed>>
  BY DEF ForcedReads
<1> DEFINE f == AfterReading(forced, s)
<1>1. /\ f.at = "exporting"
      /\ ExportTyped(f, entered')
      /\ ReadIsThere(f, flags', missed', content', erased')
      /\ based \subseteq based'
  BY <1>0, AfterReadingFits
<1> HIDE DEF f
<1>2. /\ forced'.at \in {"resting", "exporting"}
      /\ ExportTyped(forced', entered')
      /\ ReadIsThere(forced', flags', missed', content', erased')
  BY <1>0, <1>1, UnlessDoneFits DEF f, ExportTyped, ReadIsThere
<1>3. TablesTyped' /\ NewerIsCurrent' /\ FilesKept' /\ UploadsKeep'
  BY <1>0, <1>1, FilesLeft
<1>4. MovesTyped'
  BY <1>0, <1>2 DEF HubInv, MovesTyped, ExportTyped
<1>5. PushedIsThere' /\ ReadIsThere(push', flags', missed', content', erased')
  BY <1>0 DEF HubInv, PushedIsThere, ReadIsThere
<1> QED
  BY <1>2, <1>3, <1>4, <1>5 DEF HubInv

LEMMA PushReadsKeeps ==
  ASSUME HubInv, NEW s \in Sheets, PushReads(s)
  PROVE  HubInv'
<1>0. /\ ReadSheet(push, s) /\ push' = AfterReading(push, s)
      /\ UNCHANGED <<content, parquet, newer, pushed, hub, flags, forced, load, entered, erased,
                     missed, unseen, bypassed>>
  BY DEF PushReads
<1>1. /\ push'.at = "exporting"
      /\ ExportTyped(push', entered')
      /\ ReadIsThere(push', flags', missed', content', erased')
      /\ based \subseteq based'
      /\ push.at = "exporting"
  BY <1>0, AfterReadingFits DEF ExportTyped, ReadIsThere, ReadSheet
<1>2. TablesTyped' /\ NewerIsCurrent' /\ FilesKept' /\ UploadsKeep'
  BY <1>0, <1>1, FilesLeft
<1>3. MovesTyped'
  BY <1>0, <1>1 DEF HubInv, MovesTyped, ExportTyped
<1>4. PushedIsThere' /\ ReadIsThere(forced', flags', missed', content', erased')
  BY <1>0, <1>1 DEF HubInv, PushedIsThere, ReadIsThere
<1> QED
  BY <1>1, <1>2, <1>3, <1>4 DEF HubInv

LEMMA ForcedWritesKeeps ==
  ASSUME HubInv, ForcedWrites
  PROVE  HubInv'
<1>0. /\ WriteSheet(forced, push) /\ forced' = UnlessDone(AfterWriting(forced))
      /\ Renews(forced.sheet)
      /\ UNCHANGED <<content, based, hub, flags, load, entered, erased, unseen, bypassed>>
  BY DEF ForcedWrites
<1> DEFINE f == AfterWriting(forced)
<1>1. /\ TablesTyped' /\ NewerIsCurrent' /\ FilesKept' /\ UploadsKeep'
      /\ \A s \in pushed' : s \in Sheets /\ parquet'[s] # NoFile => hub'[s] = parquet'[s]
      /\ ExportTyped(f, entered')
      /\ ReadIsThere(f, flags', missed', content', erased')
      /\ f.at = "exporting"
  BY <1>0, WriteSheetKeeps
<1>2. \A other \in {push} : /\ ExportTyped(other, entered')
                           /\ ReadIsThere(other, flags', missed', content', erased')
  BY <1>0, WriteSheetKeeps
<1> HIDE DEF f
<1>3. /\ forced'.at \in {"resting", "exporting"}
      /\ ExportTyped(forced', entered')
      /\ ReadIsThere(forced', flags', missed', content', erased')
  BY <1>0, <1>1, UnlessDoneFits DEF f, ExportTyped, ReadIsThere
<1>4. /\ ExportTyped(push', entered')
      /\ ReadIsThere(push', flags', missed', content', erased')
      /\ push'.at = push.at
      /\ push.at \in {"uploading", "marking"} =>
           push' = [at |-> push.at, files |-> push.files, listed |-> push.listed \ {forced.sheet}]
      /\ push.at \notin {"uploading", "marking"} => push' = push
  <2>1. CASE push.at \in {"uploading", "marking"}
    BY <1>0, <2>1 DEF Renews, HubInv, MovesTyped, ExportTyped, ReadIsThere
  <2>2. CASE push.at \notin {"uploading", "marking"}
    BY <1>0, <1>2, <2>2 DEF Renews, ExportTyped, ReadIsThere
  <2> QED
    BY <2>1, <2>2
<1>5. MovesTyped'
  BY <1>0, <1>3, <1>4 DEF HubInv, MovesTyped
<1>6. PushedIsThere'
  <2>1. \A s \in Sheets : s # forced.sheet => parquet'[s] = parquet[s]
    BY <1>0 DEF WriteSheet, HubInv, TablesTyped
  <2>2. ASSUME push'.at = "marking", NEW s \in push'.listed, parquet'[s] # NoFile
        PROVE  hub'[s] = parquet'[s]
    <3>1. push.at = "marking" /\ s \in push.listed /\ s # forced.sheet /\ s \in Sheets
      BY <1>4, <2>2 DEF HubInv, MovesTyped
    <3> QED
      BY <1>0, <2>1, <2>2, <3>1 DEF HubInv, PushedIsThere
  <2> QED
    BY <1>1, <2>2 DEF PushedIsThere
<1> QED
  BY <1>1, <1>3, <1>4, <1>5, <1>6 DEF HubInv

LEMMA PushWritesKeeps ==
  ASSUME HubInv, PushWrites
  PROVE  HubInv'
<1>0. /\ WriteSheet(push, forced) /\ push' = AfterWriting(push)
      /\ UNCHANGED <<content, based, hub, flags, forced, load, entered, erased, unseen, bypassed>>
  BY DEF PushWrites
<1>1. /\ TablesTyped' /\ NewerIsCurrent' /\ FilesKept' /\ UploadsKeep'
      /\ \A s \in pushed' : s \in Sheets /\ parquet'[s] # NoFile => hub'[s] = parquet'[s]
      /\ ExportTyped(push', entered')
      /\ ReadIsThere(push', flags', missed', content', erased')
      /\ push'.at = "exporting"
      /\ ExportTyped(forced', entered') /\ ReadIsThere(forced', flags', missed', content', erased')
  BY <1>0, WriteSheetKeeps DEF ExportTyped, ReadIsThere
<1>2. push.at = "exporting"
  BY <1>0 DEF WriteSheet
<1>3. MovesTyped'
  BY <1>0, <1>1, <1>2 DEF HubInv, MovesTyped
<1>4. PushedIsThere'
  BY <1>1 DEF PushedIsThere
<1> QED
  BY <1>1, <1>3, <1>4 DEF HubInv

LEMMA ForceSyncKeeps ==
  ASSUME HubInv, ForceSync
  PROVE  HubInv'
<1> DEFINE left == {s \in Sheets : OwnerOf[s] \in based}
           e == Exporting(left)
<1>0. /\ flags' = [flags EXCEPT !.attempted = TRUE]
      /\ bypassed' = (bypassed \/ (~flags.attempted /\ unseen # {}))
      /\ forced' = UnlessDone(e)
      /\ UNCHANGED <<content, based, parquet, newer, pushed, hub, push, load, entered, erased,
                     missed, unseen>>
  BY DEF ForceSync, disk
<1>1. flags' \in [synced : BOOLEAN, pending : BOOLEAN, attempted : BOOLEAN] /\ flags'.attempted
  BY <1>0 DEF HubInv, MovesTyped
<1>2. e \in ExportStates /\ e.at = "exporting" /\ e.sheet = "none"
  BY DEF Exporting, ExportStates
<1> HIDE DEF e
<1>3. ExportTyped(e, entered') /\ ReadIsThere(e, flags', missed', content', erased')
  BY <1>1, <1>2 DEF ExportTyped, ReadIsThere
<1>4. /\ forced'.at \in {"resting", "exporting"} /\ ExportTyped(forced', entered')
      /\ ReadIsThere(forced', flags', missed', content', erased')
  BY <1>0, <1>2, <1>3, UnlessDoneFits
<1>5. TablesTyped' /\ NewerIsCurrent' /\ FilesKept' /\ UploadsKeep'
  BY <1>0, FilesLeft
<1>6. MovesTyped'
  BY <1>0, <1>1, <1>4 DEF HubInv, MovesTyped
<1>7. PushedIsThere' /\ ReadIsThere(push', flags', missed', content', erased')
  BY <1>0, <1>1 DEF HubInv, PushedIsThere, ReadIsThere
<1> QED
  BY <1>4, <1>5, <1>6, <1>7 DEF HubInv

\* Steps of the push alone.
LEMMA PushLeft ==
  ASSUME HubInv, UNCHANGED <<content, based, parquet, newer, hub, entered, erased, unseen, missed,
                             bypassed, flags, forced>>
  PROVE  TablesTyped' /\ NewerIsCurrent' /\ FilesKept' /\ UploadsKeep'
         /\ ReadIsThere(forced', flags', missed', content', erased')
BY FilesLeft DEF HubInv

LEMMA BeginPushKeeps ==
  ASSUME HubInv, BeginPush
  PROVE  HubInv'
<1>0. /\ push' = Exporting(ToExport) /\ load = Resting
      /\ UNCHANGED <<content, based, parquet, newer, pushed, hub, flags, forced, load, entered,
                     erased, missed, unseen, bypassed>>
  BY DEF BeginPush, disk
<1>1. /\ push' \in ExportStates /\ push'.at = "exporting" /\ push'.sheet = "none"
      /\ push'.left # {} => flags.attempted
  BY <1>0 DEF Exporting, ExportStates, ToExport
<1>2. /\ ExportTyped(push', entered') /\ ReadIsThere(push', flags', missed', content', erased')
  BY <1>0, <1>1 DEF ExportTyped, ReadIsThere
<1>3. MovesTyped' /\ PushedIsThere'
  BY <1>0, <1>1, <1>2 DEF HubInv, MovesTyped, PushedIsThere
<1> QED
  BY <1>0, <1>2, <1>3, PushLeft DEF HubInv

\* A push that rests is one that has nothing to keep.
LEMMA PushRests ==
  ASSUME HubInv, push' = Resting, UNCHANGED <<forced, load, flags, hub, parquet, entered>>,
         \A s \in pushed' : s \in Sheets /\ parquet[s] # NoFile => hub[s] = parquet[s]
  PROVE  MovesTyped' /\ PushedIsThere' /\ ReadIsThere(push', flags', missed', content', erased')
<1>1. push'.at = "resting"
  BY DEF Resting
<1> QED
  BY <1>1 DEF HubInv, MovesTyped, PushedIsThere, ReadIsThere, ExportTyped

LEMMA ListFilesKeeps ==
  ASSUME HubInv, ListFiles
  PROVE  HubInv'
<1> DEFINE Taken == {s \in Sheets : parquet[s] # NoFile /\ s \notin pushed}
<1>0. /\ push' = IF Taken = {} THEN Resting
                 ELSE [at |-> "uploading", files |-> Taken, listed |-> Taken]
      /\ UNCHANGED <<content, based, parquet, newer, pushed, hub, flags, forced, load, entered,
                     erased, missed, unseen, bypassed>>
  BY DEF ListFiles, disk
<1>1. CASE Taken = {}
  BY <1>0, <1>1, PushRests, PushLeft DEF HubInv, PushedIsThere
<1>2. CASE Taken # {}
  <2>1. /\ push'.at = "uploading" /\ push'.listed = Taken /\ push'.files = Taken
        /\ push' = [at |-> push'.at, files |-> push'.files, listed |-> push'.listed]
    BY <1>0, <1>2
  <2>2. MovesTyped' /\ PushedIsThere' /\ ReadIsThere(push', flags', missed', content', erased')
    BY <1>0, <2>1 DEF HubInv, MovesTyped, PushedIsThere, ReadIsThere, ExportTyped
  <2> QED
    BY <1>0, <2>2, PushLeft DEF HubInv
<1> QED
  BY <1>1, <1>2

\* The dataset gets the files that were listed, as they are.
LEMMA UploadKeeps ==
  ASSUME HubInv, Upload
  PROVE  HubInv'
<1>0. /\ UNCHANGED <<content, based, parquet, newer, pushed, flags, forced, load, entered, erased,
                     missed, unseen, bypassed>>
      /\ push.at = "uploading"
  BY DEF Upload, disk
<1>1. CASE ~(\A s \in push.files : parquet[s] # NoFile)
  <2>1. push' = Resting /\ UNCHANGED hub
    BY <1>1 DEF Upload
  <2> QED
    BY <1>0, <2>1, PushRests, PushLeft DEF HubInv, PushedIsThere
<1>2. CASE \A s \in push.files : parquet[s] # NoFile
  <2>0. /\ hub' = [s \in Sheets |-> IF s \in push.files THEN parquet[s] ELSE hub[s]]
        /\ push' = [push EXCEPT !.at = "marking"]
    BY <1>2 DEF Upload
  <2>1. /\ push = [at |-> push.at, files |-> push.files, listed |-> push.listed]
        /\ push.listed \subseteq push.files /\ push.files \subseteq Sheets
    BY <1>0 DEF HubInv, MovesTyped
  <2>2. push' = [at |-> "marking", files |-> push.files, listed |-> push.listed]
    BY <2>0, <2>1
  <2>3. /\ push'.at = "marking" /\ push'.files = push.files /\ push'.listed = push.listed
        /\ push' = [at |-> push'.at, files |-> push'.files, listed |-> push'.listed]
    BY <2>2
  <2>4. MovesTyped'
    BY <1>0, <2>1, <2>3 DEF HubInv, MovesTyped, ExportTyped
  <2>5. \A s \in Sheets : hub'[s] = parquet[s] \/ hub'[s] = hub[s]
    BY <2>0
  <2>6. PushedIsThere'
    BY <1>0, <2>0, <2>1, <2>3 DEF HubInv, PushedIsThere
  <2>7. TablesTyped'
    BY <1>0, <2>0, <2>5 DEF HubInv, TablesTyped, FileTyped
  <2>8. NewerIsCurrent' /\ ReadIsThere(forced', flags', missed', content', erased')
        /\ ReadIsThere(push', flags', missed', content', erased')
    BY <1>0, <2>3 DEF HubInv, NewerIsCurrent, Behind, ReadIsThere
  <2>9. FilesKept'
    BY <1>0, <2>5 DEF HubInv, FilesKept, Given
  <2>10. UploadsKeep'
    BY <1>0, <2>5 DEF HubInv, UploadsKeep, Behind
  <2> QED
    BY <2>4, <2>6, <2>7, <2>8, <2>9, <2>10 DEF HubInv
<1> QED
  BY <1>1, <1>2

LEMMA UploadFailsKeeps ==
  ASSUME HubInv, UploadFails
  PROVE  HubInv'
<1>0. /\ push' = Resting
      /\ UNCHANGED <<content, based, parquet, newer, pushed, hub, flags, forced, load, entered,
                     erased, missed, unseen, bypassed>>
  BY DEF UploadFails, disk
<1> QED
  BY <1>0, PushRests, PushLeft DEF HubInv, PushedIsThere

LEMMA MarkUploadedKeeps ==
  ASSUME HubInv, MarkUploaded
  PROVE  HubInv'
<1>0. /\ push.at = "marking" /\ pushed' = pushed \cup push.listed /\ push' = Resting
      /\ UNCHANGED <<content, based, parquet, newer, hub, flags, forced, load, entered,
                     erased, missed, unseen, bypassed>>
  BY DEF MarkUploaded, disk
<1>1. \A s \in pushed' : s \in Sheets /\ parquet[s] # NoFile => hub[s] = parquet[s]
  BY <1>0 DEF HubInv, PushedIsThere
<1> QED
  BY <1>0, <1>1, PushRests, PushLeft DEF HubInv

\* Steps of the load that only end it or go on.
LEMMA LoadMoves ==
  ASSUME HubInv, UNCHANGED <<content, based, parquet, newer, pushed, hub, push, forced, entered,
                             erased, missed, unseen>>,
         flags' \in [synced : BOOLEAN, pending : BOOLEAN, attempted : BOOLEAN],
         flags.attempted => flags'.attempted, bypassed => bypassed',
         flags'.attempted => flags.attempted \/ bypassed' \/ unseen = {},
         push.at = "exporting" => load' = Resting
  PROVE  HubInv'
<1>1. TablesTyped' /\ NewerIsCurrent' /\ FilesKept' /\ UploadsKeep'
  BY FilesLeft
<1>2. MovesTyped' /\ PushedIsThere'
  BY DEF HubInv, MovesTyped, PushedIsThere
<1>3. /\ ReadIsThere(push', flags', missed', content', erased')
      /\ ReadIsThere(forced', flags', missed', content', erased')
  BY DEF HubInv, ReadIsThere
<1> QED
  BY <1>1, <1>2, <1>3 DEF HubInv

LEMMA BeginLoadKeeps ==
  ASSUME HubInv, BeginLoad
  PROVE  HubInv'
<1>1. push.at # "exporting"
  BY DEF BeginLoad, LockHeld
<1> QED
  BY <1>1, LoadMoves DEF BeginLoad, disk, HubInv, MovesTyped

LEMMA DownloadFailsKeeps ==
  ASSUME HubInv, DownloadFails
  PROVE  HubInv'
BY LoadMoves DEF DownloadFails, disk, HubInv, MovesTyped

LEMMA ImportFailsKeeps ==
  ASSUME HubInv, ImportFails
  PROVE  HubInv'
BY LoadMoves DEF ImportFails, disk, HubInv, MovesTyped

LEMMA RemoteSyncedKeeps ==
  ASSUME HubInv, RemoteSynced
  PROVE  HubInv'
<1>0. /\ flags' = [flags EXCEPT !.synced = TRUE, !.attempted = flags.attempted \/ ~flags.pending]
      /\ bypassed' = (bypassed \/ (~flags.pending /\ unseen # {}))
      /\ load' = IF flags.pending THEN Importing ELSE Resting
      /\ load.at = "downloading"
      /\ UNCHANGED <<content, based, parquet, newer, pushed, hub, push, forced, entered,
                     erased, missed, unseen>>
  BY DEF RemoteSynced, disk
<1>1. flags \in [synced : BOOLEAN, pending : BOOLEAN, attempted : BOOLEAN]
      /\ (push.at = "exporting" => load = Resting)
  BY DEF HubInv, MovesTyped
<1>2. flags' \in [synced : BOOLEAN, pending : BOOLEAN, attempted : BOOLEAN]
      /\ flags'.attempted = (flags.attempted \/ ~flags.pending)
  BY <1>0, <1>1
<1>3. push.at # "exporting"
  BY <1>0, <1>1 DEF Resting
<1> QED
  BY <1>0, <1>2, <1>3, LoadMoves

LEMMA ImportEndsKeeps ==
  ASSUME HubInv, ImportEnds
  PROVE  HubInv'
<1>0. /\ flags' = [flags EXCEPT !.pending = FALSE, !.attempted = TRUE]
      /\ bypassed' = (bypassed \/ unseen # {})
      /\ load' = Resting
      /\ UNCHANGED <<content, based, parquet, newer, pushed, hub, push, forced, entered,
                     erased, missed, unseen>>
  BY DEF ImportEnds, disk
<1>1. flags' \in [synced : BOOLEAN, pending : BOOLEAN, attempted : BOOLEAN] /\ flags'.attempted
  BY <1>0 DEF HubInv, MovesTyped
<1> QED
  BY <1>0, <1>1, LoadMoves

LEMMA DownloadFileKeeps ==
  ASSUME HubInv, NEW s \in Sheets, DownloadFile(s)
  PROVE  HubInv'
<1>0. /\ load.at = "downloading"
      /\ parquet' = [parquet EXCEPT ![s] = hub[s]] /\ newer' = newer \cup {s}
      /\ pushed' = pushed \ {s} /\ flags' = [flags EXCEPT !.pending = TRUE]
      /\ unseen' = unseen \cup {s} /\ Renews(s)
      /\ UNCHANGED <<content, based, hub, forced, entered, erased, missed, bypassed>>
  BY DEF DownloadFile
<1>1. push.at # "exporting"
  BY <1>0 DEF HubInv, MovesTyped, Resting
<1>2. \A x \in Sheets : parquet'[x] = IF x = s THEN hub[s] ELSE parquet[x]
  BY <1>0 DEF HubInv, TablesTyped
<1>3. flags' \in [synced : BOOLEAN, pending : BOOLEAN, attempted : BOOLEAN]
      /\ flags'.attempted = flags.attempted
  BY <1>0 DEF HubInv, MovesTyped
<1>4. TablesTyped'
  BY <1>0, <1>2 DEF HubInv, TablesTyped, FileTyped
<1>5. NewerIsCurrent'
  BY <1>0, <1>2 DEF HubInv, NewerIsCurrent, Behind
<1>6. /\ push'.at = push.at
      /\ push.at \in {"uploading", "marking"} =>
           push' = [at |-> push.at, files |-> push.files, listed |-> push.listed \ {s}]
  BY <1>0 DEF Renews, HubInv, MovesTyped
<1>7. MovesTyped'
  BY <1>0, <1>1, <1>3, <1>6 DEF HubInv, MovesTyped, ExportTyped
<1>8. PushedIsThere'
  <2>1. ASSUME push'.at = "marking", NEW x \in push'.listed, parquet'[x] # NoFile
        PROVE  hub'[x] = parquet'[x]
    <3>1. push.at = "marking" /\ x \in push.listed /\ x # s /\ x \in Sheets
      BY <1>6, <2>1 DEF HubInv, MovesTyped
    <3> QED
      BY <1>0, <1>2, <2>1, <3>1 DEF HubInv, PushedIsThere
  <2> QED
    BY <1>0, <1>2, <2>1 DEF HubInv, PushedIsThere
<1>9. FilesKept'
  BY <1>0, <1>2, <1>3 DEF HubInv, FilesKept, Given
<1>10. UploadsKeep'
  BY <1>0, <1>2 DEF HubInv, UploadsKeep, Behind
<1>11. /\ ReadIsThere(push', flags', missed', content', erased')
       /\ ReadIsThere(forced', flags', missed', content', erased')
  BY <1>0, <1>1, <1>3, <1>6 DEF HubInv, ReadIsThere
<1> QED
  BY <1>4, <1>5, <1>7, <1>8, <1>9, <1>10, <1>11 DEF HubInv

LEMMA ImportSheetKeeps ==
  ASSUME HubInv, NEW s \in Sheets, ImportSheet(s)
  PROVE  HubInv'
<1> DEFINE known == s \in Main \/ OwnerOf[s] \in load.made \/ OwnerOf[s] \in based
           rows  == IF parquet[s] = NoFile THEN {} ELSE parquet[s]
<1>0. /\ load.at = "importing"
      /\ UNCHANGED <<parquet, pushed, hub, flags, push, forced, entered, bypassed>>
  BY DEF ImportSheet
<1>1. push.at # "exporting"
  BY <1>0 DEF HubInv, MovesTyped, Resting
<1>2. CASE ~known
  <2>1. UNCHANGED <<content, based, newer, missed, erased, unseen>>
    BY <1>2 DEF ImportSheet
  <2> QED
    BY <1>0, <1>1, <2>1, LoadMoves DEF HubInv, MovesTyped
<1>3. CASE known
  <2>1. /\ content' = [content EXCEPT ![s] = rows]
        /\ based' = based \cup {OwnerOf[s]} /\ newer' = newer \ OfProject(OwnerOf[s])
        /\ unseen' = IF parquet[s] = hub[s] THEN unseen \ {s} ELSE unseen
        /\ missed' = missed \cup (Reading \cap {s})
        /\ erased' = erased \cup (content[s] \ rows)
    BY <1>3 DEF ImportSheet, Touch
  <2>2. rows \in SUBSET HubRows /\ rows \subseteq RowsOfSheet(s) \cap entered
        /\ (parquet[s] # NoFile => rows = parquet[s])
    BY DEF HubInv, TablesTyped, FileTyped
  <2> HIDE DEF rows, known
  <2>3. /\ content[s] \ rows \subseteq erased'
        /\ erased \subseteq erased'
        /\ entered \subseteq entered'
        /\ OwnerOf[s] \in based' /\ based \subseteq based' /\ unseen' \subseteq unseen
        /\ rows \subseteq RowsOfSheet(s) \cap entered'
        /\ \A x \in unseen \ unseen' : x = s /\ parquet[s] = hub[s]
                                       /\ (parquet[s] # NoFile => rows = parquet[s])
    BY <1>0, <2>1, <2>2
  <2>4. TablesTyped' /\ NewerIsCurrent' /\ PushedIsThere' /\ FilesKept' /\ UploadsKeep'
        /\ ReadIsThere(push', flags', missed', content', erased')
        /\ ReadIsThere(forced', flags', missed', content', erased')
    BY <1>0, <2>1, <2>2, <2>3, TableChanges
  <2>5. MovesTyped'
    BY <1>0, <1>1 DEF HubInv, MovesTyped
  <2> QED
    BY <2>4, <2>5 DEF HubInv
<1> QED
  BY <1>2, <1>3

LEMMA RestartSpaceKeeps ==
  ASSUME HubInv, NEW kept \in BOOLEAN, RestartSpace(kept)
  PROVE  HubInv'
<1>0. /\ flags' = FirstFlags /\ push' = Resting /\ forced' = Resting /\ load' = Resting
      /\ pushed' = {} /\ UNCHANGED <<hub, entered, erased, bypassed>>
  BY DEF RestartSpace
<1>1. MovesTyped' /\ PushedIsThere' /\ ~flags'.attempted
      /\ ReadIsThere(push', flags', missed', content', erased')
      /\ ReadIsThere(forced', flags', missed', content', erased')
  BY <1>0 DEF MovesTyped, PushedIsThere, ReadIsThere, ExportTyped, FirstFlags, Resting
<1>2. CASE kept
  <2>1. UNCHANGED <<content, based, parquet, newer, missed, unseen>>
    BY <1>2 DEF RestartSpace, disk
  <2> QED
    BY <1>0, <1>1, <2>1, FilesLeft DEF HubInv
<1>3. CASE ~kept
  <2>1. /\ content' = [s \in Sheets |-> {}] /\ based' = {}
        /\ parquet' = [s \in Sheets |-> NoFile] /\ newer' = {} /\ missed' = {}
        /\ unseen' = {s \in Sheets : hub[s] # NoFile}
    BY <1>3 DEF RestartSpace
  <2>2. TablesTyped'
    BY <1>0, <2>1 DEF HubInv, TablesTyped, FileTyped
  <2>3. NewerIsCurrent' /\ FilesKept' /\ UploadsKeep'
    BY <1>0, <1>1, <2>1 DEF NewerIsCurrent, FilesKept, UploadsKeep, Given
  <2> QED
    BY <1>1, <2>2, <2>3 DEF HubInv
<1> QED
  BY <1>2, <1>3

LEMMA HubInvNext == HubInv /\ [HubNext]_hubVars => HubInv'
<1> SUFFICES ASSUME HubInv, [HubNext]_hubVars PROVE HubInv'
  OBVIOUS
<1>1. CASE UNCHANGED hubVars
  <2>1. UNCHANGED <<content, based, parquet, newer, pushed, hub, flags, push, forced, load, entered,
                    erased, missed, unseen, bypassed>>
    BY <1>1 DEF hubVars
  <2> QED
    BY <2>1, LoadMoves DEF HubInv, MovesTyped
<1>2. CASE HubNext
  <2>1. CASE \E r \in HubRows : InsertRow(r) \/ DeleteRow(r)
    BY <2>1, InsertRowKeeps, DeleteRowKeeps
  <2>2. CASE (\E p \in HubProjects : DeleteMirrored(p)) \/ \E kept \in BOOLEAN : RestartSpace(kept)
    BY <2>2, DeleteMirroredKeeps, RestartSpaceKeeps
  <2>3. CASE ForceSync \/ ForcedWrites
    BY <2>3, ForceSyncKeeps, ForcedWritesKeeps
  <2>4. CASE BeginPush \/ PushWrites \/ ListFiles \/ Upload \/ UploadFails \/ MarkUploaded
    BY <2>4, BeginPushKeeps, PushWritesKeeps, ListFilesKeeps, UploadKeeps, UploadFailsKeeps,
       MarkUploadedKeeps
  <2>5. CASE BeginLoad \/ DownloadFails \/ RemoteSynced \/ ImportFails \/ ImportEnds
    BY <2>5, BeginLoadKeeps, DownloadFailsKeeps, RemoteSyncedKeeps, ImportFailsKeeps,
       ImportEndsKeeps
  <2>6. CASE \E s \in Sheets : ForcedReads(s) \/ PushReads(s) \/ DownloadFile(s) \/ ImportSheet(s)
    BY <2>6, ForcedReadsKeeps, PushReadsKeeps, DownloadFileKeeps, ImportSheetKeeps
  <2> QED
    BY <1>2, <2>1, <2>2, <2>3, <2>4, <2>5, <2>6 DEF HubNext
<1> QED
  BY <1>1, <1>2

LEMMA HubInvGives == HubInv => HubTypeOK /\ MirrorFresh
<1> SUFFICES ASSUME HubInv PROVE HubTypeOK /\ MirrorFresh
  OBVIOUS
<1>1. HubTypeOK
  BY DEF HubInv, TablesTyped, MovesTyped, FileTyped, HubTypeOK, RowsOfSheet
<1>2. MirrorFresh
  BY DEF HubInv, NewerIsCurrent, PushedIsThere, MirrorFresh
<1> QED
  BY <1>1, <1>2

\* What a step of the mirror may do to a file of the dataset.
Archived == \A s \in Sheets \ (IF bypassed THEN Behind ELSE missed) : hub[s] # NoFile =>
              /\ hub[s] \ hub'[s] \subseteq erased
              /\ flags.attempted /\ load = Resting => hub[s] \subseteq content[s] \cup erased

LEMMA StepsArchive == HubInv /\ [HubNext]_hubVars => [Archived]_hubVars
<1> SUFFICES ASSUME HubInv, HubNext,
                    NEW s \in Sheets \ (IF bypassed THEN Behind ELSE missed), hub[s] # NoFile
             PROVE  /\ hub[s] \ hub'[s] \subseteq erased
                    /\ flags.attempted /\ load = Resting => hub[s] \subseteq content[s] \cup erased
  BY DEF Archived
<1>1. ASSUME flags.attempted
      PROVE  hub[s] \subseteq content[s] \cup erased
  <2>1. Given(s)
    BY <1>1 DEF Given, Behind
  <2> QED
    BY <2>1 DEF HubInv, FilesKept
<1>2. hub'[s] = hub[s] \/ (hub'[s] = parquet[s] /\ parquet[s] # NoFile)
  <2>1. CASE Upload
    BY <2>1 DEF Upload
  <2>2. CASE ~Upload
    <3>1. UNCHANGED hub
      BY <2>2 DEF HubNext, InsertRow, DeleteRow, DeleteMirrored, ForceSync, ForcedWrites, BeginPush,
         PushWrites, ListFiles, UploadFails, MarkUploaded, BeginLoad, DownloadFails, RemoteSynced,
         ImportFails, ImportEnds, ForcedReads, PushReads, DownloadFile, ImportSheet, RestartSpace
    <3> QED
      BY <3>1
  <2> QED
    BY <2>1, <2>2
<1>3. hub[s] \ hub'[s] \subseteq erased
  BY <1>2 DEF HubInv, UploadsKeep
<1> QED
  BY <1>1, <1>3

\* export_to_parquet and the commit scheduler: a parquet file taken for current holds what
\* the table holds, and one taken for uploaded is the one in the dataset.
THEOREM MirrorIsFresh == HubSpec => [](HubTypeOK /\ MirrorFresh)
  BY HubInvInit, HubInvNext, HubInvGives, PTL DEF HubSpec

\* What the export, the scheduler and the load of the dataset do to it: no step takes a
\* row from it that nobody deleted.
THEOREM MirrorArchives == HubSpec => ArchivedKept
<1>1. HubSpec => []HubInv
  BY HubInvInit, HubInvNext, PTL DEF HubSpec
<1>2. HubSpec => [][Archived]_hubVars
  BY <1>1, StepsArchive, PTL DEF HubSpec
<1> QED
  BY <1>2 DEF ArchivedKept, Archived

----------------------------------------------------------------------------
(***************************************************************************)
(* The runs in the databases.                                              *)
(***************************************************************************)

Places == Projects \X Names

\* A row as the table has it; its copy number is whatever it is.
RowFits(row) ==
  /\ row \in [rec : logged, run : Runs, name : Names, full : BOOLEAN,
              dir : {<< >>} \cup Places, copy : {row.copy}]
  /\ row.run = RunOf[row.rec]
  /\ row.dir # << >> => row.rec \in WithMedia

Working == {"rename", "move", "leave"}

TaskTyped(t) ==
  \/ t = Idle
  \/ t = [op |-> "empty", from |-> t.from] /\ t.from \in Projects
  \/ /\ t = [op |-> "rename", from |-> t.from, to |-> t.to, rows |-> t.rows]
     /\ t.from \in Places /\ t.to \in Places /\ t.from[1] = t.to[1]
     /\ \A row \in t.rows : RowFits(row)
  \/ /\ t.op \in {"move", "leave"}
     /\ t = [op |-> t.op, from |-> t.from, to |-> t.to, rows |-> t.rows, links |-> t.links]
     /\ t.from \in Places /\ t.to \in Places /\ t.from[1] # t.to[1]
     /\ \A row \in t.rows : RowFits(row)

RunsTyped ==
  /\ base = [p \in Projects |-> base[p]]
  /\ \A p \in Projects : \A row \in base[p] : RowFits(row)
  /\ logged \subseteq Records /\ saved \subseteq WithMedia /\ logged \cap WithMedia \subseteq saved
  /\ files \subseteq Projects \X Names \X saved
  /\ rewritten \subseteq logged /\ doubled \subseteq strayed
  /\ projectCount \in [repeat : Nat, manage : Nat, cut : Nat]
  /\ locked \in [Projects -> Managers \cup {Unlocked}]
  /\ managing = [m \in Managers |-> managing[m]]
  /\ \A m \in Managers : TaskTyped(managing[m])

\* The projects that an operation has locked.
Owns(t) == IF t.op \in Working THEN {t.from[1], t.to[1]} ELSE {}

LocksFit == \A p \in Projects, m \in Managers : locked[p] = m <=> p \in Owns(managing[m])

\* What an operation has in hand is in its databases, old or new.
TaskRows(t) ==
  /\ t.op \in Working => \A row \in t.rows : TableOf[row.rec] \in {"metrics", "traces"}
                                                => row.rec \in rewritten
  /\ t.op = "rename" =>
       \A row \in t.rows : Renamed(t.from[1], row, t.from[2], t.to[2]) \in base[t.from[1]]
  /\ t.op \in {"move", "leave"} =>
       /\ t.rows \cup t.links \subseteq base[t.from[1]]
       /\ \A row \in t.links : TableOf[row.rec] = "links"
       /\ \A row \in t.rows : row.rec \in rewritten /\ \E x \in base[t.to[1]] : x.rec = row.rec

\* Of a record, another config of the run stands for it as well.
Stands(r, e) == \/ r = e
                \/ TableOf[r] = "configs" /\ TableOf[e] = "configs" /\ RunOf[r] = RunOf[e]

Lives == \A e \in logged : RunOf[e] \notin disowned /\ TableOf[e] # "links" =>
            \E p \in Projects : \E row \in base[p] : Stands(row.rec, e)

\* A record whose rows, if it has several, are not repetitions of each other that
\* the database cannot tell apart.
Sole(e) == (projectCount.repeat > 0 => e \notin rewritten) /\ e \notin doubled

\* The row x of p is about to be deleted, for one in q.
Leaving(p, x, q) == \E m \in Managers : /\ managing[m].op \in {"move", "leave"}
                                        /\ p = managing[m].from[1] /\ x \in managing[m].rows
                                        /\ q = managing[m].to[1]

Alone == \A p, q \in Projects : \A x \in base[p], y \in base[q] :
            x.rec = y.rec /\ Sole(x.rec) =>
               (p = q /\ x = y) \/ Leaving(p, x, q) \/ Leaving(q, y, p)

\* A record that was never rewritten is where it was logged.
Unmoved == \A p \in Projects : \A x \in base[p] : x.rec \notin rewritten =>
              /\ p = Home
              /\ TableOf[x.rec] \in {"metrics", "system_metrics"} => x.full
              /\ x.dir # << >> => x.dir = <<Home, NameAt[RunOf[x.rec]]>>

FileAt(d, e) == <<d[1], d[2], e>> \in files

Origin == \A e \in saved \ (strayed \cup rewritten) : FileAt(<<Home, NameAt[RunOf[e]]>>, e)

\* An operation has the record in hand.
HasInHand(t, e) == t.op \in Working /\ \E row \in t.rows : row.rec = e

Found == \A p \in Projects : \A x \in base[p] :
            projectCount.repeat = 0 /\ x.dir # << >> /\ x.rec \notin strayed
            /\ (\A m \in Managers : ~HasInHand(managing[m], x.rec)) => FileAt(x.dir, x.rec)

Readdress(d, from, to) == IF d = from THEN to ELSE d

\* What is in hand has its file in the old place, and then in the new one.
Carried(t) ==
  t.op \in Working /\ projectCount.repeat = 0 =>
    \A row \in t.rows : row.rec \notin strayed =>
      /\ t.op \in {"rename", "move"} /\ row.dir # << >> => FileAt(row.dir, row.rec)
      /\ t.op \in {"move", "leave"} =>
           \A x \in base[t.to[1]] : x.rec = row.rec => x.dir = Readdress(row.dir, t.from, t.to)
      /\ t.op = "leave" /\ row.dir # << >> => FileAt(Readdress(row.dir, t.from, t.to), row.rec)

TasksFit == \A m \in Managers : TaskRows(managing[m]) /\ Carried(managing[m])

RunsInv == /\ RunsTyped /\ LocksFit /\ Lives /\ Alone /\ Unmoved /\ Origin /\ Found /\ TasksFit

----------------------------------------------------------------------------

LEMMA RunsInvInit == ProjectInit => RunsInv
<1> SUFFICES ASSUME ProjectInit PROVE RunsInv
  OBVIOUS
<1>1. RunsTyped
  BY ProjectRunsAssumption DEF ProjectInit, RunsTyped, TaskTyped
<1>2. LocksFit /\ TasksFit
  BY ProjectRunsAssumption
  DEF ProjectInit, LocksFit, Owns, Idle, Working, TasksFit, TaskRows, Carried
<1>3. Lives /\ Alone /\ Unmoved /\ Origin /\ Found
  BY DEF ProjectInit, Lives, Alone, Unmoved, Origin, Found
<1> QED
  BY <1>1, <1>2, <1>3 DEF RunsInv

\* The shape of what an operation has in hand.
LEMMA TaskShape ==
  ASSUME RunsInv, NEW m \in Managers, managing[m].op \in Working
  PROVE  /\ managing[m].from \in Places /\ managing[m].to \in Places
         /\ locked[managing[m].from[1]] = m /\ locked[managing[m].to[1]] = m
         /\ \A row \in managing[m].rows : RowFits(row)
         /\ managing[m].op = "rename" =>
              managing[m].from[1] = managing[m].to[1]
         /\ managing[m].op # "rename" => managing[m].from[1] # managing[m].to[1]
<1>1. TaskTyped(managing[m])
  BY DEF RunsInv, RunsTyped
<1>2. managing[m] # Idle /\ managing[m].op # "empty"
  BY DEF Idle, Working
<1>3. /\ managing[m].from \in Places /\ managing[m].to \in Places
      /\ \A row \in managing[m].rows : RowFits(row)
      /\ managing[m].op = "rename" => managing[m].from[1] = managing[m].to[1]
      /\ managing[m].op # "rename" => managing[m].from[1] # managing[m].to[1]
  BY <1>1, <1>2 DEF TaskTyped
<1>4. managing[m].from[1] \in Projects /\ managing[m].to[1] \in Projects
  BY <1>3 DEF Places
<1> QED
  BY <1>3, <1>4 DEF RunsInv, LocksFit, Owns

\* Only a working operation holds a lock.
LEMMA LockedByWork ==
  ASSUME RunsInv, NEW p \in Projects, NEW m \in Managers, locked[p] = m
  PROVE  /\ managing[m].op \in Working
         /\ p = managing[m].from[1] \/ p = managing[m].to[1]
BY DEF RunsInv, LocksFit, Owns

\* A record that an operation has in hand has a row in the project it comes from.
LEMMA InHandIsThere ==
  ASSUME RunsInv, NEW m \in Managers, NEW e, HasInHand(managing[m], e)
  PROVE  /\ managing[m].from[1] \in Projects
         /\ locked[managing[m].from[1]] = m
         /\ \E z \in base[managing[m].from[1]] : z.rec = e
<1> DEFINE t == managing[m]
           f == t.from[1]
<1>1. /\ t.op \in Working /\ t.from \in Places /\ locked[f] = m
      /\ \A row \in t.rows : RowFits(row)
  BY TaskShape DEF HasInHand
<1>2. f \in Projects
  BY <1>1 DEF Places
<1>3. PICK row \in t.rows : row.rec = e
  BY DEF HasInHand
<1>4. TaskRows(t)
  BY DEF RunsInv, TasksFit
<1>5. \E z \in base[f] : z.rec = e
  <2>1. CASE t.op = "rename"
    <3>1. Renamed(f, row, t.from[2], t.to[2]) \in base[f]
      BY <1>3, <1>4, <2>1 DEF TaskRows
    <3>2. Renamed(f, row, t.from[2], t.to[2]).rec = e
      BY <1>1, <1>3 DEF Renamed, Readdressed, RowFits
    <3> QED
      BY <3>1, <3>2
  <2>2. CASE t.op # "rename"
    BY <1>1, <1>3, <1>4, <2>2 DEF TaskRows, Working
  <2> QED
    BY <2>1, <2>2
<1> QED
  BY <1>1, <1>2, <1>5

\* The rows of a record that an operation has in hand are in a project it has locked.
LEMMA InHandIsLocked ==
  ASSUME RunsInv, NEW m \in Managers, NEW e, HasInHand(managing[m], e), Sole(e),
         NEW p \in Projects, NEW x \in base[p], x.rec = e
  PROVE  locked[p] = m
<1> DEFINE f == managing[m].from[1]
<1>1. f \in Projects /\ locked[f] = m
  BY InHandIsThere
<1>2. PICK z \in base[f] : z.rec = e
  BY InHandIsThere
<1>3. (p = f /\ x = z) \/ Leaving(p, x, f) \/ Leaving(f, z, p)
  BY <1>1, <1>2 DEF RunsInv, Alone
<1>4. ASSUME Leaving(p, x, f) \/ Leaving(f, z, p) PROVE locked[p] = m
  <2>1. PICK m2 \in Managers : /\ managing[m2].op \in Working
                               /\ \/ p = managing[m2].from[1] /\ f = managing[m2].to[1]
                                  \/ f = managing[m2].from[1] /\ p = managing[m2].to[1]
    BY <1>4 DEF Leaving, Working
  <2>2. locked[p] = m2 /\ locked[f] = m2
    BY <2>1, TaskShape
  <2> QED
    BY <2>2, <1>1
<1> QED
  BY <1>1, <1>3, <1>4

\* No two operations have the same record in hand.
LEMMA OneHand ==
  ASSUME RunsInv, NEW m \in Managers, NEW m2 \in Managers, NEW e, Sole(e),
         HasInHand(managing[m], e), HasInHand(managing[m2], e)
  PROVE  m = m2
<1> DEFINE f == managing[m].from[1]
<1>1. f \in Projects /\ locked[f] = m /\ \E z \in base[f] : z.rec = e
  BY InHandIsThere
<1>2. locked[f] = m2
  BY <1>1, InHandIsLocked
<1> QED
  BY <1>1, <1>2

LEMMA PlacesAreSomewhere == << >> \notin Places
BY DEF Places

\* What renaming makes of a row.
LEMMA RenamedRow ==
  ASSUME NEW p \in Projects, NEW old \in Names, NEW new \in Names, NEW row, RowFits(row),
         NEW x, x = Renamed(p, row, old, new)
  PROVE  /\ RowFits(x) /\ x.rec = row.rec /\ x.run = row.run
         /\ TableOf[x.rec] \in {"metrics", "traces"} =>
              x.dir = Readdress(row.dir, <<p, old>>, <<p, new>>)
         /\ TableOf[x.rec] \notin {"metrics", "traces"} =>
              x.dir = row.dir /\ x.full = row.full
<1> DEFINE RowsC == [rec : logged, run : Runs, name : Names, full : BOOLEAN,
                     dir : {<< >>} \cup Places, copy : {row.copy}]
<1>1. row \in RowsC /\ row.run = RunOf[row.rec] /\ (row.dir # << >> => row.rec \in WithMedia)
  BY DEF RowFits
<1>2. <<p, old>> \in Places /\ <<p, new>> \in Places
  BY DEF Places
<1>3. CASE TableOf[row.rec] \in {"metrics", "traces"}
  <2> DEFINE d == Readdress(row.dir, <<p, old>>, <<p, new>>)
             y == [row EXCEPT !.dir = d]
  <2>1. x = [[y EXCEPT !.full = FALSE] EXCEPT !.name = new]
    BY <1>3 DEF Renamed, Readdressed, Readdress
  <2>2. d \in {<< >>} \cup Places /\ (d # << >> => row.dir # << >>)
    BY <1>1, <1>2, PlacesAreSomewhere DEF Readdress
  <2>3. y \in RowsC /\ y.rec = row.rec /\ y.run = row.run /\ y.dir = d
    BY <1>1, <2>2
  <2> HIDE DEF d, y
  <2>4. x \in RowsC /\ x.rec = row.rec /\ x.run = row.run /\ x.dir = d
    BY <2>1, <2>3
  <2>5. RowFits(x)
    BY <1>1, <2>2, <2>4 DEF RowFits
  <2> QED
    BY <1>3, <2>4, <2>5 DEF d
<1>4. CASE TableOf[row.rec] \notin {"metrics", "traces"}
  <2>1. x = [row EXCEPT !.name = new]
    BY <1>4 DEF Renamed
  <2>2. x \in RowsC /\ x.rec = row.rec /\ x.run = row.run /\ x.dir = row.dir /\ x.full = row.full
    BY <1>1, <2>1
  <2>3. RowFits(x)
    BY <1>1, <2>2 DEF RowFits
  <2> QED
    BY <1>4, <2>2, <2>3
<1> QED
  BY <1>3, <1>4

\* What moving makes of a row.
LEMMA MovedRow ==
  ASSUME NEW p \in Projects, NEW q \in Projects, NEW n \in Names, NEW row, RowFits(row),
         NEW x, x = Moved(p, q, row, n)
  PROVE  /\ RowFits(x) /\ x.rec = row.rec /\ x.run = row.run
         /\ x.dir = Readdress(row.dir, <<p, n>>, <<q, n>>)
<1> DEFINE c == Cardinality({y \in base[q] : y.rec = row.rec})
           RowsC == [rec : logged, run : Runs, name : Names, full : BOOLEAN,
                     dir : {<< >>} \cup Places, copy : {row.copy, c}]
           d == Readdress(row.dir, <<p, n>>, <<q, n>>)
           g == row.full /\ TableOf[row.rec] \in {"alerts", "configs"}
           y == [row EXCEPT !.dir = d]
           z == [y EXCEPT !.name = n]
           w == [z EXCEPT !.full = g]
<1>1. row \in RowsC /\ row.run = RunOf[row.rec] /\ (row.dir # << >> => row.rec \in WithMedia)
  BY DEF RowFits
<1>2. <<p, n>> \in Places /\ <<q, n>> \in Places
  BY DEF Places
<1>3. d \in {<< >>} \cup Places /\ (d # << >> => row.dir # << >>)
  BY <1>1, <1>2, PlacesAreSomewhere DEF Readdress
<1>4. y \in RowsC /\ y.rec = row.rec /\ y.run = row.run /\ y.dir = d /\ y.full = row.full
  BY <1>1, <1>3
<1>5. z \in RowsC /\ z.rec = row.rec /\ z.run = row.run /\ z.dir = d /\ z.full = row.full
  <2> HIDE DEF y, d
  <2> QED
    BY <1>4
<1>6. w \in RowsC /\ w.rec = row.rec /\ w.run = row.run /\ w.dir = d
  <2>1. g \in BOOLEAN
    BY <1>1
  <2> HIDE DEF z, d, g
  <2> QED
    BY <1>5, <2>1
<1>7. x = [w EXCEPT !.copy = c]
  <2>1. Readdressed(row, <<p, n>>, <<q, n>>) = y
    BY DEF Readdressed, Readdress
  <2>2. z.full = row.full
    BY <1>5
  <2> QED
    BY <2>1, <2>2, <1>4, <1>1 DEF Moved
<1>8. x \in RowsC /\ x.rec = row.rec /\ x.run = row.run /\ x.dir = d
  <2> HIDE DEF w, d, c
  <2> QED
    BY <1>6, <1>7
<1>9. RowFits(x)
  <2> HIDE DEF d
  <2> QED
    BY <1>1, <1>3, <1>8 DEF RowFits
<1> QED
  BY <1>8, <1>9

\* Moving a directory leaves the other files where they are.
LEMMA FilesStay ==
  ASSUME NEW from \in Places, NEW to \in Places, NEW rows, NEW d \in Places, NEW e,
         MoveDir(from, to), FileAt(d, e), e \notin Disturbed(from, to, rows),
         \A row \in rows : row.rec # e
  PROVE  FileAt(d, e)'
<1> DEFINE f == <<d[1], d[2], e>>
           gone == Dir(from[1], from[2], files)
           over == Dir(to[1], to[2], files)
<1>1. f \in files
  BY DEF FileAt
<1>2. CASE gone = {}
  BY <1>1, <1>2 DEF MoveDir, FileAt
<1>3. CASE gone # {}
  <2>1. f[3] = e
    OBVIOUS
  <2>2. {g[3] : g \in gone} # {}
    BY <1>3
  <2>3. /\ e \notin {g[3] : g \in over}
        /\ e \notin {g[3] : g \in gone} \ (IF from = to THEN {} ELSE {row.rec : row \in rows})
    BY <2>2 DEF Disturbed
  <2>4. e \notin {g[3] : g \in gone}
    BY <2>3
  <2>5. f \notin gone /\ f \notin over
    BY <2>1, <2>3, <2>4
  <2> HIDE DEF f
  <2>6. f \in files'
    BY <1>1, <1>3, <2>5 DEF MoveDir
  <2> QED
    BY <2>6 DEF FileAt, f
<1> QED
  BY <1>2, <1>3

\* It takes those of the rows it is about along.
LEMMA FilesFollow ==
  ASSUME NEW from \in Places, NEW to \in Places, NEW rows, NEW d \in Places, NEW e,
         MoveDir(from, to), FileAt(d, e), e \notin Disturbed(from, to, rows)
  PROVE  FileAt(Readdress(d, from, to), e)'
<1> DEFINE f == <<d[1], d[2], e>>
           gone == Dir(from[1], from[2], files)
           over == Dir(to[1], to[2], files)
<1>1. f \in files
  BY DEF FileAt
<1>2. CASE d = from
  <2>1. f \in gone /\ f[3] = e
    BY <1>1, <1>2 DEF Dir
  <2>2. e \in {g[3] : g \in gone}
    BY <2>1
  <2>3. from # to
    BY <2>2 DEF Disturbed
  <2>4. <<to[1], to[2], e>> \in {<<to[1], to[2], g[3]>> : g \in gone}
    BY <2>1
  <2>5. <<to[1], to[2], e>> \in files'
    BY <2>1, <2>3, <2>4 DEF MoveDir
  <2> QED
    BY <1>2, <2>5 DEF FileAt, Readdress
<1>3. CASE d # from
  <2>1. f \notin gone
    BY <1>3 DEF Dir, Places
  <2>2. CASE gone = {}
    BY <1>1, <1>3, <2>2 DEF MoveDir, FileAt, Readdress
  <2>3. CASE gone # {}
    <3>1. {g[3] : g \in gone} # {} /\ f[3] = e
      BY <2>3
    <3>2. e \notin {g[3] : g \in over}
      BY <3>1 DEF Disturbed
    <3>3. f \notin over
      BY <3>1, <3>2
    <3> HIDE DEF f
    <3>4. f \in files'
      BY <1>1, <2>1, <2>3, <3>3 DEF MoveDir
    <3> QED
      BY <1>3, <3>4 DEF FileAt, Readdress, f
  <2> QED
    BY <2>2, <2>3
<1> QED
  BY <1>2, <1>3

----------------------------------------------------------------------------
\* What stays typed while the log grows.
LEMMA RowsStayTyped ==
  ASSUME logged \subseteq logged'
  PROVE  /\ \A row : RowFits(row) => RowFits(row)'
         /\ \A t : TaskTyped(t) => TaskTyped(t)'
<1>1. ASSUME NEW row, RowFits(row) PROVE RowFits(row)'
  <2>1. [rec : logged, run : Runs, name : Names, full : BOOLEAN, dir : {<< >>} \cup Places,
         copy : {row.copy}] \subseteq
        [rec : logged', run : Runs, name : Names, full : BOOLEAN, dir : {<< >>} \cup Places,
         copy : {row.copy}]
    OBVIOUS
  <2> QED
    BY <1>1, <2>1 DEF RowFits
<1>2. ASSUME NEW t, TaskTyped(t) PROVE TaskTyped(t)'
  BY <1>1, <1>2 DEF TaskTyped
<1> QED
  BY <1>1, <1>2

\* What stays typed when one operation goes on to t.
LEMMA TasksStayTyped ==
  ASSUME RunsInv, logged \subseteq logged', NEW m \in Managers, NEW t, TaskTyped(t)',
         managing' = [managing EXCEPT ![m] = t]
  PROVE  /\ managing'[m] = t
         /\ \A m2 \in Managers \ {m} : managing'[m2] = managing[m2]
         /\ managing' = [m2 \in Managers |-> managing'[m2]]
         /\ \A m2 \in Managers : TaskTyped(managing[m2])'
<1>1. /\ managing'[m] = t
      /\ \A m2 \in Managers \ {m} : managing'[m2] = managing[m2]
      /\ managing' = [m2 \in Managers |-> managing'[m2]]
  BY DEF RunsInv, RunsTyped
<1>2. ASSUME NEW m2 \in Managers PROVE TaskTyped(managing[m2])'
  <2>1. CASE m2 = m
    BY <1>1, <2>1 DEF TaskTyped, RowFits
  <2>2. CASE m2 # m
    <3>1. TaskTyped(managing[m2])
      BY DEF RunsInv, RunsTyped
    <3>2. \A row \in managing[m2].rows : RowFits(row) => RowFits(row)'
      BY RowsStayTyped
    <3> QED
      BY <1>1, <2>2, <3>1, <3>2 DEF TaskTyped
  <2> QED
    BY <2>1, <2>2
<1> QED
  BY <1>1, <1>2

LEMMA IdleIsTyped == TaskTyped(Idle) /\ TaskTyped(Idle)'
BY DEF TaskTyped

\* An operation keeps what it has in hand while the databases it has locked stay.
LEMMA TaskRowsStay ==
  ASSUME RunsInv, NEW m \in Managers, managing'[m] = managing[m],
         \A p \in Projects : locked[p] = m => base'[p] = base[p],
         rewritten \subseteq rewritten'
  PROVE  TaskRows(managing[m])'
<1>1. TaskRows(managing[m])
  BY DEF RunsInv, TasksFit
<1>2. CASE managing[m].op \in Working
  <2>1. /\ managing[m].from[1] \in Projects /\ managing[m].to[1] \in Projects
        /\ locked[managing[m].from[1]] = m /\ locked[managing[m].to[1]] = m
    BY <1>2, TaskShape DEF Places
  <2>2. /\ base'[managing[m].from[1]] = base[managing[m].from[1]]
        /\ base'[managing[m].to[1]] = base[managing[m].to[1]]
    BY <2>1
  <2>3. PICK t : t = managing[m]
    OBVIOUS
  <2>4. TaskRows(t)'
    BY <1>1, <2>2, <2>3 DEF TaskRows, Working
  <2> QED
    BY <2>3, <2>4 DEF TaskRows
<1>3. CASE managing[m].op \notin Working
  BY <1>3 DEF TaskRows, Working
<1> QED
  BY <1>2, <1>3

\* And its files, while nothing else moves them.
LEMMA CarriedStays ==
  ASSUME RunsInv, NEW m \in Managers, managing'[m] = managing[m],
         \A p \in Projects : locked[p] = m => base'[p] = base[p],
         strayed \subseteq strayed', projectCount'.repeat = 0 => projectCount.repeat = 0,
         \A d \in Places : \A e : FileAt(d, e) /\ HasInHand(managing[m], e) /\ e \notin strayed'
                                  /\ projectCount.repeat = 0 => FileAt(d, e)'
  PROVE  Carried(managing[m])'
<1> DEFINE t == managing[m]
<1>1. CASE t.op \in Working /\ projectCount'.repeat = 0
  <2>1. /\ t.from \in Places /\ t.to \in Places
        /\ t.to[1] \in Projects /\ locked[t.to[1]] = m
        /\ \A row \in t.rows : RowFits(row)
    BY <1>1, TaskShape DEF Places
  <2>2. base'[t.to[1]] = base[t.to[1]]
    BY <2>1
  <2>3. SUFFICES ASSUME NEW row \in t.rows, row.rec \notin strayed'
                 PROVE  /\ t.op \in {"rename", "move"} /\ row.dir # << >>
                             => FileAt(row.dir, row.rec)'
                        /\ t.op \in {"move", "leave"} =>
                             \A x \in base[t.to[1]] :
                                x.rec = row.rec => x.dir = Readdress(row.dir, t.from, t.to)
                        /\ t.op = "leave" /\ row.dir # << >> =>
                              FileAt(Readdress(row.dir, t.from, t.to), row.rec)'
    BY <2>2 DEF Carried, FileAt, Readdress
  <2>4. HasInHand(t, row.rec)
    BY <1>1 DEF HasInHand
  <2>5. /\ t.op \in {"rename", "move"} /\ row.dir # << >> => FileAt(row.dir, row.rec)
        /\ t.op \in {"move", "leave"} =>
             \A x \in base[t.to[1]] :
                x.rec = row.rec => x.dir = Readdress(row.dir, t.from, t.to)
        /\ t.op = "leave" /\ row.dir # << >> => FileAt(Readdress(row.dir, t.from, t.to), row.rec)
    BY <1>1, <2>3 DEF RunsInv, TasksFit, Carried
  <2>6. row.dir # << >> => row.dir \in Places /\ Readdress(row.dir, t.from, t.to) \in Places
    BY <2>1 DEF RowFits, Readdress
  <2> QED
    BY <1>1, <2>3, <2>4, <2>5, <2>6
<1>2. CASE ~(t.op \in Working /\ projectCount'.repeat = 0)
  BY <1>2 DEF Carried
<1> QED
  BY <1>1, <1>2

LEMMA SaveMediaKeeps ==
  ASSUME RunsInv, NEW e \in Records, SaveMedia(e)
  PROVE  RunsInv'
<1> USE DEF SaveMedia
<1>1. RunsTyped'
  <2>1. /\ \A p \in Projects : \A row \in base[p] : RowFits(row)'
        /\ \A m \in Managers : TaskTyped(managing[m])'
    BY RowsStayTyped DEF RunsInv, RunsTyped
  <2>2. Home \in Projects /\ NameAt[RunOf[e]] \in Names
    BY ProjectRunsAssumption
  <2>3. files' \subseteq Projects \X Names \X saved'
    BY <2>2 DEF RunsInv, RunsTyped
  <2> QED
    BY <2>1, <2>3 DEF RunsInv, RunsTyped
<1>2. LocksFit' /\ Lives' /\ Unmoved'
  BY DEF RunsInv, LocksFit, Lives, Unmoved, Owns
<1>3. Alone'
  BY DEF RunsInv, Alone, Sole, Leaving
<1>4. Origin' /\ Found'
  BY DEF RunsInv, Origin, Found, HasInHand, FileAt
<1>5. TasksFit'
  <2> SUFFICES ASSUME NEW m \in Managers PROVE TaskRows(managing[m])' /\ Carried(managing[m])'
    BY DEF TasksFit
  <2>1. \A d \in Places : \A f : FileAt(d, f) => FileAt(d, f)'
    BY DEF FileAt
  <2> QED
    BY <2>1, TaskRowsStay, CarriedStays
<1> QED
  BY <1>1, <1>2, <1>3, <1>4, <1>5 DEF RunsInv

LEMMA RemoveDirectoriesKeeps ==
  ASSUME RunsInv, NEW m \in Managers, RemoveDirectories(m)
  PROVE  RunsInv'
<1> USE DEF RemoveDirectories
<1>1. /\ managing'[m] = Idle
      /\ \A m2 \in Managers \ {m} : managing'[m2] = managing[m2]
      /\ managing' = [m2 \in Managers |-> managing'[m2]]
      /\ \A m2 \in Managers : TaskTyped(managing[m2])'
      /\ managing[m].op = "empty"
  BY TasksStayTyped, IdleIsTyped
<1>2. \A d, f : FileAt(d, f) /\ f \notin strayed' => FileAt(d, f)'
  <2> SUFFICES ASSUME NEW d, NEW f, FileAt(d, f), f \notin strayed' PROVE FileAt(d, f)'
    OBVIOUS
  <2>1. <<d[1], d[2], f>>[3] = f
    OBVIOUS
  <2> QED
    BY <2>1 DEF FileAt
<1>3. RunsTyped'
  <2>1. \A p \in Projects : \A row \in base[p] : RowFits(row)'
    BY RowsStayTyped DEF RunsInv, RunsTyped
  <2> QED
    BY <1>1, <2>1 DEF RunsInv, RunsTyped
<1>4. LocksFit' /\ Lives' /\ Unmoved'
  BY <1>1 DEF RunsInv, LocksFit, Lives, Unmoved, Owns, Working, Idle
<1>5. Alone'
  <2>1. \A p, x, q : Leaving(p, x, q) => Leaving(p, x, q)'
    BY <1>1 DEF Leaving
  <2> QED
    BY <2>1 DEF RunsInv, Alone, Sole
<1>6. Origin'
  BY <1>2 DEF RunsInv, Origin
<1>7. Found'
  BY <1>1, <1>2 DEF RunsInv, Found, HasInHand, Working
<1>8. TasksFit'
  <2> SUFFICES ASSUME NEW m2 \in Managers PROVE TaskRows(managing[m2])' /\ Carried(managing[m2])'
    BY DEF TasksFit
  <2>1. CASE m2 = m
    BY <1>1, <2>1 DEF TaskRows, Carried, Idle, Working
  <2>2. CASE m2 # m
    BY <1>1, <1>2, <2>2, TaskRowsStay, CarriedStays
  <2> QED
    BY <2>1, <2>2
<1> QED
  BY <1>3, <1>4, <1>5, <1>6, <1>7, <1>8 DEF RunsInv

\* The counts of what has happened.
LEMMA ChargeCounts ==
  ASSUME RunsInv, NEW what \in {"repeat", "manage", "cut"}, NEW bound, Charge(what, bound)
  PROVE  /\ projectCount' \in [repeat : Nat, manage : Nat, cut : Nat]
         /\ projectCount'.repeat = 0 <=> what # "repeat" /\ projectCount.repeat = 0
BY DEF RunsInv, RunsTyped, Charge

LEMMA LogRecordKeeps ==
  ASSUME RunsInv, NEW e \in Records, LogRecord(e)
  PROVE  RunsInv'
<1> DEFINE n == NameAt[RunOf[e]]
           k == Cardinality({x \in base[Home] : x.rec = e})
           row == [rec |-> e, run |-> RunOf[e], name |-> n, full |-> TRUE,
                   dir |-> IF e \in WithMedia THEN <<Home, n>> ELSE << >>, copy |-> k]
           B == IF Conflicts(Home, e) = {} THEN base[Home] \cup {row}
                ELSE IF TableOf[e] = "configs" THEN (base[Home] \ Conflicts(Home, e)) \cup {row}
                ELSE base[Home]
<1>1. /\ locked[Home] = Unlocked
      /\ e \in WithMedia => e \in saved
      /\ base' = [base EXCEPT ![Home] = B]
      /\ logged' = logged \cup {e}
      /\ IF e \in logged THEN Charge("repeat", MaxDeliveries) ELSE UNCHANGED projectCount
      /\ UNCHANGED <<files, saved, locked, managing, disowned, rewritten, doubled, strayed>>
  BY DEF LogRecord
<1>2. /\ row.rec = e /\ row.run = RunOf[e] /\ row.full = TRUE /\ row.copy = k
      /\ row.dir = IF e \in WithMedia THEN <<Home, n>> ELSE << >>
      /\ Home \in Projects /\ RunOf[e] \in Runs /\ n \in Names /\ <<Home, n>> \in Places
  BY ProjectRunsAssumption DEF Places
<1>3. ASSUME NEW x, x = row PROVE RowFits(x)'
  <2> HIDE DEF k
  <2>1. x = [rec |-> e, run |-> RunOf[e], name |-> n, full |-> TRUE,
             dir |-> IF e \in WithMedia THEN <<Home, n>> ELSE << >>, copy |-> k]
    BY <1>3
  <2> QED
    BY <1>1, <1>2, <2>1 DEF RowFits
<1>4. /\ projectCount' \in [repeat : Nat, manage : Nat, cut : Nat]
      /\ projectCount'.repeat = 0 <=> e \notin logged /\ projectCount.repeat = 0
      /\ e \notin logged => projectCount' = projectCount
      /\ projectCount.repeat > 0 => projectCount'.repeat > 0
      /\ e \in logged => projectCount'.repeat > 0
  BY <1>1, ChargeCounts DEF RunsInv, RunsTyped, Charge
<1> HIDE DEF row, B
<1>5. /\ base' = [p \in Projects |-> base'[p]]
      /\ base'[Home] = B
      /\ \A p \in Projects \ {Home} : base'[p] = base[p]
  BY <1>1, <1>2 DEF RunsInv, RunsTyped
<1>6. /\ B \subseteq base[Home] \cup {row}
      /\ \/ B = base[Home] /\ TableOf[e] # "configs" /\ Conflicts(Home, e) # {}
         \/ row \in B /\ Conflicts(Home, e) \cap B \subseteq {row}
      /\ \A x \in base[Home] : x \in B \/ (x \in Conflicts(Home, e) /\ TableOf[e] = "configs")
  BY DEF B
<1>7. RunsTyped'
  <2>1. ASSUME NEW p \in Projects, NEW x \in base'[p] PROVE RowFits(x)'
    <3>1. x \in base[p] \/ x = row
      BY <1>5, <1>6, <2>1
    <3>2. x \in base[p] => RowFits(x)'
      BY <1>1, RowsStayTyped DEF RunsInv, RunsTyped
    <3> QED
      BY <1>3, <3>1, <3>2
  <2>2. \A m \in Managers : TaskTyped(managing[m])'
    <3> SUFFICES ASSUME NEW m \in Managers PROVE TaskTyped(managing[m])'
      OBVIOUS
    <3>1. TaskTyped(managing[m])
      BY DEF RunsInv, RunsTyped
    <3>2. \A x \in managing[m].rows : RowFits(x) => RowFits(x)'
      BY <1>1, RowsStayTyped
    <3> QED
      BY <1>1, <3>1, <3>2 DEF TaskTyped
  <2> QED
    BY <1>1, <1>4, <1>5, <2>1, <2>2 DEF RunsInv, RunsTyped
<1>8. LocksFit'
  BY <1>1 DEF RunsInv, LocksFit, Owns
<1>9. Lives'
  <2> SUFFICES ASSUME NEW f \in logged', RunOf[f] \notin disowned, TableOf[f] # "links"
               PROVE  \E p \in Projects : \E x \in base'[p] : Stands(x.rec, f)
    BY <1>1 DEF Lives, Stands
  <2>1. CASE \E p \in Projects : \E x \in base[p] : Stands(x.rec, f)
    <3>0. PICK p \in Projects : \E x \in base[p] : Stands(x.rec, f)
      BY <2>1
    <3>1. PICK x \in base[p] : Stands(x.rec, f)
      BY <3>0
    <3>2. CASE x \in base'[p]
      BY <3>1, <3>2
    <3>3. CASE x \notin base'[p]
      <4>1. p = Home /\ x \in Conflicts(Home, e) /\ TableOf[e] = "configs" /\ row \in B
        BY <3>1, <3>3, <1>5, <1>6
      <4>2. x.run = RunOf[x.rec]
        BY <3>1 DEF RunsInv, RunsTyped, RowFits
      <4>3. Stands(row.rec, f)
        BY <1>2, <3>1, <4>1, <4>2 DEF Conflicts, Stands
      <4> QED
        BY <4>1, <4>3, <1>2, <1>5
    <3> QED
      BY <3>2, <3>3
  <2>2. CASE ~ \E p \in Projects : \E x \in base[p] : Stands(x.rec, f)
    <3>1. f \notin logged
      BY <2>2 DEF RunsInv, Lives
    <3>2. f = e
      BY <1>1, <3>1
    <3>3. CASE row \in B
      BY <1>2, <1>5, <3>2, <3>3 DEF Stands
    <3>4. CASE row \notin B
      <4>1. PICK x \in Conflicts(Home, e) : TableOf[e] # "configs"
        BY <1>6, <3>4 DEF B
      <4> QED
        BY <2>2, <3>2, <4>1, <1>2 DEF Conflicts, Stands
    <3> QED
      BY <3>3, <3>4
  <2> QED
    BY <2>1, <2>2
<1>10. ASSUME NEW p \in Projects, NEW x \in base[p], x.rec = e, Sole(e)', row \in B
       PROVE  p = Home /\ x \in Conflicts(Home, e)
  <2>1. RowFits(x)
    BY <1>10 DEF RunsInv, RunsTyped
  <2>2. e \in logged
    BY <1>10, <2>1 DEF RowFits
  <2>3. e \notin rewritten
    BY <1>1, <1>4, <1>10, <2>2 DEF Sole
  <2>4. p = Home /\ (TableOf[e] \in {"metrics", "system_metrics"} => x.full)
    BY <1>10, <2>3 DEF RunsInv, Unmoved
  <2> QED
    BY <1>10, <2>4 DEF Conflicts
<1>11. Alone'
  <2>1. \A p, x, q : Leaving(p, x, q) => Leaving(p, x, q)'
    BY <1>1 DEF Leaving
  <2>2. \A f : Sole(f)' => Sole(f)
    BY <1>1, <1>4 DEF Sole
  <2> SUFFICES ASSUME NEW p \in Projects, NEW q \in Projects,
                      NEW x \in base'[p], NEW y \in base'[q],
                      x.rec = y.rec, Sole(x.rec)'
               PROVE  (p = q /\ x = y) \/ Leaving(p, x, q)' \/ Leaving(q, y, p)'
    BY DEF Alone
  <2>3. CASE x \in base[p] /\ y \in base[q]
    BY <2>1, <2>2, <2>3 DEF RunsInv, Alone
  <2>4. CASE x \notin base[p] \/ y \notin base[q]
    <3>1. x.rec = e /\ row \in B /\ Conflicts(Home, e) \cap B \subseteq {row}
      BY <2>4, <1>2, <1>5, <1>6
    <3>2. p = Home /\ x = row
      <4>1. CASE x \in base[p]
        BY <1>5, <1>6, <1>10, <3>1, <4>1
      <4>2. CASE x \notin base[p]
        BY <1>5, <1>6, <4>2
      <4> QED
        BY <4>1, <4>2
    <3>3. q = Home /\ y = row
      <4>1. CASE y \in base[q]
        BY <1>5, <1>6, <1>10, <3>1, <4>1
      <4>2. CASE y \notin base[q]
        BY <1>5, <1>6, <4>2
      <4> QED
        BY <4>1, <4>2
    <3> QED
      BY <3>2, <3>3
  <2> QED
    BY <2>3, <2>4
<1>12. Unmoved'
  <2> SUFFICES ASSUME NEW p \in Projects, NEW x \in base'[p], x.rec \notin rewritten
               PROVE  /\ p = Home
                      /\ TableOf[x.rec] \in {"metrics", "system_metrics"} => x.full
                      /\ x.dir # << >> => x.dir = <<Home, NameAt[RunOf[x.rec]]>>
    BY <1>1 DEF Unmoved
  <2>1. CASE x \in base[p]
    BY <2>1 DEF RunsInv, Unmoved
  <2>2. CASE x \notin base[p]
    BY <2>2, <1>2, <1>5, <1>6
  <2> QED
    BY <2>1, <2>2
<1>13. Origin'
  BY <1>1 DEF RunsInv, Origin, FileAt
<1>14. Found'
  <2> SUFFICES ASSUME NEW p \in Projects, NEW x \in base'[p], projectCount'.repeat = 0,
                      x.dir # << >>, x.rec \notin strayed,
                      \A m \in Managers : ~HasInHand(managing[m], x.rec)
               PROVE  FileAt(x.dir, x.rec)
    BY <1>1 DEF Found, HasInHand, FileAt
  <2>1. CASE x \in base[p]
    BY <2>1, <1>4 DEF RunsInv, Found
  <2>2. CASE x \notin base[p]
    <3>1. x.rec = e /\ x.dir = <<Home, n>> /\ e \in WithMedia
      BY <2>2, <1>2, <1>5, <1>6
    <3>2. e \in saved \ (strayed \cup rewritten)
      BY <1>1, <1>4, <3>1 DEF RunsInv, RunsTyped
    <3> QED
      BY <3>1, <3>2 DEF RunsInv, Origin
  <2> QED
    BY <2>1, <2>2
<1>15. TasksFit'
  <2> SUFFICES ASSUME NEW m \in Managers PROVE TaskRows(managing[m])' /\ Carried(managing[m])'
    BY DEF TasksFit
  <2>1. \A p \in Projects : locked[p] = m => base'[p] = base[p]
    BY <1>1, <1>5, ProjectRunsAssumption
  <2>2. \A d \in Places : \A f : FileAt(d, f) => FileAt(d, f)'
    BY <1>1 DEF FileAt
  <2> QED
    BY <1>1, <1>4, <2>1, <2>2, TaskRowsStay, CarriedStays
<1> QED
  BY <1>7, <1>8, <1>9, <1>11, <1>12, <1>13, <1>14, <1>15 DEF RunsInv

\* Steps that only delete rows, of runs that somebody asked to delete, from a
\* project that is not locked.
LEMMA DisowningKeeps ==
  ASSUME RunsInv, NEW p \in Projects, NEW gone, locked[p] = Unlocked,
         base' = [base EXCEPT ![p] = @ \ gone],
         \A x \in gone \cap base[p] : x.run \in disowned', disowned \subseteq disowned',
         projectCount'.repeat = projectCount.repeat,
         \A m \in Managers : \/ managing'[m] = managing[m]
                             \/ managing[m] = Idle /\ managing'[m].op \notin Working,
         UNCHANGED <<files, saved, locked, logged, rewritten, doubled, strayed>>
  PROVE  LocksFit' /\ Lives' /\ Alone' /\ Unmoved' /\ Origin' /\ Found' /\ TasksFit'
<1>1. /\ base'[p] = base[p] \ gone
      /\ \A q \in Projects \ {p} : base'[q] = base[q]
  BY DEF RunsInv, RunsTyped
<1>2. LocksFit'
  BY DEF RunsInv, LocksFit, Owns, Working, Idle
<1>3. Lives'
  <2> SUFFICES ASSUME NEW f \in logged, RunOf[f] \notin disowned', TableOf[f] # "links"
               PROVE  \E q \in Projects : \E x \in base'[q] : Stands(x.rec, f)
    BY DEF Lives, Stands
  <2>0. PICK q \in Projects : \E x \in base[q] : Stands(x.rec, f)
    BY DEF RunsInv, Lives
  <2>1. PICK x \in base[q] : Stands(x.rec, f)
    BY <2>0
  <2>2. x.run = RunOf[f]
    BY <2>1 DEF RunsInv, RunsTyped, RowFits, Stands
  <2>3. x \in base'[q]
    BY <1>1, <2>2
  <2> QED
    BY <2>1, <2>3
<1>4. Alone'
  <2>1. \A q, x, r : Leaving(q, x, r) => Leaving(q, x, r)'
    BY DEF Leaving, Idle
  <2> QED
    BY <1>1, <2>1 DEF RunsInv, Alone, Sole
<1>5. Unmoved'
  BY <1>1 DEF RunsInv, Unmoved
<1>6. Origin'
  BY DEF RunsInv, Origin, FileAt
<1>7. Found'
  <2> SUFFICES ASSUME NEW q \in Projects, NEW x \in base'[q], projectCount.repeat = 0,
                      x.dir # << >>, x.rec \notin strayed,
                      \A m \in Managers : ~HasInHand(managing'[m], x.rec)
               PROVE  FileAt(x.dir, x.rec)
    BY DEF Found, HasInHand, FileAt
  <2>1. \A m \in Managers : ~HasInHand(managing[m], x.rec)
    BY DEF HasInHand, Idle, Working
  <2> QED
    BY <1>1, <2>1 DEF RunsInv, Found
<1>8. TasksFit'
  <2> SUFFICES ASSUME NEW m \in Managers PROVE TaskRows(managing[m])' /\ Carried(managing[m])'
    BY DEF TasksFit
  <2>1. \A q \in Projects : locked[q] = m => base'[q] = base[q]
    BY <1>1, ProjectRunsAssumption
  <2>2. \A d \in Places : \A f : FileAt(d, f) => FileAt(d, f)'
    BY DEF FileAt
  <2>3. CASE managing'[m] = managing[m]
    BY <2>1, <2>2, <2>3, TaskRowsStay, CarriedStays
  <2>4. CASE managing'[m].op \notin Working
    BY <2>4 DEF TaskRows, Carried, Working
  <2> QED
    BY <2>3, <2>4
<1> QED
  BY <1>2, <1>3, <1>4, <1>5, <1>6, <1>7, <1>8

\* A name stands for runs that have rows of the name.
LEMMA NamedHaveTheName ==
  ASSUME NEW rows, NEW n, NEW r \in NamedIn(rows, n)
  PROVE  \E row \in rows : row.name = n /\ row.run = r
BY DEF NamedIn

\* Whom a manager may mean covers the run of each row that delete_run deletes.
LEMMA DeletedAreMeant ==
  ASSUME NEW p \in Projects, NEW id, NEW n, NEW x \in Deleted(p, id, n)
  PROVE  x.run \in Meant(p, id, n)
<1> DEFINE R == Identity(p, "metrics", id, n)
           later == NamedIn(In(p, "metrics") \ Held(p, "metrics", R), n)
<1>1. \/ LinkOnly(p, id, n) /\ x \in Called(p, n)
      \/ x.run \in Identity(p, "traces", id, n)
      \/ x.run \in R
      \/ id = NoRun /\ x.run \in later
  <2>1. CASE LinkOnly(p, id, n)
    BY <2>1 DEF Deleted, Held
  <2>2. CASE ~LinkOnly(p, id, n)
    <3>1. \A table, S : x \in Held(p, table, S) => x.run \in S
      BY DEF Held
    <3> QED
      BY <2>2, <3>1 DEF Deleted
  <2> QED
    BY <2>1, <2>2
<1>2. CASE id # NoRun
  BY <1>1, <1>2 DEF LinkOnly, Identity, Meant
<1>3. CASE id = NoRun
  <2>1. \/ x \in Called(p, n)
        \/ x.run \in NamedIn(In(p, "traces"), n)
        \/ x.run \in NamedIn(In(p, "metrics"), n)
        \/ x.run \in later
    BY <1>1, <1>3 DEF Identity
  <2>2. \E row \in base[p] : row.name = n /\ row.run = x.run
    <3>1. /\ In(p, "traces") \subseteq base[p] /\ In(p, "metrics") \subseteq base[p]
          /\ In(p, "metrics") \ Held(p, "metrics", R) \subseteq base[p]
      BY DEF In
    <3> HIDE DEF R
    <3> QED
      BY <2>1, <3>1, NamedHaveTheName DEF Called
  <2> QED
    BY <1>3, <2>2 DEF Meant
<1> QED
  BY <1>2, <1>3

LEMMA DeleteRunKeeps ==
  ASSUME RunsInv, NEW p \in Projects, NEW id, NEW n, DeleteRun(p, id, n)
  PROVE  RunsInv'
<1> USE DEF DeleteRun
<1>1. /\ projectCount' \in [repeat : Nat, manage : Nat, cut : Nat]
      /\ projectCount'.repeat = projectCount.repeat
  BY ChargeCounts DEF RunsInv, RunsTyped, Charge
<1>2. RunsTyped'
  <2>1. base' = [q \in Projects |-> base'[q]]
    BY DEF RunsInv, RunsTyped
  <2>2. \A q \in Projects : base'[q] \subseteq base[q]
    BY DEF RunsInv, RunsTyped
  <2>3. /\ \A q \in Projects : \A x \in base'[q] : RowFits(x)'
        /\ \A m \in Managers : TaskTyped(managing[m])'
    BY <2>2 DEF RunsInv, RunsTyped, RowFits, TaskTyped
  <2> QED
    BY <1>1, <2>1, <2>3 DEF RunsInv, RunsTyped
<1>3. \A x \in Deleted(p, id, n) \cap base[p] : x.run \in disowned'
  BY DeletedAreMeant
<1>4. LocksFit' /\ Lives' /\ Alone' /\ Unmoved' /\ Origin' /\ Found' /\ TasksFit'
  BY <1>1, <1>3, DisowningKeeps
<1> QED
  BY <1>2, <1>4 DEF RunsInv

LEMMA UnlinkDatabaseKeeps ==
  ASSUME RunsInv, NEW m \in Managers, NEW p \in Projects, UnlinkDatabase(m, p)
  PROVE  RunsInv'
<1> USE DEF UnlinkDatabase
<1>1. /\ projectCount' \in [repeat : Nat, manage : Nat, cut : Nat]
      /\ projectCount'.repeat = projectCount.repeat
  BY ChargeCounts DEF RunsInv, RunsTyped, Charge
<1> DEFINE t == [op |-> "empty", from |-> p]
<1>2. TaskTyped(t)'
  BY DEF TaskTyped
<1>3. /\ managing'[m] = t
      /\ \A m2 \in Managers \ {m} : managing'[m2] = managing[m2]
      /\ managing' = [m2 \in Managers |-> managing'[m2]]
      /\ \A m2 \in Managers : TaskTyped(managing[m2])'
  <2> HIDE DEF t
  <2>1. managing' = [managing EXCEPT ![m] = t]
    BY DEF t
  <2> QED
    BY <1>2, <2>1, TasksStayTyped
<1>4. RunsTyped'
  <2>1. base' = [q \in Projects |-> base'[q]]
    BY DEF RunsInv, RunsTyped
  <2>2. \A q \in Projects : base'[q] \subseteq base[q]
    BY DEF RunsInv, RunsTyped
  <2>3. \A q \in Projects : \A x \in base'[q] : RowFits(x)'
    BY <2>2 DEF RunsInv, RunsTyped, RowFits
  <2> QED
    BY <1>1, <1>3, <2>1, <2>3 DEF RunsInv, RunsTyped
<1>5. base' = [base EXCEPT ![p] = @ \ base[p]]
  BY DEF RunsInv, RunsTyped
<1>6. \A x \in base[p] \cap base[p] : x.run \in disowned'
  OBVIOUS
<1>7. \A m2 \in Managers : \/ managing'[m2] = managing[m2]
                           \/ managing[m2] = Idle /\ managing'[m2].op \notin Working
  BY <1>3 DEF Working
<1>8. LocksFit' /\ Lives' /\ Alone' /\ Unmoved' /\ Origin' /\ Found' /\ TasksFit'
  BY <1>1, <1>5, <1>6, <1>7, DisowningKeeps
<1> QED
  BY <1>4, <1>8 DEF RunsInv

----------------------------------------------------------------------------
\* What moving the directory of an operation leaves in place.
LEMMA MediaMoves ==
  ASSUME RunsInv, NEW m \in Managers, managing[m].op \in {"rename", "move"},
         MoveDir(managing[m].from, managing[m].to),
         strayed' = strayed \cup Disturbed(managing[m].from, managing[m].to, managing[m].rows),
         \A m2 \in Managers \ {m} : managing'[m2] = managing[m2],
         UNCHANGED <<base, saved, logged, disowned, rewritten, doubled, projectCount>>
  PROVE  /\ files' \subseteq Projects \X Names \X saved
         /\ \A d, to \in Places : \A e : FileAt(d, e) /\ e \notin strayed' =>
              /\ HasInHand(managing[m], e) /\ to = Readdress(d, managing[m].from, managing[m].to)
                   => FileAt(to, e)'
              /\ ~HasInHand(managing[m], e) => FileAt(d, e)'
         /\ Origin'
         /\ \A m2 \in Managers \ {m} : TaskRows(managing[m2])' /\ Carried(managing[m2])'
<1> DEFINE from == managing[m].from
           to == managing[m].to
           rows == managing[m].rows
<1>1. /\ from \in Places /\ to \in Places
      /\ \A row \in rows : RowFits(row)
      /\ managing[m].op \in Working
  BY TaskShape DEF Working
<1>2. files' \subseteq Projects \X Names \X saved
  <2>1. files \subseteq Projects \X Names \X saved
    BY DEF RunsInv, RunsTyped
  <2>2. {<<to[1], to[2], f[3]>> : f \in Dir(from[1], from[2], files)}
          \subseteq Projects \X Names \X saved
    BY <1>1, <2>1 DEF Dir, Places
  <2> HIDE DEF from, to
  <2>3. MoveDir(from, to)
    BY DEF from, to
  <2> QED
    BY <2>1, <2>2, <2>3 DEF MoveDir
<1>3. ASSUME NEW d \in Places, NEW d2 \in Places, NEW e, FileAt(d, e), e \notin strayed'
      PROVE  /\ HasInHand(managing[m], e) /\ d2 = Readdress(d, managing[m].from, managing[m].to)
                   => FileAt(d2, e)'
             /\ ~HasInHand(managing[m], e) => FileAt(d, e)'
  <2>1. e \notin Disturbed(from, to, rows)
    BY <1>3
  <2>2. ASSUME d2 = Readdress(d, managing[m].from, managing[m].to) PROVE FileAt(d2, e)'
    <3>1. ASSUME NEW f \in Places, NEW t \in Places, f = from, t = to, d2 = Readdress(d, f, t)
          PROVE  FileAt(d2, e)'
      <4>1. FileAt(Readdress(d, f, t), e)'
        BY <1>3, <2>1, <3>1, FilesFollow
      <4> QED
        BY <3>1, <4>1 DEF FileAt, Readdress
    <3> QED
      BY <1>1, <2>2, <3>1
  <2>3. ~HasInHand(managing[m], e) => \A row \in rows : row.rec # e
    BY <1>1 DEF HasInHand
  <2> QED
    BY <1>1, <1>3, <2>1, <2>2, <2>3, FilesStay
<1>4. Origin'
  <2> SUFFICES ASSUME NEW e \in saved \ (strayed' \cup rewritten)
               PROVE  FileAt(<<Home, NameAt[RunOf[e]]>>, e)'
    BY DEF Origin, FileAt
  <2>1. FileAt(<<Home, NameAt[RunOf[e]]>>, e) /\ e \in WithMedia /\ e \in Records
    BY ProjectRunsAssumption DEF RunsInv, Origin, RunsTyped
  <2>2. <<Home, NameAt[RunOf[e]]>> \in Places
    BY <2>1, ProjectRunsAssumption DEF Places
  <2>3. ~HasInHand(managing[m], e)
    <3>1. TaskRows(managing[m])
      BY DEF RunsInv, TasksFit
    <3>2. TableOf[e] \in {"metrics", "traces"}
      BY <2>1, ProjectRunsAssumption
    <3> QED
      BY <3>1, <3>2 DEF TaskRows, HasInHand
  <2> QED
    BY <1>3, <2>1, <2>2, <2>3
<1>5. ASSUME NEW m2 \in Managers \ {m} PROVE TaskRows(managing[m2])' /\ Carried(managing[m2])'
  <2>1. ASSUME NEW d \in Places, NEW e, FileAt(d, e), HasInHand(managing[m2], e), e \notin strayed',
               projectCount.repeat = 0
        PROVE  FileAt(d, e)'
    <3>1. Sole(e)
      BY <2>1 DEF Sole, RunsInv, RunsTyped
    <3>2. ~HasInHand(managing[m], e)
      BY <1>5, <2>1, <3>1, OneHand
    <3> QED
      BY <1>3, <2>1, <3>2
  <2> QED
    BY <1>5, <2>1, TaskRowsStay, CarriedStays
<1> QED
  BY <1>2, <1>3, <1>4, <1>5

LEMMA FinishRenameKeeps ==
  ASSUME RunsInv, NEW m \in Managers, FinishRename(m)
  PROVE  RunsInv'
<1> DEFINE t == managing[m]
<1> USE DEF FinishRename
<1>1. /\ managing'[m] = Idle
      /\ \A m2 \in Managers \ {m} : managing'[m2] = managing[m2]
      /\ managing' = [m2 \in Managers |-> managing'[m2]]
      /\ \A m2 \in Managers : TaskTyped(managing[m2])'
  BY TasksStayTyped, IdleIsTyped
<1>2. /\ t.from \in Places /\ t.to \in Places /\ t.from[1] = t.to[1]
      /\ locked[t.from[1]] = m /\ t.from[1] \in Projects
      /\ \A row \in t.rows : RowFits(row)
  BY TaskShape DEF Working, Places
<1>3. MoveDir(t.from, t.to) /\ strayed' = strayed \cup Disturbed(t.from, t.to, t.rows)
  OBVIOUS
<1>4. /\ files' \subseteq Projects \X Names \X saved
      /\ \A d, to \in Places : \A e : FileAt(d, e) /\ e \notin strayed' =>
           /\ HasInHand(t, e) /\ to = Readdress(d, t.from, t.to) => FileAt(to, e)'
           /\ ~HasInHand(t, e) => FileAt(d, e)'
      /\ Origin'
      /\ \A m2 \in Managers \ {m} : TaskRows(managing[m2])' /\ Carried(managing[m2])'
  BY <1>1, <1>3, MediaMoves
<1>5. RunsTyped'
  <2>1. \A p \in Projects : \A row \in base[p] : RowFits(row)'
    BY RowsStayTyped DEF RunsInv, RunsTyped
  <2> QED
    BY <1>1, <1>4, <2>1, ProjectRunsAssumption DEF RunsInv, RunsTyped
<1>6. LocksFit'
  <2> SUFFICES ASSUME NEW p \in Projects, NEW m2 \in Managers
               PROVE  locked'[p] = m2 <=> p \in Owns(managing'[m2])
    BY DEF LocksFit, Owns
  <2>1. locked[p] = m2 <=> p \in Owns(managing[m2])
    BY DEF RunsInv, LocksFit
  <2>2. locked'[p] = IF p = t.from[1] THEN Unlocked ELSE locked[p]
    BY DEF RunsInv, RunsTyped
  <2>3. CASE m2 = m
    BY <1>1, <1>2, <2>1, <2>2, <2>3, ProjectRunsAssumption DEF Owns, Idle, Working
  <2>4. CASE m2 # m
    BY <1>1, <1>2, <2>1, <2>2, <2>4, ProjectRunsAssumption
  <2> QED
    BY <2>3, <2>4
<1>7. Lives' /\ Unmoved'
  BY DEF RunsInv, Lives, Unmoved
<1>8. Alone'
  <2>1. \A p, x, q : Leaving(p, x, q) => Leaving(p, x, q)'
    BY <1>1 DEF Leaving
  <2> QED
    BY <2>1 DEF RunsInv, Alone, Sole
<1>9. Found'
  <2> SUFFICES ASSUME NEW p \in Projects, NEW x \in base[p], projectCount.repeat = 0,
                      x.dir # << >>, x.rec \notin strayed',
                      \A m2 \in Managers : ~HasInHand(managing'[m2], x.rec)
               PROVE  FileAt(x.dir, x.rec)'
    BY DEF Found, HasInHand, FileAt
  <2>1. RowFits(x) /\ Sole(x.rec) /\ x.dir \in Places
    BY <1>3 DEF RunsInv, RunsTyped, Sole, RowFits
  <2>2. \A m2 \in Managers \ {m} : ~HasInHand(managing[m2], x.rec)
    BY <1>1
  <2>3. CASE ~HasInHand(t, x.rec)
    <3>1. FileAt(x.dir, x.rec)
      BY <2>2, <2>3 DEF RunsInv, Found
    <3> QED
      BY <1>4, <2>1, <2>3, <3>1
  <2>4. CASE HasInHand(t, x.rec)
    <3>1. PICK row \in t.rows : row.rec = x.rec
      BY <2>4 DEF HasInHand
    <3>2. PICK y \in base[t.from[1]] : y = Renamed(t.from[1], row, t.from[2], t.to[2])
      BY <3>1 DEF RunsInv, TasksFit, TaskRows
    <3>3. RowFits(row) /\ t.from = <<t.from[1], t.from[2]>> /\ t.to = <<t.from[1], t.to[2]>>
      BY <1>2 DEF Places
    <3>4. /\ y.rec = row.rec
          /\ TableOf[y.rec] \in {"metrics", "traces"} => y.dir = Readdress(row.dir, t.from, t.to)
          /\ TableOf[y.rec] \notin {"metrics", "traces"} => y.dir = row.dir
      <4>1. t.from[2] \in Names /\ t.to[2] \in Names
        BY <1>2 DEF Places
      <4>2. /\ y.rec = row.rec
            /\ TableOf[y.rec] \in {"metrics", "traces"} =>
                 y.dir = Readdress(row.dir, <<t.from[1], t.from[2]>>, <<t.from[1], t.to[2]>>)
            /\ TableOf[y.rec] \notin {"metrics", "traces"} => y.dir = row.dir
        <5> HIDE DEF t
        <5> QED
          BY <1>2, <3>2, <3>3, <4>1, RenamedRow
      <4> HIDE DEF t
      <4> QED
        BY <3>3, <4>2
    <3>5. x = y
      <4>1. ~Leaving(p, x, t.from[1])
        BY <2>2 DEF Leaving, HasInHand, Working
      <4>2. ~Leaving(t.from[1], y, p)
        BY <2>2, <3>1, <3>4 DEF Leaving, HasInHand, Working
      <4> QED
        BY <1>2, <2>1, <3>1, <3>2, <3>4, <4>1, <4>2 DEF RunsInv, Alone
    <3>6. x.rec \in WithMedia /\ TableOf[x.rec] \in {"metrics", "traces"}
      BY <2>1, ProjectRunsAssumption DEF RowFits
    <3>7. x.dir = Readdress(row.dir, t.from, t.to) /\ row.dir \in Places
      <4>1. x.dir = Readdress(row.dir, t.from, t.to)
        BY <3>1, <3>4, <3>5, <3>6
      <4> QED
        BY <1>2, <3>3, <4>1, PlacesAreSomewhere DEF Readdress, RowFits
    <3>8. FileAt(row.dir, x.rec)
      <4>1. Carried(t) /\ x.rec \notin strayed
        BY <1>3 DEF RunsInv, TasksFit
      <4> QED
        BY <3>1, <3>7, <4>1, PlacesAreSomewhere DEF Carried, Working
    <3> QED
      BY <1>4, <2>1, <2>4, <3>7, <3>8
  <2> QED
    BY <2>3, <2>4
<1>10. TasksFit'
  <2>1. TaskRows(managing[m])' /\ Carried(managing[m])'
    BY <1>1 DEF TaskRows, Carried, Idle, Working
  <2> QED
    BY <1>4, <2>1 DEF TasksFit
<1> QED
  BY <1>4, <1>5, <1>6, <1>7, <1>8, <1>9, <1>10 DEF RunsInv

LEMMA MoveMediaKeeps ==
  ASSUME RunsInv, NEW m \in Managers, MoveMedia(m)
  PROVE  RunsInv'
<1> DEFINE t == managing[m]
<1> USE DEF MoveMedia
<1>1. /\ t.op = "move" /\ t.from \in Places /\ t.to \in Places /\ t.from[1] # t.to[1]
      /\ t = [op |-> "move", from |-> t.from, to |-> t.to, rows |-> t.rows, links |-> t.links]
      /\ \A row \in t.rows : RowFits(row)
  BY DEF RunsInv, RunsTyped, TaskTyped, Idle
<1>2. PICK u : u = [t EXCEPT !.op = "leave"]
  OBVIOUS
<1>3. /\ u = [op |-> "leave", from |-> t.from, to |-> t.to, rows |-> t.rows, links |-> t.links]
      /\ u.op = "leave" /\ u.from = t.from /\ u.to = t.to /\ u.rows = t.rows /\ u.links = t.links
  BY <1>1, <1>2
<1>4. TaskTyped(u)'
  <2>1. \A row \in u.rows : RowFits(row)'
    BY <1>1, <1>3, RowsStayTyped
  <2> QED
    BY <1>1, <1>3, <2>1 DEF TaskTyped
<1>5. /\ managing'[m] = u
      /\ \A m2 \in Managers \ {m} : managing'[m2] = managing[m2]
      /\ managing' = [m2 \in Managers |-> managing'[m2]]
      /\ \A m2 \in Managers : TaskTyped(managing[m2])'
  BY <1>2, <1>4, TasksStayTyped
<1>6. MoveDir(t.from, t.to) /\ strayed' = strayed \cup Disturbed(t.from, t.to, t.rows)
  OBVIOUS
<1>7. /\ files' \subseteq Projects \X Names \X saved
      /\ \A d, to \in Places : \A e : FileAt(d, e) /\ e \notin strayed' =>
           /\ HasInHand(t, e) /\ to = Readdress(d, t.from, t.to) => FileAt(to, e)'
           /\ ~HasInHand(t, e) => FileAt(d, e)'
      /\ Origin'
      /\ \A m2 \in Managers \ {m} : TaskRows(managing[m2])' /\ Carried(managing[m2])'
  BY <1>1, <1>5, <1>6, MediaMoves
<1>8. RunsTyped'
  <2>1. \A p \in Projects : \A row \in base[p] : RowFits(row)'
    BY RowsStayTyped DEF RunsInv, RunsTyped
  <2> QED
    BY <1>5, <1>7, <2>1 DEF RunsInv, RunsTyped
<1>9. LocksFit'
  <2> SUFFICES ASSUME NEW p \in Projects, NEW m2 \in Managers
               PROVE  locked[p] = m2 <=> p \in Owns(managing'[m2])
    BY DEF LocksFit, Owns
  <2>1. locked[p] = m2 <=> p \in Owns(managing[m2])
    BY DEF RunsInv, LocksFit
  <2>2. Owns(u) = Owns(t)
    BY <1>1, <1>3 DEF Owns, Working
  <2> QED
    BY <1>5, <2>1, <2>2
<1>10. Lives' /\ Unmoved'
  BY DEF RunsInv, Lives, Unmoved
<1>11. Alone'
  <2>1. \A p, x, q : Leaving(p, x, q) => Leaving(p, x, q)'
    BY <1>1, <1>3, <1>5 DEF Leaving
  <2> QED
    BY <2>1 DEF RunsInv, Alone, Sole
<1>12. Found'
  <2> SUFFICES ASSUME NEW p \in Projects, NEW x \in base[p], projectCount.repeat = 0,
                      x.dir # << >>, x.rec \notin strayed',
                      \A m2 \in Managers : ~HasInHand(managing'[m2], x.rec)
               PROVE  FileAt(x.dir, x.rec)'
    BY DEF Found, HasInHand, FileAt
  <2>1. x.dir \in Places
    BY DEF RunsInv, RunsTyped, RowFits
  <2>2. \A m2 \in Managers : ~HasInHand(managing[m2], x.rec)
    BY <1>1, <1>3, <1>5 DEF HasInHand, Working
  <2>3. FileAt(x.dir, x.rec)
    BY <1>6, <2>2 DEF RunsInv, Found
  <2> QED
    BY <1>7, <2>1, <2>2, <2>3
<1>13. TaskRows(managing[m])'
  <2>1. TaskRows(t)
    BY DEF RunsInv, TasksFit
  <2> QED
    BY <1>1, <1>3, <1>5, <2>1 DEF TaskRows, Working
<1>14. Carried(managing[m])'
  <2> SUFFICES ASSUME projectCount.repeat = 0, NEW row \in t.rows, row.rec \notin strayed'
               PROVE  /\ \A x \in base[t.to[1]] :
                           x.rec = row.rec => x.dir = Readdress(row.dir, t.from, t.to)
                      /\ \A d \in Places : row.dir # << >> /\ d = Readdress(row.dir, t.from, t.to)
                           => FileAt(d, row.rec)'
    <3>1. \A row \in t.rows : row.dir # << >> => Readdress(row.dir, t.from, t.to) \in Places
      BY <1>1 DEF RowFits, Readdress
    <3> QED
      BY <1>3, <1>5, <3>1 DEF Carried, FileAt, Readdress
  <2>1. /\ row.dir # << >> => FileAt(row.dir, row.rec)
        /\ \A x \in base[t.to[1]] : x.rec = row.rec => x.dir = Readdress(row.dir, t.from, t.to)
    BY <1>1, <1>6 DEF RunsInv, TasksFit, Carried, Working
  <2>2. HasInHand(t, row.rec) /\ (row.dir # << >> => row.dir \in Places)
    BY <1>1 DEF HasInHand, Working, RowFits
  <2> QED
    BY <1>7, <2>1, <2>2
<1>15. TasksFit'
  BY <1>7, <1>13, <1>14 DEF TasksFit
<1> QED
  BY <1>7, <1>8, <1>9, <1>10, <1>11, <1>12, <1>15 DEF RunsInv

LEMMA CutManagerKeeps ==
  ASSUME RunsInv, NEW m \in Managers, CutManager(m)
  PROVE  RunsInv'
<1> DEFINE t == managing[m]
<1> USE DEF CutManager
<1>1. /\ projectCount' \in [repeat : Nat, manage : Nat, cut : Nat]
      /\ projectCount'.repeat = projectCount.repeat
  BY ChargeCounts DEF RunsInv, RunsTyped, Charge
<1>2. /\ managing'[m] = Idle
      /\ \A m2 \in Managers \ {m} : managing'[m2] = managing[m2]
      /\ managing' = [m2 \in Managers |-> managing'[m2]]
      /\ \A m2 \in Managers : TaskTyped(managing[m2])'
  BY TasksStayTyped, IdleIsTyped
<1>3. /\ strayed \subseteq strayed' /\ doubled \subseteq doubled' /\ doubled' \subseteq strayed'
      /\ \A e : HasInHand(t, e) => e \in strayed'
      /\ t.op \in {"move", "leave"} => \A x \in t.rows : x.rec \in doubled'
  <2>1. t.op = "empty" \/ t.op # "empty"
    OBVIOUS
  <2> QED
    BY <2>1 DEF RunsInv, RunsTyped, HasInHand, Working
<1>4. RunsTyped'
  <2>1. \A p \in Projects : \A row \in base[p] : RowFits(row)'
    BY RowsStayTyped DEF RunsInv, RunsTyped
  <2>2. locked' \in [Projects -> Managers \cup {Unlocked}]
    BY DEF RunsInv, RunsTyped
  <2> QED
    BY <1>1, <1>2, <1>3, <2>1, <2>2 DEF RunsInv, RunsTyped
<1>5. LocksFit'
  <2> SUFFICES ASSUME NEW p \in Projects, NEW m2 \in Managers
               PROVE  locked'[p] = m2 <=> p \in Owns(managing'[m2])
    BY DEF LocksFit, Owns
  <2>1. locked[p] = m2 <=> p \in Owns(managing[m2])
    BY DEF RunsInv, LocksFit
  <2>2. locked'[p] = IF locked[p] = m THEN Unlocked ELSE locked[p]
    OBVIOUS
  <2> QED
    BY <1>2, <2>1, <2>2, ProjectRunsAssumption DEF Owns, Idle, Working
<1>6. Lives' /\ Unmoved'
  BY DEF RunsInv, Lives, Unmoved
<1>7. Alone'
  <2> SUFFICES ASSUME NEW p \in Projects, NEW q \in Projects, NEW x \in base[p], NEW y \in base[q],
                      x.rec = y.rec, Sole(x.rec)'
               PROVE  (p = q /\ x = y) \/ Leaving(p, x, q)' \/ Leaving(q, y, p)'
    BY DEF Alone
  <2>1. Sole(x.rec) /\ x.rec \notin doubled'
    BY <1>1, <1>3 DEF Sole
  <2>2. (p = q /\ x = y) \/ Leaving(p, x, q) \/ Leaving(q, y, p)
    BY <2>1 DEF RunsInv, Alone
  <2>3. Leaving(p, x, q) => Leaving(p, x, q)'
    BY <1>2, <1>3, <2>1 DEF Leaving
  <2>4. Leaving(q, y, p) => Leaving(q, y, p)'
    BY <1>2, <1>3, <2>1 DEF Leaving
  <2> QED
    BY <2>2, <2>3, <2>4
<1>8. Origin'
  BY <1>3 DEF RunsInv, Origin, FileAt
<1>9. Found'
  <2> SUFFICES ASSUME NEW p \in Projects, NEW x \in base[p], projectCount.repeat = 0,
                      x.dir # << >>, x.rec \notin strayed',
                      \A m2 \in Managers : ~HasInHand(managing'[m2], x.rec)
               PROVE  FileAt(x.dir, x.rec)
    BY <1>1 DEF Found, HasInHand, FileAt
  <2>1. \A m2 \in Managers : ~HasInHand(managing[m2], x.rec)
    BY <1>2, <1>3
  <2> QED
    BY <1>3, <2>1 DEF RunsInv, Found
<1>10. TasksFit'
  <2> SUFFICES ASSUME NEW m2 \in Managers PROVE TaskRows(managing[m2])' /\ Carried(managing[m2])'
    BY DEF TasksFit
  <2>1. CASE m2 = m
    BY <1>2, <2>1 DEF TaskRows, Carried, Idle, Working
  <2>2. CASE m2 # m
    <3>1. \A d \in Places : \A f : FileAt(d, f) => FileAt(d, f)'
      BY DEF FileAt
    <3> QED
      BY <1>1, <1>2, <1>3, <2>2, <3>1, TaskRowsStay, CarriedStays
  <2> QED
    BY <2>1, <2>2
<1> QED
  BY <1>4, <1>5, <1>6, <1>7, <1>8, <1>9, <1>10 DEF RunsInv

LEMMA FinishMoveKeeps ==
  ASSUME RunsInv, NEW m \in Managers, FinishMove(m)
  PROVE  RunsInv'
<1> DEFINE t == managing[m]
           from == t.from[1]
           to == t.to[1]
           left == t.rows \cup t.links
<1> USE DEF FinishMove
<1>1. /\ managing'[m] = Idle
      /\ \A m2 \in Managers \ {m} : managing'[m2] = managing[m2]
      /\ managing' = [m2 \in Managers |-> managing'[m2]]
      /\ \A m2 \in Managers : TaskTyped(managing[m2])'
  BY TasksStayTyped, IdleIsTyped
<1>2. /\ t.op = "leave" /\ t.from \in Places /\ t.to \in Places /\ from # to
      /\ locked[from] = m /\ locked[to] = m /\ from \in Projects /\ to \in Projects
      /\ \A row \in t.rows : RowFits(row)
  BY TaskShape DEF Working, Places
<1>3. TaskRows(t) /\ Carried(t)
  BY DEF RunsInv, TasksFit
<1>4. /\ base'[from] = base[from] \ left
      /\ \A p \in Projects \ {from} : base'[p] = base[p]
      /\ base' = [p \in Projects |-> base'[p]]
  BY <1>2 DEF RunsInv, RunsTyped
<1>5. \A p \in Projects : locked'[p] = IF p = from \/ p = to THEN Unlocked ELSE locked[p]
  BY <1>2 DEF RunsInv, RunsTyped
<1>6. RunsTyped'
  <2>1. \A p \in Projects : \A row \in base'[p] : RowFits(row)'
    BY <1>4, RowsStayTyped DEF RunsInv, RunsTyped
  <2>2. locked' \in [Projects -> Managers \cup {Unlocked}]
    BY <1>2 DEF RunsInv, RunsTyped
  <2> QED
    BY <1>1, <1>4, <2>1, <2>2 DEF RunsInv, RunsTyped
<1>7. LocksFit'
  <2> SUFFICES ASSUME NEW p \in Projects, NEW m2 \in Managers
               PROVE  locked'[p] = m2 <=> p \in Owns(managing'[m2])
    BY DEF LocksFit, Owns
  <2>1. locked[p] = m2 <=> p \in Owns(managing[m2])
    BY DEF RunsInv, LocksFit
  <2>2. Owns(t) = {from, to}
    BY <1>2 DEF Owns, Working
  <2>3. Owns(Idle) = {}
    BY DEF Owns, Idle, Working
  <2>4. locked'[p] = IF p = from \/ p = to THEN Unlocked ELSE locked[p]
    BY <1>5
  <2> HIDE DEF from, to
  <2>5. CASE m2 = m
    BY <1>1, <2>1, <2>2, <2>3, <2>4, <2>5, ProjectRunsAssumption
  <2>6. CASE m2 # m
    BY <1>1, <1>2, <2>1, <2>4, <2>6, ProjectRunsAssumption
  <2> QED
    BY <2>5, <2>6
<1>8. ASSUME NEW p \in Projects, NEW x \in base[p], x \notin base'[p], TableOf[x.rec] # "links"
      PROVE  p = from /\ x \in t.rows /\ \E y \in base'[to] : y.rec = x.rec
  <2>1. p = from /\ x \in t.rows
    BY <1>2, <1>3, <1>4, <1>8 DEF TaskRows
  <2>2. \E y \in base[to] : y.rec = x.rec
    BY <1>2, <1>3, <2>1 DEF TaskRows
  <2> QED
    BY <1>2, <1>4, <2>1, <2>2
<1>9. Lives'
  <2> SUFFICES ASSUME NEW e \in logged, RunOf[e] \notin disowned, TableOf[e] # "links"
               PROVE  \E p \in Projects : \E x \in base'[p] : Stands(x.rec, e)
    BY DEF Lives, Stands
  <2>1. PICK p \in Projects : \E x \in base[p] : Stands(x.rec, e)
    BY DEF RunsInv, Lives
  <2>2. PICK x \in base[p] : Stands(x.rec, e)
    BY <2>1
  <2>3. CASE x \in base'[p]
    BY <2>2, <2>3
  <2>4. CASE x \notin base'[p]
    <3>1. TableOf[x.rec] # "links"
      BY <2>2 DEF Stands
    <3>2. PICK y \in base'[to] : y.rec = x.rec
      BY <1>8, <2>4, <3>1
    <3> QED
      BY <1>2, <2>2, <3>2
  <2> QED
    BY <2>3, <2>4
<1>10. \A p \in Projects : base'[p] \subseteq base[p]
  BY <1>4
<1>11. Alone'
  <2> SUFFICES ASSUME NEW p \in Projects, NEW q \in Projects,
                      NEW x \in base'[p], NEW y \in base'[q], x.rec = y.rec, Sole(x.rec)
               PROVE  (p = q /\ x = y) \/ Leaving(p, x, q)' \/ Leaving(q, y, p)'
    BY DEF Alone, Sole
  <2>1. (p = q /\ x = y) \/ Leaving(p, x, q) \/ Leaving(q, y, p)
    BY <1>10 DEF RunsInv, Alone
  <2>2. x \notin t.rows \/ p # from
    BY <1>4
  <2>3. y \notin t.rows \/ q # from
    BY <1>4
  <2>4. Leaving(p, x, q) => Leaving(p, x, q)'
    BY <1>1, <2>2 DEF Leaving
  <2>5. Leaving(q, y, p) => Leaving(q, y, p)'
    BY <1>1, <2>3 DEF Leaving
  <2> QED
    BY <2>1, <2>4, <2>5
<1>12. Unmoved' /\ Origin'
  BY <1>10 DEF RunsInv, Unmoved, Origin, FileAt
<1>13. Found'
  <2> SUFFICES ASSUME NEW p \in Projects, NEW x \in base'[p], projectCount.repeat = 0,
                      x.dir # << >>, x.rec \notin strayed,
                      \A m2 \in Managers : ~HasInHand(managing'[m2], x.rec)
               PROVE  FileAt(x.dir, x.rec)
    BY DEF Found, HasInHand, FileAt
  <2>1. x \in base[p] /\ RowFits(x) /\ Sole(x.rec)
    BY <1>10 DEF RunsInv, RunsTyped, Sole
  <2>2. \A m2 \in Managers \ {m} : ~HasInHand(managing[m2], x.rec)
    BY <1>1
  <2>3. CASE ~HasInHand(t, x.rec)
    BY <2>1, <2>2, <2>3 DEF RunsInv, Found
  <2>4. CASE HasInHand(t, x.rec)
    <3>1. PICK row \in t.rows : row.rec = x.rec
      BY <2>4 DEF HasInHand
    <3>2. PICK y \in base[to] : y.rec = x.rec
      BY <1>2, <1>3, <3>1 DEF TaskRows
    <3>3. p = to /\ x = y
      <4>1. ~Leaving(p, x, to)
        <5> SUFFICES ASSUME NEW m2 \in Managers, managing[m2].op \in {"move", "leave"},
                            p = managing[m2].from[1], x \in managing[m2].rows
                     PROVE  FALSE
          BY DEF Leaving
        <5>1. HasInHand(managing[m2], x.rec)
          BY DEF HasInHand, Working
        <5>2. m2 = m
          BY <2>2, <5>1
        <5> QED
          BY <1>4, <5>2
      <4>2. ~Leaving(to, y, p)
        <5> SUFFICES ASSUME NEW m2 \in Managers, managing[m2].op \in {"move", "leave"},
                            to = managing[m2].from[1], y \in managing[m2].rows
                     PROVE  FALSE
          BY DEF Leaving
        <5>1. HasInHand(managing[m2], x.rec)
          BY <3>2 DEF HasInHand, Working
        <5>2. m2 = m
          BY <2>2, <5>1
        <5> QED
          BY <1>2, <5>2
      <4> QED
        BY <1>2, <2>1, <3>2, <4>1, <4>2 DEF RunsInv, Alone
    <3>4. /\ x.dir = Readdress(row.dir, t.from, t.to)
          /\ row.dir # << >> => FileAt(Readdress(row.dir, t.from, t.to), row.rec)
      BY <1>2, <1>3, <3>1, <3>2, <3>3 DEF Carried, Working
    <3>5. row.dir # << >>
      BY <1>2, <3>4, PlacesAreSomewhere DEF Readdress
    <3> QED
      BY <3>1, <3>4, <3>5
  <2> QED
    BY <2>3, <2>4
<1>14. TasksFit'
  <2> SUFFICES ASSUME NEW m2 \in Managers PROVE TaskRows(managing[m2])' /\ Carried(managing[m2])'
    BY DEF TasksFit
  <2>1. CASE m2 = m
    BY <1>1, <2>1 DEF TaskRows, Carried, Idle, Working
  <2>2. CASE m2 # m
    <3>1. \A d \in Places : \A f : FileAt(d, f) => FileAt(d, f)'
      BY DEF FileAt
    <3>2. \A p \in Projects : locked[p] = m2 => base'[p] = base[p]
      BY <1>2, <1>4, <2>2
    <3> QED
      BY <1>1, <2>2, <3>1, <3>2, TaskRowsStay, CarriedStays
  <2> QED
    BY <2>1, <2>2
<1> QED
  BY <1>6, <1>7, <1>9, <1>11, <1>12, <1>13, <1>14 DEF RunsInv

\* What an operation takes from a project that is not locked, no other has in hand.
LEMMA NobodyHas ==
  ASSUME RunsInv, NEW p \in Projects, locked[p] = Unlocked, NEW x \in base[p], Sole(x.rec),
         NEW m \in Managers
  PROVE  ~HasInHand(managing[m], x.rec)
BY InHandIsLocked, ProjectRunsAssumption

LEMMA NoLeavingUnlocked ==
  ASSUME RunsInv, NEW p \in Projects, locked[p] = Unlocked, NEW x, NEW q
  PROVE  ~Leaving(p, x, q) /\ ~Leaving(q, x, p)
<1> SUFFICES ASSUME NEW m \in Managers, managing[m].op \in Working,
                    p = managing[m].from[1] \/ p = managing[m].to[1]
             PROVE  FALSE
  BY DEF Leaving, Working
<1>1. locked[p] = m
  BY TaskShape
<1> QED
  BY <1>1, ProjectRunsAssumption

\* Idle managers have nothing in hand.
LEMMA IdleHasNothing == \A e : ~HasInHand(Idle, e)
BY DEF HasInHand, Idle, Working

LEMMA RenameRunKeeps ==
  ASSUME RunsInv, NEW m \in Managers, NEW p \in Projects, NEW id, NEW old \in Names,
         NEW new \in Names, RenameRun(m, p, id, old, new)
  PROVE  RunsInv'
<1> DEFINE R == Renaming(p, id, old)
           New(row) == Renamed(p, row, old, new)
           f == <<p, old>>
           t == <<p, new>>
<1>1. /\ managing[m] = Idle /\ locked[p] = Unlocked
      /\ Charge("manage", MaxManaged)
      /\ base' = [base EXCEPT ![p] = (@ \ R) \cup {New(row) : row \in R}]
      /\ rewritten' = rewritten \cup {row.rec : row \in {x \in R : TableOf[x.rec] \in
                                                            {"metrics", "traces"}}}
      /\ managing' = [managing EXCEPT ![m] = [op |-> "rename", from |-> f, to |-> t, rows |-> R]]
      /\ locked' = [locked EXCEPT ![p] = m]
      /\ UNCHANGED <<files, saved, logged, disowned, doubled, strayed>>
  BY DEF RenameRun
<1>2. /\ projectCount' \in [repeat : Nat, manage : Nat, cut : Nat]
      /\ projectCount'.repeat = projectCount.repeat
  BY <1>1, ChargeCounts DEF RunsInv, RunsTyped, Charge
<1>3. R \subseteq base[p] /\ \A row \in R : RowFits(row) /\ row.rec \in logged
  <2>1. R \subseteq base[p]
    BY DEF Renaming, Called
  <2> QED
    BY <2>1 DEF RunsInv, RunsTyped, RowFits
<1>4. f \in Places /\ t \in Places /\ f[1] = p /\ t[1] = p /\ f[2] = old /\ t[2] = new
  BY DEF Places
<1>5. \A row \in R : \A x : x = New(row) =>
         /\ RowFits(x) /\ x.rec = row.rec /\ x.run = row.run
         /\ TableOf[x.rec] \in {"metrics", "traces"} => x.dir = Readdress(row.dir, f, t)
         /\ TableOf[x.rec] \notin {"metrics", "traces"} => x.dir = row.dir /\ x.full = row.full
  BY <1>3, RenamedRow
<1> HIDE DEF R, New, f, t
<1>6. /\ base' = [q \in Projects |-> base'[q]]
      /\ base'[p] = (base[p] \ R) \cup {New(row) : row \in R}
      /\ \A q \in Projects \ {p} : base'[q] = base[q]
  BY <1>1 DEF RunsInv, RunsTyped
<1>7. ASSUME NEW q \in Projects, NEW x \in base'[q]
      PROVE  \E z \in base[q] : /\ z.rec = x.rec
                               /\ \/ x = z /\ (q = p => z \notin R)
                                  \/ q = p /\ z \in R /\ x = New(z)
  BY <1>3, <1>5, <1>6, <1>7
<1>8. PICK u : u = [op |-> "rename", from |-> f, to |-> t, rows |-> R]
  OBVIOUS
<1>9. u.op = "rename" /\ u.from = f /\ u.to = t /\ u.rows = R
  BY <1>8
<1>10. TaskTyped(u)'
  <2>1. \A row \in u.rows : RowFits(row)'
    BY <1>1, <1>3, <1>9, RowsStayTyped
  <2> QED
    BY <1>4, <1>8, <1>9, <2>1 DEF TaskTyped
<1>11. /\ managing'[m] = u
       /\ \A m2 \in Managers \ {m} : managing'[m2] = managing[m2]
       /\ managing' = [m2 \in Managers |-> managing'[m2]]
       /\ \A m2 \in Managers : TaskTyped(managing[m2])'
  BY <1>1, <1>8, <1>10, TasksStayTyped
<1>12. RunsTyped'
  <2>1. ASSUME NEW q \in Projects, NEW x \in base'[q] PROVE RowFits(x)'
    <3>1. RowFits(x)
      BY <1>5, <1>7, <2>1 DEF RunsInv, RunsTyped
    <3> QED
      BY <1>1, <3>1, RowsStayTyped
  <2>2. locked' \in [Projects -> Managers \cup {Unlocked}]
    BY <1>1 DEF RunsInv, RunsTyped
  <2>3. rewritten' \subseteq logged
    BY <1>1, <1>3 DEF RunsInv, RunsTyped
  <2> QED
    BY <1>1, <1>2, <1>6, <1>11, <2>1, <2>2, <2>3 DEF RunsInv, RunsTyped
<1>13. LocksFit'
  <2> SUFFICES ASSUME NEW q \in Projects, NEW m2 \in Managers
               PROVE  locked'[q] = m2 <=> q \in Owns(managing'[m2])
    BY DEF LocksFit, Owns
  <2>1. locked[q] = m2 <=> q \in Owns(managing[m2])
    BY DEF RunsInv, LocksFit
  <2>2. locked'[q] = IF q = p THEN m ELSE locked[q]
    BY <1>1 DEF RunsInv, RunsTyped
  <2>3. Owns(u) = {p} /\ Owns(Idle) = {}
    BY <1>4, <1>9 DEF Owns, Idle, Working
  <2>4. CASE m2 = m
    BY <1>1, <1>11, <2>1, <2>2, <2>3, <2>4
  <2>5. CASE m2 # m
    BY <1>1, <1>11, <2>1, <2>2, <2>5, ProjectRunsAssumption
  <2> QED
    BY <2>4, <2>5
<1>14. Lives'
  <2> SUFFICES ASSUME NEW e \in logged, RunOf[e] \notin disowned, TableOf[e] # "links"
               PROVE  \E q \in Projects : \E x \in base'[q] : Stands(x.rec, e)
    BY <1>1 DEF Lives, Stands
  <2>1. PICK q \in Projects : \E x \in base[q] : Stands(x.rec, e)
    BY DEF RunsInv, Lives
  <2>2. PICK x \in base[q] : Stands(x.rec, e)
    BY <2>1
  <2>3. CASE q = p /\ x \in R
    <3>1. New(x) \in base'[p] /\ New(x).rec = x.rec
      BY <1>5, <1>6, <2>3
    <3> QED
      BY <2>2, <3>1
  <2>4. CASE ~(q = p /\ x \in R)
    BY <1>6, <2>2, <2>4
  <2> QED
    BY <2>3, <2>4
<1>15. \A q, x, r : Leaving(q, x, r) => Leaving(q, x, r)'
  BY <1>1, <1>11 DEF Leaving, Idle
<1>16. Alone'
  <2> SUFFICES ASSUME NEW q \in Projects, NEW r \in Projects,
                      NEW x \in base'[q], NEW y \in base'[r], x.rec = y.rec, Sole(x.rec)'
               PROVE  (q = r /\ x = y) \/ Leaving(q, x, r)' \/ Leaving(r, y, q)'
    BY DEF Alone
  <2>1. Sole(x.rec)
    BY <1>1, <1>2 DEF Sole
  <2>2. PICK x0 \in base[q] : /\ x0.rec = x.rec
                             /\ \/ x = x0 /\ (q = p => x0 \notin R)
                                \/ q = p /\ x0 \in R /\ x = New(x0)
    BY <1>7
  <2>3. PICK y0 \in base[r] : /\ y0.rec = y.rec
                             /\ \/ y = y0 /\ (r = p => y0 \notin R)
                                \/ r = p /\ y0 \in R /\ y = New(y0)
    BY <1>7
  <2>4. (q = r /\ x0 = y0) \/ Leaving(q, x0, r) \/ Leaving(r, y0, q)
    BY <2>1, <2>2, <2>3 DEF RunsInv, Alone
  <2>5. CASE q = r /\ x0 = y0
    BY <2>2, <2>3, <2>5
  <2>6. CASE Leaving(q, x0, r) \/ Leaving(r, y0, q)
    <3>1. q # p /\ r # p
      BY <1>1, <2>6, NoLeavingUnlocked
    <3> QED
      BY <1>15, <2>2, <2>3, <2>6, <3>1
  <2> QED
    BY <2>4, <2>5, <2>6
<1>17. Unmoved'
  <2> SUFFICES ASSUME NEW q \in Projects, NEW x \in base'[q], x.rec \notin rewritten'
               PROVE  /\ q = Home
                      /\ TableOf[x.rec] \in {"metrics", "system_metrics"} => x.full
                      /\ x.dir # << >> => x.dir = <<Home, NameAt[RunOf[x.rec]]>>
    BY DEF Unmoved
  <2>1. PICK z \in base[q] : /\ z.rec = x.rec
                            /\ \/ x = z /\ (q = p => z \notin R)
                               \/ q = p /\ z \in R /\ x = New(z)
    BY <1>7
  <2>2. /\ q = Home
        /\ TableOf[z.rec] \in {"metrics", "system_metrics"} => z.full
        /\ z.dir # << >> => z.dir = <<Home, NameAt[RunOf[z.rec]]>>
    BY <1>1, <2>1 DEF RunsInv, Unmoved
  <2>3. x = z \/ (x.dir = z.dir /\ x.full = z.full)
    BY <1>1, <1>5, <2>1
  <2> QED
    BY <2>1, <2>2, <2>3
<1>18. Origin'
  BY <1>1 DEF RunsInv, Origin, FileAt
<1>19. Found'
  <2> SUFFICES ASSUME NEW q \in Projects, NEW x \in base'[q], projectCount.repeat = 0,
                      x.dir # << >>, x.rec \notin strayed,
                      \A m2 \in Managers : ~HasInHand(managing'[m2], x.rec)
               PROVE  FileAt(x.dir, x.rec)
    BY <1>1, <1>2 DEF Found, HasInHand, FileAt
  <2>1. x \in base[q]
    <3>1. \A z \in R : z.rec # x.rec
      BY <1>9, <1>11 DEF HasInHand, Working
    <3> QED
      BY <1>7, <3>1
  <2>2. \A m2 \in Managers : ~HasInHand(managing[m2], x.rec)
    BY <1>1, <1>11, IdleHasNothing
  <2> QED
    BY <2>1, <2>2 DEF RunsInv, Found
<1>20. TaskRows(managing[m])'
  <2>1. \A row \in R : TableOf[row.rec] \in {"metrics", "traces"} => row.rec \in rewritten'
    BY <1>1
  <2>2. \A row \in R : Renamed(p, row, old, new) \in base'[p]
    BY <1>6 DEF New
  <2>3. TaskRows(u)'
    BY <1>4, <1>9, <2>1, <2>2 DEF TaskRows, Working
  <2> QED
    BY <1>11, <2>3 DEF TaskRows
<1>21. Carried(managing[m])'
  <2>1. ASSUME projectCount.repeat = 0, NEW row \in R, row.rec \notin strayed, row.dir # << >>
        PROVE  FileAt(row.dir, row.rec)
    <3>1. Sole(row.rec)
      BY <2>1 DEF Sole, RunsInv, RunsTyped
    <3>2. \A m2 \in Managers : ~HasInHand(managing[m2], row.rec)
      BY <1>1, <1>3, <2>1, <3>1, NobodyHas
    <3> QED
      BY <1>3, <2>1, <3>2 DEF RunsInv, Found
  <2> QED
    BY <1>1, <1>2, <1>9, <1>11, <2>1 DEF Carried, FileAt
<1>22. TasksFit'
  <2> SUFFICES ASSUME NEW m2 \in Managers \ {m}
               PROVE  TaskRows(managing[m2])' /\ Carried(managing[m2])'
    BY <1>20, <1>21 DEF TasksFit
  <2>1. \A d \in Places : \A e : FileAt(d, e) => FileAt(d, e)'
    BY <1>1 DEF FileAt
  <2>2. \A q \in Projects : locked[q] = m2 => base'[q] = base[q]
    BY <1>1, <1>6, ProjectRunsAssumption
  <2> QED
    BY <1>1, <1>2, <1>11, <2>1, <2>2, TaskRowsStay, CarriedStays
<1> QED
  BY <1>12, <1>13, <1>14, <1>16, <1>17, <1>18, <1>19, <1>22 DEF RunsInv

LEMMA MoveRunKeeps ==
  ASSUME RunsInv, NEW m \in Managers, NEW p \in Projects, NEW q \in Projects, NEW id,
         NEW n \in Names, MoveRun(m, p, q, id, n)
  PROVE  RunsInv'
<1> DEFINE R == Moving(p, id, n)
           L == Held(p, "links", Identity(p, "metrics", id, n))
           A == Accepted(q, R)
           C == Replaced(q, R)
           New(row) == Moved(p, q, row, n)
           f == <<p, n>>
           t == <<q, n>>
<1>1. /\ managing[m] = Idle /\ p # q /\ locked[p] = Unlocked /\ locked[q] = Unlocked
      /\ Charge("manage", MaxManaged)
      /\ base' = [base EXCEPT ![q] = (@ \ C) \cup {New(row) : row \in A}]
      /\ rewritten' = rewritten \cup {row.rec : row \in R}
      /\ managing' = [managing EXCEPT ![m] =
            [op |-> "move", from |-> f, to |-> t, rows |-> R, links |-> L]]
      /\ locked' = [locked EXCEPT ![p] = m, ![q] = m]
      /\ UNCHANGED <<files, saved, logged, disowned, doubled, strayed>>
  BY DEF MoveRun
<1>2. /\ projectCount' \in [repeat : Nat, manage : Nat, cut : Nat]
      /\ projectCount'.repeat = projectCount.repeat
  BY <1>1, ChargeCounts DEF RunsInv, RunsTyped, Charge
<1>3. /\ R \subseteq base[p] /\ L \subseteq base[p]
      /\ \A row \in R : RowFits(row) /\ row.rec \in logged /\ row.run = RunOf[row.rec]
      /\ \A row \in L : TableOf[row.rec] = "links"
  <2>1. R \subseteq base[p] /\ L \subseteq base[p]
    BY DEF Moving, Held, In
  <2>2. \A row \in L : TableOf[row.rec] = "links"
    BY DEF Held, In
  <2> QED
    BY <2>1, <2>2 DEF RunsInv, RunsTyped, RowFits
<1>4. f \in Places /\ t \in Places /\ f[1] = p /\ t[1] = q /\ f[2] = n /\ t[2] = n
  BY DEF Places
<1>5. \A row \in R : \A x : x = New(row) =>
         /\ RowFits(x) /\ x.rec = row.rec /\ x.run = row.run
         /\ x.dir = Readdress(row.dir, f, t)
  BY <1>3, MovedRow
<1>6. /\ A \subseteq R
      /\ \A row \in R : TableOf[row.rec] = "configs" => row \in A
      /\ \A row \in R \ A : \E x \in base[q] \ C : x.rec = row.rec
  <2>1. /\ A \subseteq R
        /\ \A row \in R : TableOf[row.rec] = "configs" => row \in A
        /\ \A row \in R \ A : /\ TableOf[row.rec] \in {"alerts", "traces"}
                              /\ \E x \in base[q] : x.rec = row.rec
    <3> HIDE DEF R
    <3> QED
      BY DEF Accepted
  <2>2. \A x \in C : TableOf[x.rec] = "configs"
    BY DEF Replaced, In
  <2> QED
    BY <2>1, <2>2
<1>7. \A x \in C : /\ TableOf[x.rec] = "configs"
                   /\ \E row \in R : TableOf[row.rec] = "configs" /\ row.run = x.run
  <2> HIDE DEF R
  <2> QED
    BY DEF Replaced, In
<1> HIDE DEF R, L, A, C, New, f, t
<1>8. /\ base' = [r \in Projects |-> base'[r]]
      /\ base'[q] = (base[q] \ C) \cup {New(row) : row \in A}
      /\ \A r \in Projects \ {q} : base'[r] = base[r]
  BY <1>1 DEF RunsInv, RunsTyped
<1>9. ASSUME NEW r \in Projects, NEW x \in base'[r]
      PROVE  \/ x \in base[r]
             \/ r = q /\ \E z \in R : x = New(z) /\ z.rec = x.rec
  BY <1>5, <1>6, <1>8, <1>9
<1>10. PICK u : u = [op |-> "move", from |-> f, to |-> t, rows |-> R, links |-> L]
  OBVIOUS
<1>11. u.op = "move" /\ u.from = f /\ u.to = t /\ u.rows = R /\ u.links = L
  BY <1>10
<1>12. TaskTyped(u)'
  <2>1. \A row \in u.rows : RowFits(row)'
    BY <1>1, <1>3, <1>11, RowsStayTyped
  <2> QED
    BY <1>1, <1>4, <1>10, <1>11, <2>1 DEF TaskTyped
<1>13. /\ managing'[m] = u
       /\ \A m2 \in Managers \ {m} : managing'[m2] = managing[m2]
       /\ managing' = [m2 \in Managers |-> managing'[m2]]
       /\ \A m2 \in Managers : TaskTyped(managing[m2])'
  BY <1>1, <1>10, <1>12, TasksStayTyped
<1>14. RunsTyped'
  <2>1. ASSUME NEW r \in Projects, NEW x \in base'[r] PROVE RowFits(x)'
    <3>1. RowFits(x)
      BY <1>5, <1>9, <2>1 DEF RunsInv, RunsTyped
    <3> QED
      BY <1>1, <3>1, RowsStayTyped
  <2>2. locked' \in [Projects -> Managers \cup {Unlocked}]
    BY <1>1 DEF RunsInv, RunsTyped
  <2>3. rewritten' \subseteq logged
    BY <1>1, <1>3 DEF RunsInv, RunsTyped
  <2> QED
    BY <1>1, <1>2, <1>8, <1>13, <2>1, <2>2, <2>3 DEF RunsInv, RunsTyped
<1>15. LocksFit'
  <2> SUFFICES ASSUME NEW r \in Projects, NEW m2 \in Managers
               PROVE  locked'[r] = m2 <=> r \in Owns(managing'[m2])
    BY DEF LocksFit, Owns
  <2>1. locked[r] = m2 <=> r \in Owns(managing[m2])
    BY DEF RunsInv, LocksFit
  <2>2. locked'[r] = IF r = p \/ r = q THEN m ELSE locked[r]
    BY <1>1 DEF RunsInv, RunsTyped
  <2>3. Owns(u) = {p, q} /\ Owns(Idle) = {}
    BY <1>4, <1>11 DEF Owns, Idle, Working
  <2>4. CASE m2 = m
    BY <1>1, <1>13, <2>1, <2>2, <2>3, <2>4
  <2>5. CASE m2 # m
    BY <1>1, <1>13, <2>1, <2>2, <2>5, ProjectRunsAssumption
  <2> QED
    BY <2>4, <2>5
<1>16. Lives'
  <2> SUFFICES ASSUME NEW e \in logged, RunOf[e] \notin disowned, TableOf[e] # "links"
               PROVE  \E r \in Projects : \E x \in base'[r] : Stands(x.rec, e)
    BY <1>1 DEF Lives, Stands
  <2>1. PICK r \in Projects : \E x \in base[r] : Stands(x.rec, e)
    BY DEF RunsInv, Lives
  <2>2. PICK x \in base[r] : Stands(x.rec, e)
    BY <2>1
  <2>3. CASE r = q /\ x \in C
    <3>1. PICK row \in R : TableOf[row.rec] = "configs" /\ row.run = x.run
      BY <1>7, <2>3
    <3>2. New(row) \in base'[q] /\ New(row).rec = row.rec
      BY <1>5, <1>6, <1>8, <3>1
    <3>3. x.run = RunOf[x.rec] /\ TableOf[x.rec] = "configs"
      BY <1>7, <2>3 DEF RunsInv, RunsTyped, RowFits
    <3>4. Stands(row.rec, e)
      BY <1>3, <2>2, <3>1, <3>3 DEF Stands
    <3> QED
      BY <3>2, <3>4
  <2>4. CASE ~(r = q /\ x \in C)
    BY <1>8, <2>2, <2>4
  <2> QED
    BY <2>3, <2>4
<1>17. \A r, x, s : Leaving(r, x, s) => Leaving(r, x, s)'
  BY <1>1, <1>13 DEF Leaving, Idle
<1>18. \A x \in R : Leaving(p, x, q)'
  BY <1>4, <1>11, <1>13 DEF Leaving
<1>19. ASSUME NEW z \in R, NEW r \in Projects, NEW y \in base[r], z.rec = y.rec, Sole(z.rec)
       PROVE  r = p /\ y = z
  <2>1. ~Leaving(p, z, r) /\ ~Leaving(r, y, p)
    BY <1>1, NoLeavingUnlocked
  <2> QED
    BY <1>3, <1>19, <2>1 DEF RunsInv, Alone
<1>20. Alone'
  <2> SUFFICES ASSUME NEW r \in Projects, NEW s \in Projects,
                      NEW x \in base'[r], NEW y \in base'[s], x.rec = y.rec, Sole(x.rec)'
               PROVE  (r = s /\ x = y) \/ Leaving(r, x, s)' \/ Leaving(s, y, r)'
    BY DEF Alone
  <2>1. Sole(x.rec)
    BY <1>1, <1>2 DEF Sole
  <2>2. CASE x \in base[r] /\ y \in base[s]
    BY <1>17, <2>1, <2>2 DEF RunsInv, Alone
  <2>3. CASE x \notin base[r]
    <3>1. PICK z \in R : r = q /\ x = New(z) /\ z.rec = x.rec
      BY <1>9, <2>3
    <3>2. CASE y \in base[s]
      BY <1>18, <1>19, <2>1, <3>1, <3>2
    <3>3. CASE y \notin base[s]
      <4>1. PICK w \in R : s = q /\ y = New(w) /\ w.rec = y.rec
        BY <1>9, <3>3
      <4>2. w = z
        BY <1>3, <1>19, <2>1, <3>1, <4>1
      <4> QED
        BY <3>1, <4>1, <4>2
    <3> QED
      BY <3>2, <3>3
  <2>4. CASE x \in base[r] /\ y \notin base[s]
    <3>1. PICK z \in R : s = q /\ y = New(z) /\ z.rec = y.rec
      BY <1>9, <2>4
    <3> QED
      BY <1>18, <1>19, <2>1, <2>4, <3>1
  <2> QED
    BY <2>2, <2>3, <2>4
<1>21. Unmoved'
  <2> SUFFICES ASSUME NEW r \in Projects, NEW x \in base'[r], x.rec \notin rewritten'
               PROVE  x \in base[r] /\ x.rec \notin rewritten
    BY DEF RunsInv, Unmoved
  <2> QED
    BY <1>1, <1>9
<1>22. Origin'
  BY <1>1 DEF RunsInv, Origin, FileAt
<1>23. Found'
  <2> SUFFICES ASSUME NEW r \in Projects, NEW x \in base'[r], projectCount.repeat = 0,
                      x.dir # << >>, x.rec \notin strayed,
                      \A m2 \in Managers : ~HasInHand(managing'[m2], x.rec)
               PROVE  FileAt(x.dir, x.rec)
    BY <1>1, <1>2 DEF Found, HasInHand, FileAt
  <2>1. x \in base[r]
    <3>1. \A z \in R : z.rec # x.rec
      BY <1>11, <1>13 DEF HasInHand, Working
    <3> QED
      BY <1>9, <3>1
  <2>2. \A m2 \in Managers : ~HasInHand(managing[m2], x.rec)
    BY <1>1, <1>13, IdleHasNothing
  <2> QED
    BY <2>1, <2>2 DEF RunsInv, Found
<1>24. TaskRows(managing[m])'
  <2>1. R \cup L \subseteq base'[p]
    BY <1>1, <1>3, <1>8
  <2>2. \A row \in R : row.rec \in rewritten'
    BY <1>1
  <2>3. ASSUME NEW row \in R PROVE \E x \in base'[q] : x.rec = row.rec
    <3>1. CASE row \in A
      <4>1. New(row) \in base'[q] /\ New(row).rec = row.rec
        BY <1>5, <1>8, <3>1
      <4> QED
        BY <4>1
    <3>2. CASE row \notin A
      BY <1>6, <1>8, <3>2
    <3> QED
      BY <3>1, <3>2
  <2>4. TaskRows(u)'
    BY <1>3, <1>4, <1>11, <2>1, <2>2, <2>3 DEF TaskRows, Working
  <2> QED
    BY <1>13, <2>4 DEF TaskRows
<1>25. Carried(managing[m])'
  <2>1. ASSUME projectCount.repeat = 0, NEW row \in R, row.rec \notin strayed
        PROVE  /\ row.dir # << >> => FileAt(row.dir, row.rec)
               /\ \A x \in base'[q] : x.rec = row.rec => x.dir = Readdress(row.dir, f, t)
    <3>1. Sole(row.rec)
      BY <2>1 DEF Sole, RunsInv, RunsTyped
    <3>2. \A m2 \in Managers : ~HasInHand(managing[m2], row.rec)
      BY <1>1, <1>3, <2>1, <3>1, NobodyHas
    <3>3. row.dir # << >> => FileAt(row.dir, row.rec)
      BY <1>3, <2>1, <3>2 DEF RunsInv, Found
    <3>4. ASSUME NEW x \in base'[q], x.rec = row.rec PROVE x.dir = Readdress(row.dir, f, t)
      <4>1. x \notin base[q]
        BY <1>1, <1>19, <3>1, <3>4
      <4>2. PICK z \in R : x = New(z) /\ z.rec = x.rec
        BY <1>9, <4>1
      <4>3. z = row
        BY <1>3, <1>19, <3>1, <3>4, <4>2
      <4> QED
        BY <1>5, <4>2, <4>3
    <3> QED
      BY <3>3, <3>4
  <2> QED
    BY <1>1, <1>2, <1>4, <1>11, <1>13, <2>1 DEF Carried, FileAt, Readdress
<1>26. TasksFit'
  <2> SUFFICES ASSUME NEW m2 \in Managers \ {m}
               PROVE  TaskRows(managing[m2])' /\ Carried(managing[m2])'
    BY <1>24, <1>25 DEF TasksFit
  <2>1. \A d \in Places : \A e : FileAt(d, e) => FileAt(d, e)'
    BY <1>1 DEF FileAt
  <2>2. \A r \in Projects : locked[r] = m2 => base'[r] = base[r]
    BY <1>1, <1>8, ProjectRunsAssumption
  <2> QED
    BY <1>1, <1>2, <1>13, <2>1, <2>2, TaskRowsStay, CarriedStays
<1> QED
  BY <1>14, <1>15, <1>16, <1>20, <1>21, <1>22, <1>23, <1>26 DEF RunsInv

LEMMA RunsInvNext == RunsInv /\ [ProjectNext]_projectVars => RunsInv'
<1> SUFFICES ASSUME RunsInv, [ProjectNext]_projectVars PROVE RunsInv'
  OBVIOUS
<1>1. CASE UNCHANGED projectVars
  <2>1. RunsTyped' /\ LocksFit' /\ Lives'
    BY <1>1 DEF RunsInv, projectVars, RunsTyped, RowFits, TaskTyped, LocksFit, Owns, Lives
  <2>2. Alone' /\ Unmoved' /\ Origin' /\ Found'
    BY <1>1 DEF RunsInv, projectVars, Alone, Sole, Leaving, Unmoved, Origin, Found, FileAt,
              HasInHand
  <2>3. TasksFit'
    BY <1>1 DEF RunsInv, projectVars, TasksFit, TaskRows, Carried, FileAt
  <2> QED
    BY <2>1, <2>2, <2>3 DEF RunsInv
<1>2. CASE \E e \in Records : SaveMedia(e) \/ LogRecord(e)
  BY <1>2, SaveMediaKeeps, LogRecordKeeps
<1>3. ASSUME NEW p \in Projects, NEW id, NEW n \in Names,
             \/ DeleteRun(p, id, n)
             \/ \E m \in Managers : \/ \E new \in Names : RenameRun(m, p, id, n, new)
                                    \/ \E q \in Projects : MoveRun(m, p, q, id, n)
      PROVE  RunsInv'
  BY <1>3, DeleteRunKeeps, RenameRunKeeps, MoveRunKeeps
<1>4. ASSUME NEW m \in Managers,
             \/ FinishRename(m) \/ MoveMedia(m) \/ FinishMove(m)
             \/ \E p \in Projects : UnlinkDatabase(m, p)
             \/ RemoveDirectories(m) \/ CutManager(m)
      PROVE  RunsInv'
  BY <1>4, FinishRenameKeeps, MoveMediaKeeps, FinishMoveKeeps, UnlinkDatabaseKeeps,
     RemoveDirectoriesKeeps, CutManagerKeeps
<1> QED
  BY <1>1, <1>2, <1>3, <1>4 DEF ProjectNext

\* In the three conditions under which RecordsKept and MediaKept promise something,
\* the invariant gives what they promise.
LEMMA RunsInvGives == RunsInv => ProjectTypeOK /\ RecordsKept /\ MediaKept
<1> SUFFICES ASSUME RunsInv PROVE ProjectTypeOK /\ RecordsKept /\ MediaKept
  OBVIOUS
<1>1. ProjectTypeOK
  <2>1. ASSUME NEW p \in Projects, locked[p] # Unlocked PROVE managing[locked[p]] # Idle
    <3>1. locked[p] \in Managers
      BY <2>1 DEF RunsInv, RunsTyped
    <3>2. managing[locked[p]].op \in Working
      BY <3>1, LockedByWork
    <3> QED
      BY <3>2 DEF Idle, Working
  <2>2. \A p \in Projects : \A row \in base[p] : /\ row.rec \in logged
                                               /\ row.run = RunOf[row.rec]
                                               /\ row.name \in Names
    BY DEF RunsInv, RunsTyped, RowFits
  <2> QED
    BY <2>1, <2>2 DEF RunsInv, RunsTyped, ProjectTypeOK
<1>2. ASSUME NEW e \in logged, RunOf[e] \notin disowned, TableOf[e] # "links"
      PROVE  RowsOf(e) # {} \/ Superseded(e)
  <2>1. PICK p \in Projects : \E row \in base[p] : Stands(row.rec, e)
    BY <1>2 DEF RunsInv, Lives
  <2>2. PICK row \in base[p] : Stands(row.rec, e)
    BY <2>1
  <2>3. CASE row.rec = e
    <3>1. <<p, row>> \in RowsOf(e)
      BY <2>3 DEF RowsOf
    <3> QED
      BY <3>1
  <2>4. CASE row.rec # e
    <3>1. row.run = RunOf[row.rec]
      BY DEF RunsInv, RunsTyped, RowFits
    <3> QED
      BY <2>2, <2>4, <3>1 DEF Stands, Superseded, In
  <2> QED
    BY <2>3, <2>4
<1>3. ASSUME NEW e \in logged, projectCount.repeat > 0 => e \notin rewritten, e \notin doubled,
             \A m \in Managers : e \notin BetweenCommits(m)
      PROVE  Cardinality(RowsOf(e)) <= 1
  <2>1. ASSUME NEW p \in Projects, NEW q \in Projects, NEW x \in base[p], NEW y \in base[q],
               x.rec = e, y.rec = e
        PROVE  p = q /\ x = y
    <3>1. ~Leaving(p, x, q) /\ ~Leaving(q, y, p)
      BY <1>3, <2>1 DEF Leaving, BetweenCommits
    <3> QED
      BY <1>3, <2>1, <3>1 DEF RunsInv, Alone, Sole
  <2>2. \A a, b \in RowsOf(e) : a = b
    <3> SUFFICES ASSUME NEW a \in RowsOf(e), NEW b \in RowsOf(e) PROVE a = b
      OBVIOUS
    <3>1. PICK p \in Projects : \E x \in base[p] : x.rec = e /\ a = <<p, x>>
      BY DEF RowsOf
    <3>2. PICK x \in base[p] : x.rec = e /\ a = <<p, x>>
      BY <3>1
    <3>3. PICK q \in Projects : \E y \in base[q] : y.rec = e /\ b = <<q, y>>
      BY DEF RowsOf
    <3>4. PICK y \in base[q] : y.rec = e /\ b = <<q, y>>
      BY <3>3
    <3> QED
      BY <2>1, <3>2, <3>4
  <2>3. CASE RowsOf(e) = {}
    BY <2>3, FS_EmptySet
  <2>4. CASE RowsOf(e) # {}
    <3>1. PICK a : RowsOf(e) = {a}
      BY <2>2, <2>4
    <3> QED
      BY <3>1, FS_Singleton
  <2> QED
    BY <2>3, <2>4
<1>4. RecordsKept
  BY <1>2, <1>3 DEF RecordsKept
<1>5. MediaKept
  <2> SUFFICES ASSUME NEW p \in Projects, NEW x \in base[p], x.dir # << >>, x.rec \notin strayed,
                      projectCount.repeat > 0 => x.rec \notin rewritten,
                      \A m \in Managers : managing[m] # Idle =>
                         managing[m].op = "empty" \/ \A y \in managing[m].rows : y.rec # x.rec
               PROVE  FileAt(x.dir, x.rec)
    BY DEF MediaKept, FileAt
  <2>1. CASE projectCount.repeat = 0
    <3>1. \A m \in Managers : ~HasInHand(managing[m], x.rec)
      BY DEF HasInHand, Working, Idle
    <3> QED
      BY <2>1, <3>1 DEF RunsInv, Found
  <2>2. CASE projectCount.repeat # 0
    <3>1. x.rec \notin rewritten
      BY <2>2 DEF RunsInv, RunsTyped
    <3>2. x.dir = <<Home, NameAt[RunOf[x.rec]]>>
      BY <3>1 DEF RunsInv, Unmoved
    <3>3. x.rec \in saved
      BY DEF RunsInv, RunsTyped, RowFits
    <3> QED
      BY <3>1, <3>2, <3>3 DEF RunsInv, Origin
  <2> QED
    BY <2>1, <2>2
<1> QED
  BY <1>1, <1>4, <1>5

\* bulk_log, rename_run, move_run, delete_run and delete_project, by any managers and
\* with any crashes, keep the rows and the media files of runs nobody asked to delete.
THEOREM RunsAreKept == ProjectSpec => [](ProjectTypeOK /\ RecordsKept /\ MediaKept)
<1>1. RunsInv => ProjectTypeOK /\ RecordsKept /\ MediaKept
  BY RunsInvGives
<1> QED
  BY <1>1, RunsInvInit, RunsInvNext, PTL DEF ProjectSpec

----------------------------------------------------------------------------
(***************************************************************************)
(* The server.                                                             *)
(***************************************************************************)

ServerInv == RunsInv /\ HubInv /\ CacheInv

LEMMA ServerInvInit == MCInit => ServerInv
BY RunsInvInit, HubInvInit, CacheInvInit DEF MCInit, ServerInv

LEMMA ServerInvNext == ServerInv /\ [MCNext]_mcVars => ServerInv'
<1> SUFFICES ASSUME ServerInv, [MCNext]_mcVars PROVE ServerInv'
  OBVIOUS
<1>1. [ProjectNext]_projectVars /\ [HubNext]_hubVars /\ [CacheNext]_cacheVars
  BY DEF MCNext, mcVars, Mirrors
<1> QED
  BY <1>1, RunsInvNext, HubInvNext, CacheInvNext DEF ServerInv

\* The server on SQLite, as StorageKept puts it: the rows and the media files of runs
\* that nobody asked to delete survive renaming, moving, repeated delivery and crashes;
\* the mirror and the caches take for current only what is.
THEOREM StorageBeside == MCSpec => []StorageKept
<1>1. ServerInv => StorageKept
  BY RunsInvGives, HubInvGives, CacheInvGives DEF ServerInv, StorageKept
<1> QED
  BY <1>1, ServerInvInit, ServerInvNext, PTL DEF MCSpec

\* The dataset of a Space, as the scheduler and force_sync write it beside the rest
\* of the server, loses no row that nobody deleted.
THEOREM ArchivesBeside == MCSpec => ArchivedKept
<1>1. MCSpec => []HubInv
  BY ServerInvInit, ServerInvNext, PTL DEF MCSpec, ServerInv
<1>2. HubInv /\ [MCNext]_mcVars => [Archived]_hubVars
  <2> SUFFICES ASSUME HubInv, [MCNext]_mcVars PROVE [Archived]_hubVars
    OBVIOUS
  <2>1. [HubNext]_hubVars
    BY DEF MCNext, mcVars, Mirrors
  <2> QED
    BY <2>1, StepsArchive
<1>3. MCSpec => [][Archived]_hubVars
  BY <1>1, <1>2, PTL DEF MCSpec
<1> QED
  BY <1>3 DEF ArchivedKept, Archived

==============================================================================
