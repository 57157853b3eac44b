--------------------------- MODULE RunSender_proofs ---------------------------
(***************************************************************************)
(* RunSender for any number of runs, syncs, entries and destinations, and  *)
(* any bounds on the faults: nothing is lost while it is under way, the    *)
(* flag of a process covers the rows it wrote, and a run that reached its   *)
(* Space has sent what it found pending there.                             *)
(***************************************************************************)
EXTENDS RunSender, TLAPS

Sending == {"sending", "failing"}
Dormant == {"none", "connecting", "waiting", "exiting"}

\* Entries that exist only in the process of a: queued, or taken by a round.
InFlight(a) == queue[a] \cup (IF thread[a] \in Sending THEN batch[a] ELSE {})

\* An entry in flight belongs to its process, was logged, and is not in the database
\* yet; it is not both queued and in a call.  Outside a round nothing is in a call.
InFlightSound ==
  \A a \in Actors :
    /\ \A e \in InFlight(a) : Owner[e] = a /\ e \in logged /\ e \notin database
    /\ thread[a] \in Sending => queue[a] \cap batch[a] = {}
    /\ thread[a] \in Dormant => batch[a] = {}

\* Rows are of entries that were logged, and only of those that are replayed.
RowsSound ==
  /\ database \subseteq logged
  /\ \A e \in pending : Kind[e] # "alert" /\ Dest[Owner[e]] # Local
  /\ \A a \in Actors : inherited[a] \subseteq database

\* The replay of a has not passed e: the table of e is still to be read, or it is the
\* one that a has read, e included.
Ahead(a, e) ==
  \E i \in stage[a]..3 :
    /\ Kind[e] = KindOrder[i]
    /\ i = stage[a] /\ batch[a] # {} => e \in batch[a]

\* The rows that a must not leave behind: its own, and those that its init found.
Watched(a) == {e \in pending : Owner[e] = a \/ e \in inherited[a]}

ReplayAhead ==
  /\ \A r \in Runs : thread[r] = "replaying" => \A e \in Watched(r) : Ahead(r, e)
  /\ \A a \in Actors : thread[a] = "replaying" /\ batch[a] # {} => stage[a] <= 3

\* What a run found pending for its Space keeps its flag set until it is gone.
FlagCoversInherited ==
  \A r \in Runs : Dest[r] \in Spaces /\ phase[r] \notin {"new", "gone"} =>
    r \in hasBuffer \/ inherited[r] \cap pending = {}

\* Phases and threads.
PhasesSound ==
  /\ \A a \in Actors : phase[a] \in {"new", "gone"} => thread[a] = "none"
  /\ \A r \in Runs :
       /\ phase[r] = "new" => queue[r] = {} /\ r \notin client
       /\ thread[r] = "exiting" => phase[r] \in {"stopping", "finished"}
       /\ thread[r] = "connecting" => r \notin client
       /\ thread[r] = "none" /\ phase[r] = "open" => queue[r] = {}
       /\ thread[r] \in {"none", "exiting"} /\ phase[r] \in {"stopping", "finished"} =>
            queue[r] \subseteq late

\* A thread that ended after it had a client has sent what the run found.
EndedClean ==
  \A r \in Runs :
    /\ Dest[r] \in Spaces /\ phase[r] # "gone" /\ r \in client
    /\ thread[r] \in {"none", "exiting"}
    => inherited[r] \cap pending = {}

SenderInv ==
  /\ TypeOK /\ InFlightSound /\ RowsSound /\ ReplayAhead /\ FlagCoversRows
  /\ FlagCoversInherited /\ PhasesSound /\ EndedClean /\ KeptUntilDelivered
------------------------------------------------------------------------------
\* The operators of the model.

LEMMA KindFacts ==
  /\ \A k \in Kinds : k # "alert" => \E i \in 1..3 : k = KindOrder[i]
  /\ \A i, j \in 1..4 : KindOrder[i] = KindOrder[j] => i = j
  /\ \A i \in 1..3 : KindOrder[i] \in Kinds /\ KindOrder[i] # "alert"
  BY DEF Kinds, KindOrder

LEMMA PendableFacts ==
  ASSUME NEW S
  PROVE  /\ Pendable(S) \subseteq S
         /\ \A e \in Pendable(S) : Kind[e] # "alert" /\ Dest[Owner[e]] # Local
         /\ \A e \in S : Pendable({e}) # {} => e \in Pendable(S)
  BY DEF Pendable

\* What _persist_*_locally does to the rows, the flag and the history.
LEMMA KeepFacts ==
  ASSUME NEW r, NEW S, NEW lost, Keep(r, S, lost), lost \subseteq S
  PROVE  /\ database \subseteq database' /\ database' \subseteq database \cup S
         /\ pending \subseteq pending' /\ pending' \subseteq pending \cup S
         /\ \A e \in pending' \ pending :
              Kind[e] # "alert" /\ Dest[Owner[e]] # Local /\ e \in database'
         /\ \A e \in S \ dropped' :
              e \in database' /\ (Pendable({e}) # {} => e \in pending')
         /\ dropped \subseteq dropped' /\ dropped' \subseteq dropped \cup S
         /\ hasBuffer \subseteq hasBuffer' /\ hasBuffer' \subseteq hasBuffer \cup {r}
         /\ pending' # pending => r \in hasBuffer'
  BY PendableFacts DEF Keep

LEMMA FlushFacts ==
  ASSUME NEW r \in Actors, NEW S \in SUBSET Entries, FlushQueues(r, S)
  PROVE  /\ queue' = [queue EXCEPT ![r] = {}]
         /\ \E lost \in SUBSET S : Keep(r, S, lost)
         /\ faults \in [send : Nat, local : Nat, crash : Nat] =>
              faults' \in [send : Nat, local : Nat, crash : Nat]
<1>1. PICK lost \in {{}} \cup {OfKind(S, k) : k \in Kinds} :
        /\ Keep(r, S, lost)
        /\ faults' = [faults EXCEPT !.local = @ + Losses(lost)]
  BY DEF FlushQueues
<1>2. lost \in SUBSET S
  BY DEF OfKind
<1>3. ASSUME faults \in [send : Nat, local : Nat, crash : Nat]
      PROVE  faults' \in [send : Nat, local : Nat, crash : Nat]
  BY <1>1, <1>3 DEF Losses
<1> QED
  BY <1>1, <1>2, <1>3 DEF FlushQueues

\* What the server of a receives is added to what servers hold.
LEMMA ReceiveFacts ==
  ASSUME NEW a \in Actors, Receive(a) \/ UNCHANGED server,
         server \in [Destinations -> SUBSET Entries], batch[a] \in SUBSET Entries
  PROVE  /\ server' \in [Destinations -> SUBSET Entries]
         /\ Delivered \subseteq Delivered'
         /\ Receive(a) => batch[a] \subseteq Delivered'
<1>1. Dest[a] \in Destinations
  BY DEF Destinations
<1>2. CASE Receive(a)
  <2>1. server' = [server EXCEPT ![Dest[a]] = @ \cup batch[a]]
    BY <1>2 DEF Receive
  <2>2. server' \in [Destinations -> SUBSET Entries]
    BY <1>1, <2>1
  <2>3. \A d \in Destinations : server[d] \subseteq server'[d]
    BY <1>1, <2>1
  <2>4. batch[a] \subseteq server'[Dest[a]]
    BY <1>1, <2>1
  <2> QED
    BY <1>1, <2>2, <2>3, <2>4 DEF Delivered
<1>3. CASE UNCHANGED server
  <2>1. ~Receive(a) \/ batch[a] \subseteq Delivered'
    <3>1. ASSUME Receive(a) PROVE batch[a] \subseteq server'[Dest[a]]
      BY <1>1, <3>1 DEF Receive
    <3> QED
      BY <1>1, <3>1 DEF Delivered
  <2> QED
    BY <1>3, <2>1 DEF Delivered
<1> QED
  BY <1>2, <1>3
------------------------------------------------------------------------------
\* The types.

\* A flush by r of rows in flight keeps the types of what it writes.
LEMMA FlushTyped ==
  ASSUME TypeOK, RowsSound, NEW r \in Runs, NEW S \in SUBSET Entries, S \subseteq logged',
         logged \subseteq logged', logged' \subseteq Entries, FlushQueues(r, S)
  PROVE  /\ queue' \in [Actors -> SUBSET Entries] /\ hasBuffer' \subseteq Runs
         /\ database' \subseteq Entries /\ pending' \subseteq database'
         /\ dropped' \subseteq logged'
         /\ faults' \in [send : Nat, local : Nat, crash : Nat]
<1>1. r \in Actors
  BY DEF Actors
<1>2. PICK lost \in SUBSET S : Keep(r, S, lost)
  BY <1>1, FlushFacts
<1>3. /\ queue' = [queue EXCEPT ![r] = {}]
      /\ faults' \in [send : Nat, local : Nat, crash : Nat]
  BY <1>1, FlushFacts DEF TypeOK
<1>4. hasBuffer' \subseteq Runs
  BY <1>2, KeepFacts DEF TypeOK
<1>5. database' \subseteq Entries /\ dropped' \subseteq logged'
  BY <1>2, KeepFacts DEF TypeOK
<1>6. pending' \subseteq database'
  BY <1>2, KeepFacts DEF TypeOK
<1> QED
  BY <1>1, <1>3, <1>4, <1>5, <1>6 DEF TypeOK

LEMMA NextTypeOK ==
  ASSUME SenderInv, [Next]_vars
  PROVE  TypeOK'
<1> USE SenderAssumption DEF SenderInv, SenderAssumption
<1>0. Actors = Runs \cup Syncs
  BY DEF Actors
<1>i. \A a \in Actors : \A e \in InFlight(a) : e \in logged
  BY DEF InFlightSound
<1>q. \A a \in Actors : queue[a] \subseteq logged
  BY <1>i DEF InFlight
<1>b. \A a \in Actors : thread[a] \in Sending => batch[a] \subseteq logged
  BY <1>i DEF InFlight
<1>1. ASSUME NEW r \in Runs, UserStep(r)
      PROVE  TypeOK'
  <2> r \in Actors
    BY <1>0
  <2>1. CASE InitRun(r)
    BY <2>1, <1>0 DEF InitRun, TypeOK, FirstState, ThreadStates, local
  <2>2. ASSUME NEW e \in Entries, Log(r, e)
        PROVE  TypeOK'
    BY <2>2, <1>0 DEF Log, Accept, TypeOK, FirstState, ThreadStates, local
  <2>3. ASSUME NEW e \in Entries, LogInline(r, e)
        PROVE  TypeOK'
    <3>1. /\ logged' = logged \cup {e} /\ FlushQueues(r, queue[r] \cup {e})
          /\ late' \subseteq logged'
          /\ UNCHANGED <<phase, client, batch, stage, server, inherited, thread>>
      BY <2>3 DEF LogInline, Accept, TypeOK
    <3>2. queue[r] \cup {e} \in SUBSET Entries /\ queue[r] \cup {e} \subseteq logged'
      BY <3>1, <1>q, <2>3 DEF TypeOK
    <3>3. logged \subseteq logged' /\ logged' \subseteq Entries
      BY <3>1 DEF TypeOK
    <3> HIDE DEF SenderInv
    <3>4. /\ queue' \in [Actors -> SUBSET Entries] /\ hasBuffer' \subseteq Runs
          /\ database' \subseteq Entries /\ pending' \subseteq database'
          /\ dropped' \subseteq logged'
          /\ faults' \in [send : Nat, local : Nat, crash : Nat]
      BY <3>1, <3>2, <3>3, FlushTyped DEF SenderInv
    <3> QED
      BY <3>1, <3>3, <3>4 DEF SenderInv, TypeOK
  <2>4. CASE Finish(r)
    BY <2>4, <1>0 DEF Finish, TypeOK, local, history
  <2>5. CASE JoinThread(r)
    BY <2>5, <1>0 DEF JoinThread, TypeOK, local, history
  <2>6. CASE JoinTimesOut(r)
    <3>0. /\ phase' = [phase EXCEPT ![r] = "finished"]
          /\ UNCHANGED <<thread, client, batch, stage, server, logged, late, inherited>>
      BY <2>6 DEF JoinTimesOut
    <3>1. CASE UNCHANGED <<queue, hasBuffer, local, dropped, faults>>
      BY <3>0, <3>1 DEF TypeOK, local
    <3>2. CASE FlushQueues(r, queue[r])
      <4>1. queue[r] \in SUBSET Entries /\ queue[r] \subseteq logged'
        BY <3>0, <1>q DEF TypeOK
      <4>2. logged \subseteq logged' /\ logged' \subseteq Entries
        BY <3>0 DEF TypeOK
      <4>3. /\ queue' \in [Actors -> SUBSET Entries] /\ hasBuffer' \subseteq Runs
            /\ database' \subseteq Entries /\ pending' \subseteq database'
            /\ dropped' \subseteq logged'
            /\ faults' \in [send : Nat, local : Nat, crash : Nat]
        BY <3>2, <4>1, <4>2, FlushTyped
      <4> QED
        BY <3>0, <4>3 DEF TypeOK
    <3> QED
      BY <2>6, <3>1, <3>2 DEF JoinTimesOut
  <2> QED
    BY <1>1, <2>1, <2>2, <2>3, <2>4, <2>5, <2>6 DEF UserStep
<1>2. ASSUME NEW a \in Actors, ReplayStep(a)
      PROVE  TypeOK'
  <2>1. CASE ReplayRead(a)
    <3>1. OfKind(pending, KindOrder[stage[a]]) \in SUBSET Entries
      BY DEF OfKind, TypeOK
    <3>2. stage' \in [Actors -> 1..4]
      BY <2>1 DEF ReplayRead, TypeOK
    <3> QED
      BY <2>1, <3>1, <3>2 DEF ReplayRead, TypeOK, local, history
  <2>2. CASE ReplaySent(a)
    <3>1. stage[a] <= 3
      BY <2>2 DEF ReplaySent, ReplayAhead
    <3>2. stage' \in [Actors -> 1..4]
      BY <2>2, <3>1 DEF ReplaySent, TypeOK
    <3>3. server' \in [Destinations -> SUBSET Entries]
      BY <2>2, ReceiveFacts DEF ReplaySent, TypeOK
    <3> QED
      BY <2>2, <3>2, <3>3 DEF ReplaySent, TypeOK, history
  <2>3. CASE ReplayRaises(a)
    <3>1. server' \in [Destinations -> SUBSET Entries]
      BY <2>3, ReceiveFacts DEF ReplayRaises, TypeOK
    <3>2. faults' \in [send : Nat, local : Nat, crash : Nat]
      BY <2>3 DEF ReplayRaises, TypeOK
    <3> QED
      BY <2>3, <3>1, <3>2 DEF ReplayRaises, TypeOK, ThreadStates, local, history
  <2>4. CASE ReplayDone(a)
    BY <2>4 DEF ReplayDone, TypeOK, ThreadStates, local, history
  <2> QED
    BY <1>2, <2>1, <2>2, <2>3, <2>4 DEF ReplayStep
<1>3. ASSUME NEW r \in Runs, SenderStep(r)
      PROVE  TypeOK'
  <2> r \in Actors
    BY <1>0
  <2>1. CASE Connect(r) \/ StartRound(r) \/ LoopEnds(r) \/ ThreadEnds(r)
    BY <2>1 DEF Connect, StartRound, LoopEnds, ThreadEnds, TypeOK, ThreadStates, local,
                history
  <2>2. CASE StopConnecting(r) \/ LocalRound(r)
    <3>1. /\ FlushQueues(r, queue[r])
          /\ UNCHANGED <<phase, client, batch, stage, server, logged, late, inherited>>
          /\ thread' \in [Actors -> ThreadStates]
      BY <2>2 DEF StopConnecting, LocalRound, TypeOK, ThreadStates
    <3>2. queue[r] \in SUBSET Entries /\ queue[r] \subseteq logged'
      BY <3>1, <1>q DEF TypeOK
    <3>3. logged \subseteq logged' /\ logged' \subseteq Entries
      BY <3>1 DEF TypeOK
    <3>4. /\ queue' \in [Actors -> SUBSET Entries] /\ hasBuffer' \subseteq Runs
          /\ database' \subseteq Entries /\ pending' \subseteq database'
          /\ dropped' \subseteq logged'
          /\ faults' \in [send : Nat, local : Nat, crash : Nat]
      BY <3>1, <3>2, <3>3, FlushTyped
    <3> QED
      BY <3>1, <3>4 DEF TypeOK
  <2>3. CASE TakeBatch(r)
    <3>1. NextBatch(r) \in SUBSET Entries
      BY DEF NextBatch, TypeOK
    <3> QED
      BY <2>3, <3>1 DEF TakeBatch, TypeOK, local, history
  <2>4. CASE PredictReturns(r)
    <3>1. server' \in [Destinations -> SUBSET Entries]
      BY <2>4, ReceiveFacts DEF PredictReturns, TypeOK
    <3> QED
      BY <2>4, <3>1 DEF PredictReturns, TypeOK, local, history
  <2>5. CASE PredictRaises(r)
    <3>1. PICK lost \in {{}, batch[r]} :
            /\ Keep(r, batch[r], lost)
            /\ faults' = [faults EXCEPT !.send = @ + 1, !.local = @ + Losses(lost)]
      BY <2>5 DEF PredictRaises
    <3>2. faults' \in [send : Nat, local : Nat, crash : Nat]
      <4>1. faults \in [send : Nat, local : Nat, crash : Nat] /\ Losses(lost) \in Nat
        BY DEF TypeOK, Losses
      <4>2. faults.send + 1 \in Nat /\ faults.local + Losses(lost) \in Nat
        BY <4>1
      <4> HIDE DEF SenderInv
      <4> QED
        BY <3>1, <4>1, <4>2
    <3>3. server' \in [Destinations -> SUBSET Entries]
      BY <2>5, ReceiveFacts DEF PredictRaises, TypeOK
    <3>4. batch[r] \subseteq logged
      BY <2>5, <1>b DEF PredictRaises, Sending
    <3>5. /\ database' \subseteq Entries /\ pending' \subseteq database'
          /\ dropped' \subseteq logged /\ hasBuffer' \subseteq Runs
      <4>1. lost \subseteq batch[r]
        BY <3>1
      <4>2. database' \subseteq Entries /\ dropped' \subseteq logged /\ hasBuffer' \subseteq Runs
        BY <3>1, <3>4, <4>1, KeepFacts DEF TypeOK
      <4>3. pending' \subseteq database'
        BY <3>1, <4>1, KeepFacts DEF TypeOK
      <4> QED
        BY <4>2, <4>3
    <3> QED
      BY <2>5, <3>2, <3>3, <3>5 DEF PredictRaises, TypeOK, ThreadStates
  <2>6. CASE EndRound(r)
    BY <2>6 DEF EndRound, TypeOK, ThreadStates, local, history
  <2> QED
    BY <1>2, <1>3, <2>1, <2>2, <2>3, <2>4, <2>5, <2>6 DEF SenderStep
<1>4. ASSUME NEW s \in Syncs, SyncIncremental(s)
      PROVE  TypeOK'
  BY <1>4, <1>0 DEF SyncIncremental, TypeOK, ThreadStates, local
<1>5. ASSUME NEW a \in Actors, EndProcess(a)
      PROVE  TypeOK'
  <2>1. server' \in [Destinations -> SUBSET Entries]
    BY <1>5, ReceiveFacts DEF EndProcess, TypeOK
  <2>2. faults' \in [send : Nat, local : Nat, crash : Nat]
    BY <1>5 DEF EndProcess, TypeOK
  <2>3. dropped' \subseteq logged
    <3>1. thread[a] \notin Sending /\ thread[a] # "replaying" => batch[a] = {}
      BY DEF InFlightSound, Sending, Dormant, TypeOK, ThreadStates
    <3> QED
      BY <1>5, <3>1, <1>q, <1>b DEF EndProcess, TypeOK
  <2> QED
    BY <1>5, <2>1, <2>2, <2>3 DEF EndProcess, TypeOK, ThreadStates, local
<1>6. CASE UNCHANGED vars
  BY <1>6 DEF vars, local, history, TypeOK
<1> QED
  BY <1>0, <1>1, <1>2, <1>3, <1>4, <1>5, <1>6 DEF Next
------------------------------------------------------------------------------
\* What is in flight, and the rows.

LEMMA NextInFlightSound ==
  ASSUME SenderInv, [Next]_vars
  PROVE  InFlightSound'
<1> USE SenderAssumption DEF SenderInv, SenderAssumption
<1>0. Actors = Runs \cup Syncs
  BY DEF Actors
<1>1. ASSUME NEW r \in Runs, UserStep(r)
      PROVE  InFlightSound'
  <2> r \in Actors
    BY <1>0
  <2> USE DEF InFlightSound, InFlight, Sending, Dormant, TypeOK, local, history
  <2>1. CASE InitRun(r)
    BY <2>1 DEF InitRun, FirstState, PhasesSound
  <2>2. ASSUME NEW e \in Entries, Log(r, e)
        PROVE  InFlightSound'
    <3>1. e \notin database
      BY <2>2 DEF Log, Accept, RowsSound
    <3>2. thread[r] \notin Sending
      BY <2>2 DEF Log, Accept, Locked
    <3> QED
      <4>1. /\ queue' = [queue EXCEPT ![r] = @ \cup {e}] /\ UNCHANGED <<batch, database>>
            /\ logged' = logged \cup {e} /\ Owner[e] = r
        BY <2>2 DEF Log, Accept
      <4>2. \/ UNCHANGED thread
            \/ thread[r] = "none" /\ \E t \in {"waiting", "connecting"} :
                 thread' = [thread EXCEPT ![r] = t]
        BY <2>2 DEF Log, FirstState, Alive
      <4> QED
        BY <3>1, <3>2, <4>1, <4>2
  <2>3. ASSUME NEW e \in Entries, LogInline(r, e)
        PROVE  InFlightSound'
    <3>1. /\ logged' = logged \cup {e} /\ FlushQueues(r, queue[r] \cup {e})
          /\ Owner[e] = r /\ ~Locked(r)
          /\ UNCHANGED <<batch, thread>>
      BY <2>3 DEF LogInline, Accept
    <3>2. /\ queue' = [queue EXCEPT ![r] = {}]
          /\ \E lost \in SUBSET (queue[r] \cup {e}) : Keep(r, queue[r] \cup {e}, lost)
      <4>1. queue[r] \cup {e} \in SUBSET Entries
        BY <2>3
      <4> HIDE DEF SenderInv, InFlightSound, InFlight, TypeOK
      <4> QED
        BY <3>1, <4>1, FlushFacts
    <3>3. database' \subseteq database \cup queue[r] \cup {e}
      BY <3>2, KeepFacts
    <3>4. \A x \in queue[r] \cup {e} : Owner[x] = r
      BY <3>1
    <3> QED
      BY <3>1, <3>2, <3>3, <3>4 DEF Locked
  <2>4. CASE Finish(r) \/ JoinThread(r)
    BY <2>4 DEF Finish, JoinThread
  <2>5. CASE JoinTimesOut(r)
    <3>1. ~Locked(r) /\ UNCHANGED <<batch, thread, logged>>
      BY <2>5 DEF JoinTimesOut
    <3>2. CASE UNCHANGED <<queue, database>>
      BY <3>1, <3>2
    <3>3. CASE FlushQueues(r, queue[r])
      <4>1. /\ queue' = [queue EXCEPT ![r] = {}]
            /\ \E lost \in SUBSET queue[r] : Keep(r, queue[r], lost)
        BY <3>3, FlushFacts
      <4>2. database' \subseteq database \cup queue[r]
        BY <4>1, KeepFacts
      <4> QED
        BY <3>1, <4>1, <4>2 DEF Locked
    <3> QED
      BY <2>5, <3>2, <3>3 DEF JoinTimesOut
  <2> QED
    BY <1>1, <2>1, <2>2, <2>3, <2>4, <2>5 DEF UserStep
<1>2. ASSUME NEW a \in Actors, ReplayStep(a)
      PROVE  InFlightSound'
  BY <1>2 DEF ReplayStep, ReplayRead, ReplaySent, ReplayRaises, ReplayDone, InFlightSound,
              InFlight, Sending, Dormant, TypeOK, local, history, ReplayAhead
<1>3. ASSUME NEW r \in Runs, SenderStep(r)
      PROVE  InFlightSound'
  <2> r \in Actors
    BY <1>0
  <2> USE DEF InFlightSound, InFlight, Sending, Dormant, TypeOK, local, history
  <2>1. CASE Connect(r) \/ StartRound(r) \/ LoopEnds(r) \/ ThreadEnds(r)
    BY <2>1 DEF Connect, StartRound, LoopEnds, ThreadEnds
  <2>2. CASE StopConnecting(r) \/ LocalRound(r)
    <3>1. /\ FlushQueues(r, queue[r]) /\ UNCHANGED <<batch, logged>>
          /\ thread[r] \in Dormant
          /\ thread' = [thread EXCEPT ![r] = "exiting"] \/ UNCHANGED thread
      BY <2>2 DEF StopConnecting, LocalRound
    <3>2. /\ queue' = [queue EXCEPT ![r] = {}]
          /\ \E lost \in SUBSET queue[r] : Keep(r, queue[r], lost)
      BY <3>1, FlushFacts
    <3>3. database' \subseteq database \cup queue[r]
      BY <3>2, KeepFacts
    <3> QED
      BY <3>1, <3>2, <3>3
  <2>3. CASE TakeBatch(r)
    <3>1. NextBatch(r) \subseteq queue[r]
      BY DEF NextBatch
    <3> QED
      BY <2>3, <3>1 DEF TakeBatch
  <2>4. CASE PredictReturns(r)
    BY <2>4 DEF PredictReturns
  <2>5. CASE PredictRaises(r)
    <3>1. \E lost \in SUBSET batch[r] : Keep(r, batch[r], lost)
      BY <2>5 DEF PredictRaises
    <3>2. database' \subseteq database \cup batch[r]
      BY <3>1, KeepFacts
    <3>3. \A x \in batch[r] : Owner[x] = r /\ x \notin queue[r]
      BY <2>5 DEF PredictRaises
    <3> QED
      BY <2>5, <3>2, <3>3 DEF PredictRaises
  <2>6. CASE EndRound(r)
    BY <2>6 DEF EndRound
  <2> QED
    BY <1>2, <1>3, <2>1, <2>2, <2>3, <2>4, <2>5, <2>6 DEF SenderStep
<1>4. ASSUME NEW s \in Syncs, SyncIncremental(s)
      PROVE  InFlightSound'
  BY <1>4, <1>0 DEF SyncIncremental, InFlightSound, InFlight, Sending, Dormant, TypeOK, local,
                    PhasesSound
<1>5. ASSUME NEW a \in Actors, EndProcess(a)
      PROVE  InFlightSound'
  BY <1>5 DEF EndProcess, InFlightSound, InFlight, Sending, Dormant, TypeOK, local
<1>6. CASE UNCHANGED vars
  BY <1>6 DEF vars, local, history, InFlightSound, InFlight
<1> QED
  BY <1>0, <1>1, <1>2, <1>3, <1>4, <1>5, <1>6 DEF Next

\* Every step writes to the database only entries in flight in one run, or just logged;
\* what becomes pending sets the flag of that run and may be replayed.
WritesOf(r) ==
  /\ database \subseteq database'
  /\ \A e \in database' \ database : Owner[e] = r /\ e \in logged'
  /\ \A e \in pending' \ pending :
       /\ e \in database' /\ e \notin database
       /\ Owner[e] = r /\ Kind[e] # "alert" /\ Dest[Owner[e]] # Local
  /\ pending \subseteq pending' /\ hasBuffer \subseteq hasBuffer'
  /\ hasBuffer' \subseteq hasBuffer \cup {r}
  /\ pending' # pending => r \in hasBuffer' /\ thread[r] # "replaying"

LEMMA KeepWrites ==
  ASSUME SenderInv, NEW r \in Runs, NEW S \in SUBSET Entries, NEW lost \in SUBSET S,
         Keep(r, S, lost), logged \subseteq logged', thread[r] # "replaying",
         \A e \in S : Owner[e] = r /\ e \in logged' /\ e \notin database
  PROVE  WritesOf(r)
<1>1. /\ database \subseteq database' /\ database' \subseteq database \cup S
      /\ pending \subseteq pending' /\ pending' \subseteq pending \cup S
  BY KeepFacts
<1>2. \A e \in pending' \ pending :
         Kind[e] # "alert" /\ Dest[Owner[e]] # Local /\ e \in database'
  BY KeepFacts
<1>3. /\ hasBuffer \subseteq hasBuffer' /\ hasBuffer' \subseteq hasBuffer \cup {r}
      /\ pending' # pending => r \in hasBuffer'
  BY KeepFacts
<1> QED
  BY <1>1, <1>2, <1>3 DEF WritesOf

LEMMA StepWrites ==
  ASSUME SenderInv, NEW r \in Runs, SenderStep(r) \/ UserStep(r), ~ReplayStep(r), ~InitRun(r)
  PROVE  WritesOf(r)
<1> USE SenderAssumption DEF SenderInv, SenderAssumption
<1> DEFINE Written == \E S \in SUBSET Entries : \E lost \in SUBSET S :
             /\ Keep(r, S, lost) /\ thread[r] # "replaying" /\ logged \subseteq logged'
             /\ \A e \in S : Owner[e] = r /\ e \in logged' /\ e \notin database
<1>0. r \in Actors
  BY DEF Actors
<1>1. /\ queue[r] \in SUBSET Entries /\ batch[r] \in SUBSET Entries
      /\ \A e \in queue[r] : Owner[e] = r /\ e \in logged /\ e \notin database
      /\ thread[r] \in Sending =>
           \A e \in batch[r] : Owner[e] = r /\ e \in logged /\ e \notin database
  BY <1>0 DEF TypeOK, InFlightSound, InFlight
<1>2. ASSUME NEW e \in Entries, LogInline(r, e)
      PROVE  Written
  <2>1. \E lost \in SUBSET (queue[r] \cup {e}) : Keep(r, queue[r] \cup {e}, lost)
    BY <1>0, <1>1, <1>2, FlushFacts DEF LogInline
  <2>2. Owner[e] = r /\ e \notin database /\ logged' = logged \cup {e} /\ thread[r] # "replaying"
    BY <1>2 DEF LogInline, Accept, RowsSound, Locked
  <2> QED
    BY <1>1, <2>1, <2>2
<1>3. ASSUME FlushQueues(r, queue[r]), UNCHANGED logged, thread[r] # "replaying"
      PROVE  Written
  BY <1>0, <1>1, <1>3, FlushFacts
<1>4. CASE PredictRaises(r)
  <2>1. Written
    BY <1>1, <1>4 DEF PredictRaises, Sending
  <2> QED
    BY <2>1, KeepWrites
<1>5. CASE JoinTimesOut(r)
  <2>1. CASE FlushQueues(r, queue[r])
    BY <1>3, <1>5, <2>1, KeepWrites DEF JoinTimesOut, Locked
  <2>2. CASE UNCHANGED <<queue, hasBuffer, local, dropped, faults>>
    BY <2>2 DEF WritesOf, local
  <2> QED
    BY <1>5, <2>1, <2>2 DEF JoinTimesOut
<1>6. CASE StopConnecting(r) \/ LocalRound(r)
  BY <1>3, <1>6, KeepWrites DEF StopConnecting, LocalRound
<1>7. ASSUME NEW e \in Entries, Log(r, e)
      PROVE  WritesOf(r)
  BY <1>7 DEF Log, WritesOf, local
<1>8. CASE Finish(r) \/ JoinThread(r) \/ Connect(r) \/ StartRound(r) \/ TakeBatch(r)
             \/ PredictReturns(r) \/ EndRound(r) \/ LoopEnds(r) \/ ThreadEnds(r)
  BY <1>8 DEF Finish, JoinThread, Connect, StartRound, TakeBatch, PredictReturns, EndRound,
              LoopEnds, ThreadEnds, WritesOf, local
<1> QED
  BY <1>2, <1>4, <1>5, <1>6, <1>7, <1>8, KeepWrites DEF SenderStep, UserStep
\* What the other steps of a run leave alone.
LEMMA StepFrame ==
  ASSUME SenderInv, NEW r \in Runs, SenderStep(r) \/ UserStep(r), ~ReplayStep(r), ~InitRun(r)
  PROVE  /\ logged \subseteq logged' /\ late \subseteq late' /\ UNCHANGED inherited
         /\ \A a \in Actors : a # r =>
              /\ thread'[a] = thread[a] /\ batch'[a] = batch[a] /\ stage'[a] = stage[a]
              /\ phase'[a] = phase[a] /\ queue'[a] = queue[a]
              /\ a \in client' <=> a \in client
         /\ phase'[r] # phase[r] => phase[r] \in {"open", "stopping"}
         /\ phase'[r] \in {"open", "stopping", "finished", "gone"} \/ phase'[r] = phase[r]
         /\ \/ thread'[r] # "replaying"
            \/ thread[r] = "replaying" /\ batch'[r] = batch[r] /\ stage'[r] = stage[r]
            \/ stage'[r] = 1 /\ batch'[r] = {}
<1> USE DEF SenderInv, TypeOK, history, local
<1>0. r \in Actors
  BY DEF Actors
<1>1. ASSUME NEW e \in Entries, LogInline(r, e)
      PROVE  queue' = [queue EXCEPT ![r] = {}] /\ thread'[r] # "replaying"
  BY <1>1, <1>0 DEF LogInline, Accept, FlushQueues, Locked
<1>2. ASSUME NEW e \in Entries, Log(r, e)
      PROVE  thread'[r] # "replaying"
  BY <1>2, <1>0 DEF Log, Accept, FirstState, Locked
<1>3. CASE \E e \in Entries : Log(r, e) \/ LogInline(r, e)
  BY <1>0, <1>1, <1>2, <1>3 DEF Log, LogInline, Accept
<1>4. CASE Finish(r) \/ JoinThread(r)
  BY <1>0, <1>4 DEF Finish, JoinThread
<1>5. CASE JoinTimesOut(r)
  BY <1>0, <1>5 DEF JoinTimesOut, FlushQueues
<1>6. CASE StopConnecting(r) \/ LocalRound(r)
  BY <1>0, <1>6 DEF StopConnecting, LocalRound, FlushQueues
<1>7. CASE Connect(r) \/ StartRound(r) \/ LoopEnds(r) \/ ThreadEnds(r)
  BY <1>0, <1>7 DEF Connect, StartRound, LoopEnds, ThreadEnds
<1>8. CASE TakeBatch(r) \/ PredictReturns(r)
  BY <1>0, <1>8 DEF TakeBatch, PredictReturns
<1>9. CASE PredictRaises(r)
  BY <1>0, <1>9 DEF PredictRaises
<1>10. CASE EndRound(r)
  BY <1>0, <1>10 DEF EndRound
<1> QED
  BY <1>3, <1>4, <1>5, <1>6, <1>7, <1>8, <1>9, <1>10 DEF SenderStep, UserStep

LEMMA NextRowsSound ==
  ASSUME SenderInv, [Next]_vars
  PROVE  RowsSound'
<1> USE SenderAssumption DEF SenderInv, SenderAssumption
<1>1. ASSUME NEW r \in Runs, SenderStep(r) \/ UserStep(r), ~ReplayStep(r), ~InitRun(r)
      PROVE  RowsSound'
  <2>1. WritesOf(r) /\ logged \subseteq logged' /\ UNCHANGED inherited
    BY <1>1, StepWrites, StepFrame
  <2> QED
    BY <2>1 DEF WritesOf, RowsSound
<1>2. ASSUME NEW r \in Runs, InitRun(r)
      PROVE  RowsSound'
  BY <1>2 DEF InitRun, RowsSound, local, TypeOK, Actors
<1>3. ASSUME NEW a \in Actors, ReplayStep(a)
      PROVE  RowsSound'
  BY <1>3 DEF ReplayStep, ReplayRead, ReplaySent, ReplayRaises, ReplayDone, RowsSound, local,
              history
<1>4. ASSUME NEW s \in Syncs, SyncIncremental(s)
      PROVE  RowsSound'
  BY <1>4 DEF SyncIncremental, RowsSound, local, TypeOK, Actors
<1>5. ASSUME NEW a \in Actors, EndProcess(a)
      PROVE  RowsSound'
  BY <1>5 DEF EndProcess, RowsSound, local
<1>6. CASE UNCHANGED vars
  BY <1>6 DEF vars, local, history, RowsSound
<1> QED
  BY <1>1, <1>2, <1>3, <1>4, <1>5, <1>6 DEF Next, Actors
------------------------------------------------------------------------------
\* Replay: a run that replays has its own rows and those that it found ahead of it.

\* Rows that become pending are watched by their run only.
LEMMA WatchedFacts ==
  ASSUME SenderInv, NEW r \in Runs, WritesOf(r), UNCHANGED inherited
  PROVE  /\ \A b \in Actors : b # r => Watched(b)' \subseteq Watched(b)
         /\ thread[r] = "replaying" => UNCHANGED pending
         /\ \A b \in Actors : inherited'[b] \cap pending' \subseteq inherited[b] \cap pending
<1>1. \A b \in Actors : inherited[b] \subseteq database
  BY DEF SenderInv, RowsSound
<1>2. \A e \in pending' \ pending : e \notin database /\ Owner[e] = r
  BY DEF WritesOf
<1>3. thread[r] = "replaying" => UNCHANGED pending
  BY DEF WritesOf
<1> QED
  BY <1>1, <1>2, <1>3 DEF Watched

LEMMA NextReplayAhead ==
  ASSUME SenderInv, [Next]_vars
  PROVE  ReplayAhead'
<1> USE SenderAssumption DEF SenderInv, SenderAssumption
<1>0. Actors = Runs \cup Syncs
  BY DEF Actors
<1>k. \A e \in pending : Kind[e] \in Kinds /\ Kind[e] # "alert"
  BY DEF RowsSound, TypeOK
<1>1. ASSUME NEW r \in Runs, SenderStep(r) \/ UserStep(r), ~ReplayStep(r), ~InitRun(r)
      PROVE  ReplayAhead'
  <2>1. WritesOf(r) /\ UNCHANGED inherited
    BY <1>1, StepWrites, StepFrame
  <2>2. \A b \in Actors : b # r => Watched(b)' \subseteq Watched(b)
    BY <2>1, WatchedFacts
  <2>3. \A a \in Actors : a # r =>
          thread'[a] = thread[a] /\ batch'[a] = batch[a] /\ stage'[a] = stage[a]
    BY <1>1, StepFrame
  <2>4. ASSUME NEW b \in Runs, thread'[b] = "replaying", NEW e \in Watched(b)'
        PROVE  Ahead(b, e)'
    <3>1. CASE b # r
      BY <1>0, <2>2, <2>3, <2>4, <3>1 DEF ReplayAhead, Ahead
    <3>2. CASE b = r /\ thread[r] = "replaying" /\ batch'[r] = batch[r] /\ stage'[r] = stage[r]
      <4>1. e \in Watched(r)
        BY <2>1, <2>4, <3>2, WatchedFacts DEF Watched
      <4> QED
        BY <3>2, <4>1 DEF ReplayAhead, Ahead
    <3>3. CASE b = r /\ stage'[r] = 1 /\ batch'[r] = {}
      <4>1. Kind[e] \in Kinds /\ Kind[e] # "alert"
        <5>1. e \in Entries /\ Kind[e] # "alert"
          BY <2>4, NextTypeOK, NextRowsSound DEF Watched, TypeOK, RowsSound
        <5> QED
          BY <5>1
      <4> QED
        BY <3>3, <4>1, KindFacts DEF Ahead
    <3> QED
      BY <1>1, <2>4, <3>1, <3>2, <3>3, StepFrame
  <2>5. ASSUME NEW a \in Actors, thread'[a] = "replaying", batch'[a] # {}
        PROVE  stage'[a] <= 3
    BY <1>1, <2>5, StepFrame DEF ReplayAhead
  <2> QED
    BY <2>4, <2>5 DEF ReplayAhead
<1>2. ASSUME NEW r \in Runs, InitRun(r)
      PROVE  ReplayAhead'
  <2>1. thread'[r] # "replaying"
    BY <1>2, <1>0 DEF InitRun, FirstState, PhasesSound, TypeOK
  <2>2. \A b \in Actors : b # r => thread'[b] = thread[b] /\ inherited'[b] = inherited[b]
    BY <1>2 DEF InitRun, TypeOK
  <2>3. UNCHANGED <<batch, stage, pending>>
    BY <1>2 DEF InitRun, local
  <2>4. \A b \in Actors : b # r => Watched(b)' = Watched(b)
    BY <2>2, <2>3 DEF Watched
  <2> QED
    BY <1>0, <2>1, <2>2, <2>3, <2>4 DEF ReplayAhead, Ahead
<1>3. ASSUME NEW a \in Actors, ReplayStep(a)
      PROVE  ReplayAhead'
  <2>1. /\ UNCHANGED <<inherited, queue>> /\ pending' \subseteq pending
        /\ thread[a] = "replaying"
        /\ \A b \in Actors : b # a =>
             thread'[b] = thread[b] /\ batch'[b] = batch[b] /\ stage'[b] = stage[b]
    BY <1>3 DEF ReplayStep, ReplayRead, ReplaySent, ReplayRaises, ReplayDone, local, history,
                TypeOK
  <2>2. \A b \in Actors : Watched(b)' \subseteq Watched(b)
    BY <2>1 DEF Watched
  <2>3. \A b \in Runs : b # a => \A e \in Watched(b)' :
          thread'[b] = "replaying" => Ahead(b, e)'
    BY <1>0, <2>1, <2>2 DEF ReplayAhead, Ahead
  <2>4. \A e \in Watched(a) : a \in Runs => Ahead(a, e)
    BY <2>1 DEF ReplayAhead
  <2>5. stage[a] \in 1..4 /\ (batch[a] # {} => stage[a] <= 3)
    BY <2>1 DEF ReplayAhead, TypeOK
  <2>6. /\ thread'[a] = "replaying" /\ a \in Runs => \A e \in Watched(a)' : Ahead(a, e)'
        /\ thread'[a] = "replaying" /\ batch'[a] # {} => stage'[a] <= 3
    <3>1. CASE ReplayRead(a)
      <4> DEFINE rows == OfKind(pending, KindOrder[stage[a]])
      <4>1. /\ batch'[a] = rows /\ UNCHANGED pending /\ batch[a] = {} /\ stage[a] <= 3
            /\ stage'[a] = IF rows = {} THEN stage[a] + 1 ELSE stage[a]
        BY <3>1 DEF ReplayRead, TypeOK, local
      <4>2. ASSUME NEW e \in Watched(a), Ahead(a, e)
            PROVE  Ahead(a, e)'
        <5>1. PICK i \in stage[a]..3 : Kind[e] = KindOrder[i]
          BY <4>2 DEF Ahead
        <5>2. i = stage[a] => e \in rows
          BY <5>1 DEF Watched, OfKind
        <5> QED
          BY <2>5, <4>1, <5>1, <5>2 DEF Ahead
      <4> QED
        BY <2>2, <2>4, <4>1, <4>2
    <3>2. CASE ReplaySent(a)
      <4>1. /\ batch'[a] = {} /\ pending' = pending \ batch[a] /\ stage'[a] = stage[a] + 1
            /\ batch[a] # {}
        BY <3>2 DEF ReplaySent, TypeOK
      <4>2. ASSUME NEW e \in Watched(a)', Ahead(a, e)
            PROVE  Ahead(a, e)'
        <5>1. PICK i \in stage[a]..3 : /\ Kind[e] = KindOrder[i]
                                       /\ i = stage[a] => e \in batch[a]
          BY <4>1, <4>2 DEF Ahead
        <5>2. e \notin batch[a]
          BY <4>1, <4>2 DEF Watched
        <5> QED
          BY <2>5, <4>1, <5>1, <5>2 DEF Ahead
      <4> QED
        BY <2>2, <2>4, <4>1, <4>2
    <3>3. CASE ReplayRaises(a) \/ ReplayDone(a)
      BY <3>3 DEF ReplayRaises, ReplayDone, TypeOK
    <3> QED
      BY <1>3, <3>1, <3>2, <3>3 DEF ReplayStep
  <2> QED
    BY <1>0, <2>1, <2>3, <2>6 DEF ReplayAhead
<1>4. ASSUME NEW s \in Syncs, SyncIncremental(s)
      PROVE  ReplayAhead'
  <2>1. batch[s] = {}
    BY <1>4, <1>0 DEF SyncIncremental, PhasesSound, InFlightSound, Dormant
  <2>2. /\ UNCHANGED <<batch, stage, pending>>
        /\ \A b \in Actors : b # s => thread'[b] = thread[b] /\ inherited'[b] = inherited[b]
    BY <1>4 DEF SyncIncremental, TypeOK, local
  <2>3. \A b \in Actors : b # s => Watched(b)' = Watched(b)
    BY <2>2 DEF Watched
  <2> QED
    BY <1>0, <2>1, <2>2, <2>3 DEF ReplayAhead, Ahead
<1>5. ASSUME NEW a \in Actors, EndProcess(a)
      PROVE  ReplayAhead'
  <2>1. /\ UNCHANGED <<stage, pending, inherited>> /\ thread'[a] = "none"
        /\ \A b \in Actors : b # a => thread'[b] = thread[b] /\ batch'[b] = batch[b]
    BY <1>5 DEF EndProcess, TypeOK, local
  <2> QED
    BY <1>0, <2>1 DEF ReplayAhead, Ahead, Watched
<1>6. CASE UNCHANGED vars
  BY <1>6 DEF vars, local, history, ReplayAhead, Ahead, Watched
<1> QED
  BY <1>1, <1>2, <1>3, <1>4, <1>5, <1>6, <1>0 DEF Next
------------------------------------------------------------------------------
\* The flag.

LEMMA NextFlagCovers ==
  ASSUME SenderInv, [Next]_vars
  PROVE  FlagCoversRows' /\ FlagCoversInherited'
<1> USE SenderAssumption DEF SenderInv, SenderAssumption
<1>0. Actors = Runs \cup Syncs
  BY DEF Actors
<1>o. /\ \A e \in pending : Owner[e] \in Runs
      /\ \A e \in pending' : Owner[e] \in Runs
  BY NextTypeOK DEF TypeOK
<1>1. ASSUME NEW r \in Runs, SenderStep(r) \/ UserStep(r), ~ReplayStep(r), ~InitRun(r)
      PROVE  FlagCoversRows' /\ FlagCoversInherited'
  <2>1. WritesOf(r) /\ UNCHANGED inherited
    BY <1>1, StepWrites, StepFrame
  <2>2. \A b \in Actors : phase'[b] \notin {"new", "gone"} => phase[b] \notin {"new", "gone"}
    BY <1>1, <1>0, StepFrame
  <2>3. \A b \in Actors : phase'[b] # "gone" => phase[b] # "gone"
    BY <1>1, <1>0, StepFrame
  <2>4. \A b \in Actors : inherited'[b] \cap pending' \subseteq inherited[b] \cap pending
    BY <2>1, WatchedFacts
  <2>5. hasBuffer \subseteq hasBuffer'
        /\ \A e \in pending' \ pending : Owner[e] = r /\ r \in hasBuffer'
    BY <2>1 DEF WritesOf
  <2>6. FlagCoversRows'
    BY <1>0, <1>o, <2>3, <2>5 DEF FlagCoversRows
  <2>7. FlagCoversInherited'
    BY <1>0, <2>2, <2>4, <2>5 DEF FlagCoversInherited
  <2> QED
    BY <2>6, <2>7
<1>2. ASSUME NEW r \in Runs, InitRun(r)
      PROVE  FlagCoversRows' /\ FlagCoversInherited'
  <2>1. /\ phase[r] = "new" /\ phase' = [phase EXCEPT ![r] = "open"] /\ UNCHANGED pending
        /\ hasBuffer' = IF Dest[r] \in Spaces /\ pending # {}
                          THEN hasBuffer \cup {r} ELSE hasBuffer
        /\ inherited' = [inherited EXCEPT ![r] = pending]
    BY <1>2 DEF InitRun, local
  <2>2. FlagCoversRows'
    BY <1>0, <1>o, <2>1 DEF FlagCoversRows, TypeOK
  <2>3. FlagCoversInherited'
    BY <1>0, <2>1 DEF FlagCoversInherited, TypeOK
  <2> QED
    BY <2>2, <2>3
<1>3. ASSUME NEW a \in Actors, ReplayStep(a)
      PROVE  FlagCoversRows' /\ FlagCoversInherited'
  <2>1. /\ pending' \subseteq pending /\ UNCHANGED inherited
        /\ thread[a] = "replaying"
        /\ \A b \in Runs : phase'[b] = phase[b]
    BY <1>0, <1>3 DEF ReplayStep, ReplayRead, ReplaySent, ReplayRaises, ReplayDone, local, history,
                TypeOK
  <2>2. CASE UNCHANGED hasBuffer
    <3>1. FlagCoversRows'
      BY <1>o, <2>1, <2>2 DEF FlagCoversRows
    <3>2. FlagCoversInherited'
      BY <2>1, <2>2 DEF FlagCoversInherited
    <3> QED
      BY <3>1, <3>2
  <2>3. CASE ReplayDone(a)
    <3>1. hasBuffer' = hasBuffer \ {a} /\ stage[a] = 4
      BY <2>3 DEF ReplayDone
    <3>2. a \in Runs => Watched(a) = {}
      BY <2>1, <3>1 DEF ReplayAhead, Ahead
    <3>3. FlagCoversRows'
      BY <1>o, <2>1, <3>1, <3>2 DEF FlagCoversRows, Watched
    <3>4. FlagCoversInherited'
      BY <2>1, <3>1, <3>2 DEF FlagCoversInherited, Watched
    <3> QED
      BY <3>3, <3>4
  <2> QED
    BY <1>3, <2>2, <2>3 DEF ReplayStep, ReplayRead, ReplaySent, ReplayRaises
<1>4. ASSUME NEW s \in Syncs, SyncIncremental(s)
      PROVE  FlagCoversRows' /\ FlagCoversInherited'
  <2>1. /\ UNCHANGED <<hasBuffer, pending>>
        /\ \A b \in Runs : phase'[b] = phase[b] /\ inherited'[b] = inherited[b]
    BY <1>0, <1>4 DEF SyncIncremental, local, TypeOK
  <2> QED
    BY <1>o, <2>1 DEF FlagCoversRows, FlagCoversInherited
<1>5. ASSUME NEW a \in Actors, EndProcess(a)
      PROVE  FlagCoversRows' /\ FlagCoversInherited'
  <2>1. /\ UNCHANGED <<hasBuffer, pending, inherited>> /\ phase'[a] = "gone"
        /\ \A b \in Actors : b # a => phase'[b] = phase[b]
    BY <1>5 DEF EndProcess, local, TypeOK
  <2> QED
    BY <1>0, <1>o, <2>1 DEF FlagCoversRows, FlagCoversInherited
<1>6. CASE UNCHANGED vars
  BY <1>6 DEF vars, local, history, FlagCoversRows, FlagCoversInherited
<1> QED
  BY <1>1, <1>2, <1>3, <1>4, <1>5, <1>6, <1>0 DEF Next
------------------------------------------------------------------------------
\* Phases and threads.

LEMMA NextPhasesSound ==
  ASSUME SenderInv, [Next]_vars
  PROVE  PhasesSound'
<1> USE SenderAssumption DEF SenderInv, SenderAssumption
<1>0. Actors = Runs \cup Syncs
  BY DEF Actors
<1>1. ASSUME NEW r \in Runs, UserStep(r)
      PROVE  PhasesSound'
  <2> r \in Actors
    BY <1>0
  <2>1. CASE InitRun(r)
    BY <2>1, <1>0 DEF InitRun, FirstState, PhasesSound, TypeOK
  <2>2. ASSUME NEW e \in Entries, Log(r, e)
        PROVE  PhasesSound'
    <3>1. /\ phase[r] \in {"open", "stopping"}
          /\ queue' = [queue EXCEPT ![r] = @ \cup {e}] /\ UNCHANGED <<phase, client>>
          /\ late' = IF phase[r] # "open" THEN late \cup {e} ELSE late
      BY <2>2 DEF Log, Accept, Stopped
    <3>2. CASE UNCHANGED thread /\ thread[r] # "none"
      BY <1>0, <3>1, <3>2 DEF PhasesSound, TypeOK
    <3>3. CASE phase[r] = "open" /\ thread' = [thread EXCEPT ![r] = FirstState(r)]
      BY <1>0, <3>1, <3>3 DEF PhasesSound, TypeOK, FirstState
    <3> QED
      BY <2>2, <3>2, <3>3 DEF Log, Alive, Stopped
  <2>3. ASSUME NEW e \in Entries, LogInline(r, e)
        PROVE  PhasesSound'
    <3>1. /\ queue' = [queue EXCEPT ![r] = {}]
          /\ UNCHANGED <<thread, phase, client>> /\ late \subseteq late'
      BY <2>3 DEF LogInline, Accept, FlushQueues
    <3> QED
      BY <1>0, <3>1 DEF PhasesSound, TypeOK
  <2>4. CASE Finish(r) \/ JoinThread(r)
    BY <2>4, <1>0 DEF Finish, JoinThread, PhasesSound, TypeOK, history, Alive
  <2>5. CASE JoinTimesOut(r)
    <3>1. /\ phase[r] = "stopping" /\ phase' = [phase EXCEPT ![r] = "finished"]
          /\ UNCHANGED <<thread, client, late>>
          /\ UNCHANGED queue \/ queue' = [queue EXCEPT ![r] = {}]
      BY <2>5 DEF JoinTimesOut, FlushQueues
    <3> QED
      BY <1>0, <3>1 DEF PhasesSound, TypeOK
  <2> QED
    BY <1>1, <2>1, <2>2, <2>3, <2>4, <2>5 DEF UserStep
<1>2. ASSUME NEW a \in Actors, ReplayStep(a)
      PROVE  PhasesSound'
  BY <1>2, <1>0 DEF ReplayStep, ReplayRead, ReplaySent, ReplayRaises, ReplayDone, PhasesSound,
                    TypeOK, local, history
<1>3. ASSUME NEW r \in Runs, SenderStep(r), ~ReplayStep(r)
      PROVE  PhasesSound'
  <2> r \in Actors
    BY <1>0
  <2>1. CASE Connect(r) \/ StartRound(r) \/ LoopEnds(r) \/ ThreadEnds(r)
    BY <2>1, <1>0 DEF Connect, StartRound, LoopEnds, ThreadEnds, PhasesSound, TypeOK, history,
                      Stopped
  <2>2. CASE StopConnecting(r)
    <3>1. /\ queue' = [queue EXCEPT ![r] = {}] /\ thread[r] = "connecting"
          /\ UNCHANGED <<phase, client, late>> /\ thread' = [thread EXCEPT ![r] = "exiting"]
          /\ phase[r] # "open"
      BY <2>2 DEF StopConnecting, FlushQueues, Stopped
    <3> QED
      BY <1>0, <3>1 DEF PhasesSound, TypeOK
  <2>3. CASE LocalRound(r)
    <3>1. /\ queue' = [queue EXCEPT ![r] = {}] /\ UNCHANGED <<phase, client, late, thread>>
      BY <2>3 DEF LocalRound, FlushQueues
    <3> QED
      BY <1>0, <3>1 DEF PhasesSound, TypeOK
  <2>4. CASE TakeBatch(r) \/ PredictReturns(r) \/ EndRound(r)
    BY <2>4, <1>0 DEF TakeBatch, PredictReturns, EndRound, PhasesSound, TypeOK, history
  <2>5. CASE PredictRaises(r)
    BY <2>5, <1>0 DEF PredictRaises, PhasesSound, TypeOK
  <2> QED
    BY <1>3, <2>1, <2>2, <2>3, <2>4, <2>5 DEF SenderStep
<1>4. ASSUME NEW s \in Syncs, SyncIncremental(s)
      PROVE  PhasesSound'
  BY <1>4, <1>0 DEF SyncIncremental, PhasesSound, TypeOK
<1>5. ASSUME NEW a \in Actors, EndProcess(a)
      PROVE  PhasesSound'
  BY <1>5, <1>0 DEF EndProcess, PhasesSound, TypeOK
<1>6. CASE UNCHANGED vars
  BY <1>6 DEF vars, history, PhasesSound
<1> QED
  BY <1>0, <1>1, <1>2, <1>3, <1>4, <1>5, <1>6 DEF Next

LEMMA NextEndedClean ==
  ASSUME SenderInv, [Next]_vars
  PROVE  EndedClean'
<1> USE SenderAssumption DEF SenderInv, SenderAssumption
<1>0. Actors = Runs \cup Syncs
  BY DEF Actors
<1>1. ASSUME NEW r \in Runs, SenderStep(r) \/ UserStep(r), ~ReplayStep(r), ~InitRun(r)
      PROVE  EndedClean'
  <2>1. WritesOf(r) /\ UNCHANGED inherited
    BY <1>1, StepWrites, StepFrame
  <2>2. \A b \in Actors : inherited'[b] \cap pending' \subseteq inherited[b] \cap pending
    BY <2>1, WatchedFacts
  <2>3. \A b \in Actors : phase'[b] # "gone" => phase[b] # "gone"
    BY <1>1, <1>0, StepFrame
  <2>4. ASSUME Dest[r] \in Spaces, phase'[r] # "gone", r \in client',
               thread'[r] \in {"none", "exiting"}
        PROVE  inherited[r] \cap pending = {}
    <3>1. CASE LoopEnds(r)
      BY <3>1, <2>4, <1>0 DEF LoopEnds, FlagCoversInherited, PhasesSound
    <3>2. CASE StopConnecting(r)
      BY <3>2, <2>4, <1>0 DEF StopConnecting, PhasesSound
    <3>3. CASE ThreadEnds(r)
      BY <3>3, <2>3, <2>4, <1>0 DEF ThreadEnds, EndedClean
    <3>4. CASE thread'[r] = thread[r] /\ client' = client
      BY <3>4, <2>3, <2>4, <1>0 DEF EndedClean
    <3>5. \/ thread'[r] = thread[r] /\ client' = client
          \/ LoopEnds(r) \/ StopConnecting(r) \/ ThreadEnds(r)
      <4>1. CASE SenderStep(r)
        BY <1>0, <1>1, <2>4, <4>1
        DEF SenderStep, Connect, LocalRound, StartRound, TakeBatch, PredictReturns,
            PredictRaises, EndRound, TypeOK
      <4>2. CASE UserStep(r)
        BY <1>0, <1>1, <2>4, <4>2
        DEF UserStep, Log, LogInline, Accept, Finish, JoinThread, JoinTimesOut, TypeOK, FirstState
      <4> QED
        BY <1>1, <4>1, <4>2
    <3> QED
      BY <3>1, <3>2, <3>3, <3>4, <3>5
  <2>5. ASSUME NEW b \in Runs, b # r
        PROVE  thread'[b] = thread[b] /\ (b \in client' <=> b \in client)
    BY <1>0, <1>1, <2>5, StepFrame
  <2> QED
    BY <1>0, <2>1, <2>2, <2>3, <2>4, <2>5 DEF EndedClean
<1>2. ASSUME NEW r \in Runs, InitRun(r)
      PROVE  EndedClean'
  BY <1>2, <1>0 DEF InitRun, EndedClean, PhasesSound, TypeOK, local
<1>3. ASSUME NEW a \in Actors, ReplayStep(a)
      PROVE  EndedClean'
  BY <1>3, <1>0 DEF ReplayStep, ReplayRead, ReplaySent, ReplayRaises, ReplayDone, EndedClean,
                    TypeOK, local, history
<1>4. ASSUME NEW s \in Syncs, SyncIncremental(s)
      PROVE  EndedClean'
  BY <1>4, <1>0 DEF SyncIncremental, EndedClean, TypeOK, local
<1>5. ASSUME NEW a \in Actors, EndProcess(a)
      PROVE  EndedClean'
  BY <1>5, <1>0 DEF EndProcess, EndedClean, TypeOK, local
<1>6. CASE UNCHANGED vars
  BY <1>6 DEF vars, history, local, EndedClean
<1> QED
  BY <1>0, <1>1, <1>2, <1>3, <1>4, <1>5, <1>6 DEF Next
------------------------------------------------------------------------------
\* Nothing is lost.

\* The rows that stand for e: pending ones if e can be replayed.
Row(e) == e \in (IF Pendable({e}) = {} THEN database ELSE pending)

\* An entry that a step neither moves nor loses is kept.
LEMMA StillKept ==
  ASSUME KeptUntilDelivered, NEW e \in logged \ dropped, Owner[e] \in Actors,
         Delivered \subseteq Delivered',
         Row(e) => Row(e)' \/ e \in Delivered',
         e \in InFlight(Owner[e]) => e \in InFlight(Owner[e])' \/ Row(e)' \/ e \in Delivered'
  PROVE  Kept(e)' \/ e \in Delivered'
<1>1. Kept(e) <=> e \in InFlight(Owner[e]) \/ Row(e)
  BY DEF Kept, InFlight, Row, Sending
<1>2. Kept(e)' <=> e \in InFlight(Owner[e])' \/ Row(e)'
  BY DEF Kept, InFlight, Row, Sending
<1> QED
  BY <1>1, <1>2 DEF KeptUntilDelivered

LEMMA NextKept ==
  ASSUME SenderInv, [Next]_vars
  PROVE  KeptUntilDelivered'
<1> USE SenderAssumption DEF SenderInv, SenderAssumption
<1>0. Actors = Runs \cup Syncs /\ \A e \in Entries : Owner[e] \in Actors
  BY DEF Actors
<1>t. logged \subseteq Entries
  BY DEF TypeOK
<1>1. ASSUME NEW r \in Runs, SenderStep(r) \/ UserStep(r), ~ReplayStep(r), ~InitRun(r)
      PROVE  KeptUntilDelivered'
  <2> r \in Actors
    BY <1>0
  <2>1. /\ database \subseteq database' /\ pending \subseteq pending'
    BY <1>1, StepWrites DEF WritesOf
  <2>2. Delivered \subseteq Delivered'
    <3>1. CASE SenderStep(r)
      <4>1. Receive(r) \/ UNCHANGED server
        BY <1>1, <3>1 DEF SenderStep, Connect, StopConnecting, LocalRound, StartRound,
                     TakeBatch, PredictReturns, PredictRaises, EndRound, LoopEnds, ThreadEnds
      <4> QED
        BY <4>1, ReceiveFacts DEF TypeOK
    <3>2. CASE UserStep(r)
      <4>1. UNCHANGED server
        BY <1>1, <3>2 DEF UserStep, Log, LogInline, Accept, Finish, JoinThread, JoinTimesOut
      <4> QED
        BY <4>1 DEF Delivered
    <3> QED
      BY <1>1, <3>1, <3>2
  <2>3. \A e : Row(e) => Row(e)'
    BY <2>1 DEF Row
  \* The queue S is written, and e is in it or was there before.
  <2>4. ASSUME NEW S, NEW lost \in SUBSET S, Keep(r, S, lost), NEW e \in S, e \notin dropped'
        PROVE  Row(e)'
    BY <2>4, KeepFacts DEF Row
  <2>5. ASSUME NEW e \in logged' \ dropped', e \notin logged
        PROVE  Kept(e)' \/ e \in Delivered'
    <3>1. CASE Log(r, e)
      BY <3>1 DEF Log, Accept, Kept, TypeOK
    <3>2. CASE LogInline(r, e)
      <4>1. e \in Entries
        BY <2>5, NextTypeOK DEF TypeOK
      <4>2. queue[r] \cup {e} \in SUBSET Entries
        BY <4>1 DEF TypeOK
      <4>3. \E lost \in SUBSET (queue[r] \cup {e}) : Keep(r, queue[r] \cup {e}, lost)
        BY <3>2, <4>2, FlushFacts DEF LogInline
      <4> QED
        BY <2>4, <2>5, <4>3 DEF Row, Kept
    <3>3. \/ UNCHANGED logged
          \/ \E x \in Entries : (Log(r, x) \/ LogInline(r, x)) /\ logged' = logged \cup {x}
      BY <1>1 DEF SenderStep, Connect, StopConnecting, LocalRound, StartRound,
                  TakeBatch, PredictReturns, PredictRaises, EndRound, LoopEnds, ThreadEnds,
                  UserStep, Log, LogInline, Accept, Finish, JoinThread, JoinTimesOut, history
    <3> QED
      BY <2>5, <3>1, <3>2, <3>3
  <2>6. ASSUME NEW e \in logged, e \notin dropped', e \in InFlight(Owner[e])
        PROVE  e \in InFlight(Owner[e])' \/ Row(e)' \/ e \in Delivered'
    <3>1. CASE Owner[e] # r
      BY <1>0, <1>t, <1>1, <2>6, <3>1, StepFrame DEF InFlight
    <3> HIDE DEF SenderInv
    <3>2. ASSUME Owner[e] = r, e \in queue[r], FlushQueues(r, queue[r])
          PROVE  Row(e)'
      <4>1. queue[r] \in SUBSET Entries
        BY DEF SenderInv, TypeOK
      <4> QED
        BY <2>4, <2>6, <3>2, <4>1, FlushFacts
    <3>3. ASSUME Owner[e] = r, NEW x \in Entries, LogInline(r, x)
          PROVE  Row(e)'
      <4>1. queue[r] \cup {x} \in SUBSET Entries
        BY DEF SenderInv, TypeOK
      <4>2. e \in queue[r]
        BY <2>6, <3>3 DEF LogInline, Accept, Locked, InFlight, Sending
      <4>3. \E lost \in SUBSET (queue[r] \cup {x}) : Keep(r, queue[r] \cup {x}, lost)
        BY <3>3, <4>1, FlushFacts DEF LogInline
      <4> QED
        BY <2>4, <2>6, <4>2, <4>3
    <3>4. ASSUME Owner[e] = r, NEW x \in Entries, Log(r, x)
          PROVE  e \in InFlight(r)'
      BY <2>6, <3>4 DEF Log, Accept, InFlight, SenderInv, TypeOK, Locked, Sending
    <3>5. CASE Owner[e] = r /\ JoinTimesOut(r)
      <4>1. thread[r] \notin Sending /\ UNCHANGED <<thread, batch>>
        BY <3>5 DEF JoinTimesOut, Locked, Sending
      <4>2. e \in queue[r]
        BY <2>6, <3>5, <4>1 DEF InFlight
      <4> QED
        BY <2>6, <3>2, <3>5, <4>1, <4>2 DEF JoinTimesOut, InFlight
    <3>6. CASE Owner[e] = r /\ (StopConnecting(r) \/ LocalRound(r))
      <4>1. e \in queue[r] /\ FlushQueues(r, queue[r])
        BY <2>6, <3>6 DEF StopConnecting, LocalRound, InFlight, Sending
      <4> QED
        BY <3>2, <3>6, <4>1
    <3>7. CASE Owner[e] = r /\ TakeBatch(r)
      BY <2>6, <3>7 DEF TakeBatch, InFlight, SenderInv, TypeOK, Sending
    <3>8. CASE Owner[e] = r /\ PredictReturns(r)
      <4>1. batch[r] \subseteq Delivered'
        BY <3>8, ReceiveFacts DEF PredictReturns, SenderInv, TypeOK
      <4> QED
        BY <2>6, <3>8, <4>1 DEF PredictReturns, InFlight, SenderInv, TypeOK
    <3>9. CASE Owner[e] = r /\ PredictRaises(r)
      <4>1. \E lost \in SUBSET batch[r] : Keep(r, batch[r], lost)
        BY <3>9 DEF PredictRaises
      <4>2. e \in queue[r] \/ e \in batch[r]
        BY <2>6, <3>9 DEF InFlight
      <4>3. e \in queue[r] => e \in InFlight(r)'
        BY <3>9 DEF PredictRaises, InFlight
      <4> QED
        BY <2>4, <2>6, <3>9, <4>1, <4>2, <4>3
    <3>10. CASE Owner[e] = r /\ (Connect(r) \/ StartRound(r) \/ EndRound(r) \/ LoopEnds(r)
                  \/ ThreadEnds(r) \/ Finish(r) \/ JoinThread(r))
      BY <2>6, <3>10 DEF Connect, StartRound, EndRound, LoopEnds, ThreadEnds, Finish,
                    JoinThread, InFlight, Sending, SenderInv, TypeOK
    <3> QED
      BY <1>1, <2>6, <3>1, <3>2, <3>3, <3>4, <3>5, <3>6, <3>7, <3>8, <3>9, <3>10
      DEF SenderStep, UserStep
  <2>7. dropped \subseteq dropped'
    <3>1. ASSUME NEW S \in SUBSET Entries, FlushQueues(r, S)
          PROVE  dropped \subseteq dropped'
      BY <3>1, FlushFacts, KeepFacts
    <3>2. ASSUME NEW lost, Keep(r, batch[r], lost)
          PROVE  dropped \subseteq dropped'
      BY <3>2 DEF Keep
    <3>3. \/ UNCHANGED dropped
          \/ \E S \in SUBSET Entries : FlushQueues(r, S)
          \/ \E lost : Keep(r, batch[r], lost)
      <4>1. queue[r] \in SUBSET Entries /\ \A x \in Entries : queue[r] \cup {x} \in SUBSET Entries
        BY DEF TypeOK
      <4> HIDE DEF SenderInv
      <4> QED
        BY <1>1, <4>1 DEF SenderStep, Connect, StopConnecting, LocalRound, StartRound,
                   TakeBatch, PredictReturns, PredictRaises, EndRound, LoopEnds, ThreadEnds,
                   UserStep, Log, LogInline, Accept, Finish, JoinThread, JoinTimesOut, history
    <3> QED
      BY <3>1, <3>2, <3>3
  <2>8. ASSUME NEW e \in logged \ dropped'
        PROVE  Kept(e)' \/ e \in Delivered'
    BY <1>0, <1>t, <2>2, <2>3, <2>6, <2>7, <2>8, StillKept
  <2> QED
    BY <2>5, <2>8 DEF KeptUntilDelivered
<1>2. ASSUME NEW r \in Runs, InitRun(r)
      PROVE  KeptUntilDelivered'
  <2>1. UNCHANGED <<queue, batch, database, pending, server, logged, dropped>>
        /\ \A b \in Actors : thread[b] \in Sending => thread'[b] \in Sending
    BY <1>2, <1>0 DEF InitRun, local, TypeOK, PhasesSound, Sending
  <2> QED
    BY <1>0, <1>t, <2>1, StillKept DEF KeptUntilDelivered, Delivered, InFlight, Row
<1>3. ASSUME NEW a \in Actors, ReplayStep(a)
      PROVE  KeptUntilDelivered'
  <2>1. /\ UNCHANGED <<queue, database, logged, dropped>> /\ thread[a] = "replaying"
        /\ Receive(a) \/ UNCHANGED server
        /\ \A b \in Actors : thread[b] \in Sending =>
             thread'[b] \in Sending /\ batch'[b] = batch[b]
        /\ \/ UNCHANGED pending
           \/ Receive(a) /\ pending' = pending \ batch[a]
    <3> USE DEF local, history, TypeOK, Sending
    <3>1. CASE ReplayRead(a)
      BY <3>1 DEF ReplayRead
    <3>2. CASE ReplaySent(a)
      BY <3>2 DEF ReplaySent
    <3>3. CASE ReplayRaises(a)
      BY <3>3 DEF ReplayRaises
    <3>4. CASE ReplayDone(a)
      BY <3>4 DEF ReplayDone
    <3> QED
      BY <1>3, <3>1, <3>2, <3>3, <3>4 DEF ReplayStep
  <2>2. Delivered \subseteq Delivered' /\ (Receive(a) => batch[a] \subseteq Delivered')
    BY <2>1, ReceiveFacts DEF TypeOK
  <2>3. \A e : Row(e) => Row(e)' \/ e \in Delivered'
    BY <2>1, <2>2 DEF Row
  <2>4. \A b \in Actors : InFlight(b) \subseteq InFlight(b)'
    BY <2>1 DEF InFlight
  <2> QED
    BY <1>0, <1>t, <2>1, <2>2, <2>3, <2>4, StillKept DEF KeptUntilDelivered
<1>4. ASSUME NEW s \in Syncs, SyncIncremental(s)
      PROVE  KeptUntilDelivered'
  <2>1. UNCHANGED <<queue, batch, database, pending, server, logged, dropped>>
        /\ \A b \in Actors : thread[b] \in Sending => thread'[b] \in Sending
    BY <1>4, <1>0 DEF SyncIncremental, local, TypeOK, PhasesSound, Sending
  <2> QED
    BY <1>0, <1>t, <2>1, StillKept DEF KeptUntilDelivered, Delivered, InFlight, Row
<1>5. ASSUME NEW a \in Actors, EndProcess(a)
      PROVE  KeptUntilDelivered'
  <2>1. /\ UNCHANGED <<database, pending, logged>> /\ dropped \subseteq dropped'
        /\ Receive(a) \/ UNCHANGED server
        /\ InFlight(a) \subseteq dropped'
        /\ \A b \in Actors : b # a =>
             thread'[b] = thread[b] /\ batch'[b] = batch[b] /\ queue'[b] = queue[b]
    BY <1>5 DEF EndProcess, local, TypeOK, InFlight, Sending
  <2>2. Delivered \subseteq Delivered'
    BY <2>1, ReceiveFacts DEF TypeOK
  <2>3. \A e : Row(e) => Row(e)'
    BY <2>1 DEF Row
  <2>4. \A b \in Actors : b # a => InFlight(b) \subseteq InFlight(b)'
    BY <2>1 DEF InFlight
  <2> QED
    BY <1>0, <1>t, <2>1, <2>2, <2>3, <2>4, StillKept DEF KeptUntilDelivered
<1>6. CASE UNCHANGED vars
  <2>1. UNCHANGED <<queue, batch, thread, database, pending, server, logged, dropped>>
    BY <1>6 DEF vars, local, history
  <2> QED
    BY <1>0, <1>t, <2>1, StillKept DEF KeptUntilDelivered, Delivered, InFlight, Row
<1> QED
  BY <1>0, <1>1, <1>2, <1>3, <1>4, <1>5, <1>6 DEF Next
------------------------------------------------------------------------------
LEMMA InitInv == Init => SenderInv
<1> USE SenderAssumption DEF SenderAssumption
<1>1. ASSUME Init
      PROVE  SenderInv
  <2>1. TypeOK
    BY <1>1 DEF Init, TypeOK, ThreadStates
  <2>2. InFlightSound /\ RowsSound /\ ReplayAhead
    <3>1. InFlightSound
      BY <1>1 DEF Init, InFlightSound, InFlight, Sending
    <3>2. RowsSound
      BY <1>1 DEF Init, RowsSound
    <3>3. ReplayAhead
      BY <1>1 DEF Init, ReplayAhead, Actors
    <3> QED
      BY <3>1, <3>2, <3>3
  <2>3. FlagCoversRows /\ FlagCoversInherited /\ EndedClean /\ KeptUntilDelivered
    BY <1>1 DEF Init, FlagCoversRows, FlagCoversInherited, EndedClean, KeptUntilDelivered
  <2>4. PhasesSound
    BY <1>1 DEF Init, PhasesSound, Actors
  <2> QED
    BY <2>1, <2>2, <2>3, <2>4 DEF SenderInv
<1> QED
  BY <1>1

LEMMA NextInv == SenderInv /\ [Next]_vars => SenderInv'
  BY NextTypeOK, NextInFlightSound, NextRowsSound, NextReplayAhead, NextFlagCovers,
     NextPhasesSound, NextEndedClean, NextKept DEF SenderInv

LEMMA Invariance == Spec => []SenderInv
  BY InitInv, NextInv, PTL DEF Spec

\* Every variable stays in its type: what threads, rounds, replays and other processes
\* write, whatever fails.
THEOREM Typed == Spec => []TypeOK
  BY Invariance, PTL DEF SenderInv

\* _persist_*_locally, the replay and clear_pending_*: an entry is in a queue, in a call,
\* in the database or at the server, unless a process end or a failing database took it.
THEOREM NothingIsLost == Spec => []KeptUntilDelivered
  BY Invariance, PTL DEF SenderInv

\* _has_local_buffer of a process is set while rows it wrote are pending, for any number
\* of processes that replay and clear the same tables.
THEOREM FlagIsKept == Spec => []FlagCoversRows
  BY Invariance, PTL DEF SenderInv

\* The while condition of _batch_sender and _ensure_sender_alive: a thread that has ended
\* under a finished run leaves in its queue only what was logged beside or after finish.
THEOREM ThreadLeavesNothing == Spec => []NothingLeftBehind
<1>1. SenderInv => NothingLeftBehind
  BY DEF SenderInv, PhasesSound, NothingLeftBehind, Alive
<1> QED
  BY <1>1, Invariance, PTL

\* has_pending_data in init and _flush_local_buffer: a run that reached its Space and
\* whose thread ended has sent every row for it that its init found.
THEOREM InheritedIsSent == Spec => []NextInitSends
<1>1. SenderInv => NextInitSends
  BY DEF SenderInv, EndedClean, NextInitSends, Alive
<1> QED
  BY <1>1, Invariance, PTL
===============================================================================
