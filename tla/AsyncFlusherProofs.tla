------------------------- MODULE AsyncFlusherProofs -------------------------
(***************************************************************************)
(* Proofs that the OpenRaft log flusher keeps its promises for any number  *)
(* of submitted works and any queue capacity.  The safety properties of    *)
(* AsyncFlusher are not inductive by themselves; IInv adds who may hold    *)
(* the failure mutex in which state of the worker, which works are in the  *)
(* channel, and how far each of them has been completed.                   *)
(***************************************************************************)
EXTENDS AsyncFlusher, TLAPS

\* The failure mutex has one holder, and holding it excludes both the
\* publication of a failure and the drop of the flusher.
LockInv ==
  /\ \A v, w \in Works : HoldsLock(v) /\ HoldsLock(w) => v = w
  /\ \A w \in Works : HoldsLock(w) => ~failure /\ ~closed

\* The channel carries each accepted work once, and only accepted ones.
ChannelInv ==
  /\ \A i, j \in 1..Len(sent) : sent[i] = sent[j] => i = j
  /\ \A i \in 1..Len(sent) : stage[sent[i]] = "accepted"

\* Which results the worker can carry at which control point.
WorkerInv ==
  /\ failure <=> result = "err" /\ worker # "publish"
  /\ result = "err" => worker \notin {"recv", "append"}
  /\ result = "ok" => worker \notin {"publish", "drain", "exit"}
  /\ receiver <=> worker # "gone"
  /\ worker \in {"exit", "gone"} => recvd = Len(sent)
  /\ worker = "gone" /\ ~failure => closed
  /\ worker \in {"append", "publish", "uncount", "complete"} => recvd > 0

Holding == worker \in {"append", "publish", "uncount", "complete"}

\* A work is completed exactly when its submission was refused or the worker
\* has moved past it.
CompletionInv ==
  /\ \A w \in Works : calls[w] = IF outcome[w] = "none" THEN 0 ELSE 1
  /\ \A w \in Works : stage[w] \in {"new", "admitted", "counted"} => outcome[w] = "none"
  /\ \A w \in Works : stage[w] = "refused" => outcome[w] = "err"
  /\ \A i \in 1..Len(sent) :
       outcome[sent[i]] = "none" <=> i > recvd \/ (i = recvd /\ Holding)

\* Until an append fails everything received is written and acknowledged.
JournalInv ==
  /\ JournalFollowsQueue
  /\ \A w \in Works : outcome[w] = "ok" => \E i \in 1..Len(journal) : sent[i] = w
  /\ result = "ok" => Len(journal) = IF worker = "append" THEN recvd - 1 ELSE recvd
  /\ result = "ok" => \A i \in 1..recvd :
       i < recvd \/ ~Holding => outcome[sent[i]] = "ok"
  /\ AckedPrefix

IInv == TypeOK /\ LockInv /\ ChannelInv /\ WorkerInv /\ CompletionInv /\ JournalInv /\ PendingExact /\ DepthBound

-----------------------------------------------------------------------------
LEMMA InitIInv == Init => IInv
<1> SUFFICES ASSUME Init PROVE IInv
  BY Zenon
<1> USE QueueCapacityAssumption DEF Init
<1>1. TypeOK
  <2>1. failure \in BOOLEAN /\ receiver \in BOOLEAN /\ closed \in BOOLEAN
    BY Zenon
  <2>2. sent \in Seq(Works) /\ journal \in Seq(Works) /\ recvd \in 0..Len(sent)
    OBVIOUS
  <2> QED
    BY Zenon, <2>1, <2>2 DEF TypeOK
<1>2. LockInv /\ ChannelInv /\ WorkerInv /\ CompletionInv
  BY DEF LockInv, HoldsLock, ChannelInv, WorkerInv, CompletionInv
<1>3. JournalInv
  BY DEF JournalInv, JournalFollowsQueue, AckedPrefix
<1>4. PendingExact /\ DepthBound
  BY DEF PendingExact, DepthBound, QueueLen, InWorker, InSubmit
<1> QED
  BY Zenon, <1>1, <1>2, <1>3, <1>4 DEF IInv

\* What the channel holds are works, and the worker is not past its end.
LEMMA SentWorks ==
  ASSUME TypeOK
  PROVE  /\ Len(sent) \in Nat /\ recvd \in Nat /\ recvd <= Len(sent)
         /\ \A i \in 1..Len(sent) : sent[i] \in Works
<1>1. sent \in Seq(Works) /\ recvd \in 0..Len(sent)
  BY Zenon DEF TypeOK
<1> QED
  BY <1>1

LEMMA RefuseFailedStep ==
  ASSUME IInv, NEW w \in Works, RefuseFailed(w)
  PROVE  IInv'
<1> USE QueueCapacityAssumption DEF IInv, RefuseFailed, submitVars, chanVars, doneVars, CompleteWith, QueueLen, Current
<1>1. TypeOK'
  <2>1. calls' \in [Works -> Nat] /\ outcome' \in [Works -> {"none", "ok", "err"}]
    BY DEF TypeOK, WorkerInv
  <2>2. stage' \in [Works -> {"new", "admitted", "counted", "accepted", "refused"}]
    BY Zenon DEF TypeOK
  <2> QED
    BY Zenon, <2>1, <2>2 DEF TypeOK
<1>2. LockInv'
  BY Zenon DEF TypeOK, LockInv, HoldsLock, LockFree
<1>3. ChannelInv'
  BY DEF TypeOK, ChannelInv
<1>5. CompletionInv'
  BY DEF TypeOK, CompletionInv, ChannelInv, WorkerInv, Holding
<1>6. JournalInv'
  <2>1. /\ stage[w] = "new" /\ outcome[w] = "none" /\ outcome' = [outcome EXCEPT ![w] = "err"]
        /\ outcome \in [Works -> {"none", "ok", "err"}]
        /\ UNCHANGED <<sent, recvd, journal, worker, result>>
    BY Zenon DEF TypeOK, CompletionInv
  <2>2. Len(sent) \in Nat /\ recvd \in Nat /\ recvd <= Len(sent) /\ \A i \in 1..Len(sent) : sent[i] \in Works
    BY Zenon, SentWorks
  <2>3. JournalInv /\ \A i \in 1..Len(sent) : stage[sent[i]] = "accepted"
    BY Zenon DEF ChannelInv
  <2> HIDE DEF IInv, RefuseFailed
  <2>4. "new" # "accepted" /\ "err" # "ok" /\ "none" # "ok"
    OBVIOUS
  <2>5. \A i \in 1..Len(sent) : outcome'[sent[i]] = outcome[sent[i]]
    BY Zenon, <2>1, <2>2, <2>3, <2>4
  <2>6. \A v \in Works : outcome'[v] = "ok" => outcome[v] = "ok"
    BY Zenon, <2>1, <2>4
  <2>7. 1..recvd \subseteq 1..Len(sent) /\ \A j \in 1..Len(sent) : 1..j \subseteq 1..Len(sent)
    BY <2>2
  <2>8. AckedPrefix'
    <3> SUFFICES ASSUME NEW j \in 1..Len(sent), outcome'[sent[j]] = "ok", NEW i \in 1..j
                 PROVE  outcome'[sent[i]] = "ok"
      BY Zenon, <2>1 DEF AckedPrefix
    <3>1. i \in 1..Len(sent)
      BY Zenon, <2>7
    <3>2. outcome[sent[i]] = "ok"
      BY Zenon, <2>3, <2>5 DEF JournalInv, AckedPrefix
    <3> QED
      BY Zenon, <2>5, <3>1, <3>2
  <2>9. result' = "ok" => \A i \in 1..recvd' : i < recvd' \/ ~Holding' => outcome'[sent'[i]] = "ok"
    BY ZenonT(30), <2>1, <2>3, <2>5, <2>7 DEF JournalInv, Holding
  <2>10. \A v \in Works : outcome'[v] = "ok" => \E i \in 1..Len(journal') : sent'[i] = v
    BY Zenon, <2>1, <2>3, <2>6 DEF JournalInv
  <2>11. /\ JournalFollowsQueue'
         /\ result' = "ok" => Len(journal') = IF worker' = "append" THEN recvd' - 1 ELSE recvd'
    BY Zenon, <2>1, <2>3 DEF JournalInv, JournalFollowsQueue
  <2> QED
    BY Zenon, <2>8, <2>9, <2>10, <2>11 DEF JournalInv
<1>7. PendingExact'
  BY Zenon DEF TypeOK, PendingExact, InWorker, InSubmit, LockInv, HoldsLock
<1>9. WorkerInv' /\ DepthBound'
  BY Zenon DEF WorkerInv, DepthBound
<1> QED
  BY Zenon, <1>1, <1>2, <1>3, <1>5, <1>6, <1>7, <1>9

LEMMA AdmitStep ==
  ASSUME IInv, NEW w \in Works, Admit(w)
  PROVE  IInv'
<1> USE QueueCapacityAssumption DEF IInv, Admit, submitVars, chanVars, doneVars, CompleteWith, QueueLen, Current
<1>1. TypeOK'
  BY Zenon DEF TypeOK, PendingExact, InWorker, InSubmit, WorkerInv
<1>2. LockInv'
  BY Zenon DEF TypeOK, LockInv, HoldsLock, LockFree
<1>3. ChannelInv'
  BY DEF TypeOK, ChannelInv
<1>5. CompletionInv'
  BY DEF TypeOK, CompletionInv, ChannelInv, WorkerInv, Holding
<1>7. PendingExact'
  BY Zenon DEF TypeOK, PendingExact, InWorker, InSubmit, LockInv, HoldsLock
<1>9. WorkerInv' /\ JournalInv' /\ DepthBound'
  BY Zenon DEF WorkerInv, JournalInv, JournalFollowsQueue, AckedPrefix, Holding, DepthBound
<1> QED
  BY Zenon, <1>1, <1>2, <1>3, <1>5, <1>7, <1>9

LEMMA CountStep ==
  ASSUME IInv, NEW w \in Works, Count(w)
  PROVE  IInv'
<1> USE QueueCapacityAssumption DEF IInv, Count, submitVars, chanVars, doneVars, CompleteWith, QueueLen, Current
<1>1. TypeOK'
  <2>1. stage' \in [Works -> {"new", "admitted", "counted", "accepted", "refused"}]
    BY Zenon DEF TypeOK
  <2>2. pending' \in Nat /\ maxPending' \in Nat
    BY DEF TypeOK
  <2> QED
    BY Zenon, <2>1, <2>2 DEF TypeOK
<1>a. InSubmit = 0
  BY Zenon DEF TypeOK, InSubmit, LockInv, HoldsLock
<1>2. LockInv'
  BY Zenon DEF TypeOK, LockInv, HoldsLock, LockFree
<1>3. ChannelInv'
  BY DEF TypeOK, ChannelInv
<1>5. CompletionInv'
  BY DEF TypeOK, CompletionInv, ChannelInv, WorkerInv, Holding
<1>7. PendingExact'
  <2>1. InSubmit' = 1
    BY Zenon DEF TypeOK, InSubmit
  <2> QED
    BY <1>a, <2>1 DEF TypeOK, PendingExact, InWorker
<1>8. DepthBound'
  BY <1>a DEF TypeOK, PendingExact, DepthBound, InWorker
<1>9. WorkerInv' /\ JournalInv'
  BY Zenon DEF WorkerInv, JournalInv, JournalFollowsQueue, AckedPrefix, Holding
<1> QED
  BY Zenon, <1>1, <1>2, <1>3, <1>5, <1>7, <1>8, <1>9

LEMMA EnqueueStep ==
  ASSUME IInv, NEW w \in Works, Enqueue(w)
  PROVE  IInv'
<1> USE QueueCapacityAssumption DEF IInv, Enqueue, submitVars, chanVars, doneVars, CompleteWith, QueueLen, Current
<1>1. TypeOK'
  <2>1. stage' \in [Works -> {"new", "admitted", "counted", "accepted", "refused"}]
    BY Zenon DEF TypeOK
  <2>2. sent' \in Seq(Works) /\ recvd' \in 0..Len(sent')
    BY DEF TypeOK
  <2> QED
    BY Zenon, <2>1, <2>2 DEF TypeOK
<1>a. Len(sent') = Len(sent) + 1 /\ sent'[Len(sent')] = w
  BY DEF TypeOK
<1>b. \A i \in 1..Len(sent) : sent'[i] = sent[i] /\ sent'[i] \in Works
  BY DEF TypeOK
<1>c. Len(sent) \in Nat /\ recvd \in 0..Len(sent) /\ Len(journal) \in Nat
  BY DEF TypeOK
<1>2. LockInv'
  BY Zenon DEF TypeOK, LockInv, HoldsLock, LockFree
<1>3. ChannelInv'
  <2>1. stage[w] = "counted" /\ stage' = [stage EXCEPT ![w] = "accepted"]
    BY Zenon
  <2>2. \A i \in 1..Len(sent) : sent[i] # w
    BY Zenon, <2>1 DEF ChannelInv
  <2>3. \A i \in 1..Len(sent') : i \in 1..Len(sent) \/ i = Len(sent')
    BY <1>a, <1>c
  <2>4. (\A i, j \in 1..Len(sent) : sent[i] = sent[j] => i = j)'
    <3> HIDE DEF Enqueue, IInv
    <3> QED
      BY <1>a, <1>b, <2>2, <2>3 DEF IInv, ChannelInv
  <2>5. (\A i \in 1..Len(sent) : stage[sent[i]] = "accepted")'
    <3>1. stage \in [Works -> {"new", "admitted", "counted", "accepted", "refused"}]
      BY Zenon DEF TypeOK
    <3> HIDE DEF Enqueue, IInv
    <3> QED
      BY Zenon, <1>a, <1>b, <2>1, <2>3, <3>1 DEF IInv, ChannelInv
  <2> QED
    BY Zenon, <2>4, <2>5 DEF ChannelInv
<1>4. WorkerInv'
  BY Zenon DEF TypeOK, WorkerInv, LockInv, HoldsLock, LockFree
<1>5. CompletionInv'
  <2>1. /\ stage[w] = "counted" /\ stage' = [stage EXCEPT ![w] = "accepted"]
        /\ calls' = calls /\ outcome' = outcome /\ recvd' = recvd /\ worker' = worker
    BY Zenon
  <2>2. stage \in [Works -> {"new", "admitted", "counted", "accepted", "refused"}]
    BY Zenon DEF TypeOK
  <2>3. CompletionInv /\ outcome[w] = "none"
    BY Zenon DEF CompletionInv
  <2>4. \A i \in 1..Len(sent') : i \in 1..Len(sent) \/ i = Len(sent')
    BY <1>a, <1>c
  <2> HIDE DEF IInv, Enqueue
  <2>5. (\A i \in 1..Len(sent) :
           outcome[sent[i]] = "none" <=> i > recvd \/ (i = recvd /\ Holding))'
    BY <1>a, <1>b, <1>c, <2>1, <2>3, <2>4 DEF CompletionInv, Holding
  <2> QED
    BY Zenon, <2>1, <2>2, <2>3, <2>5 DEF CompletionInv
<1>6. JournalInv'
  <2>1. JournalFollowsQueue'
    BY <1>a, <1>b, <1>c DEF JournalInv, JournalFollowsQueue
  <2>2. (\A v \in Works : outcome[v] = "ok" => \E i \in 1..Len(journal) : sent[i] = v)'
    BY <1>b, <1>c DEF JournalInv, JournalFollowsQueue
  <2>3. (result = "ok" => \A i \in 1..recvd : i < recvd \/ ~Holding => outcome[sent[i]] = "ok")'
    BY <1>b, <1>c DEF JournalInv, Holding
  <2>4. outcome[w] = "none"
    BY Zenon DEF CompletionInv
  <2>5. AckedPrefix'
    BY <1>a, <1>b, <1>c, <2>4 DEF JournalInv, AckedPrefix
  <2> QED
    BY Zenon, <2>1, <2>2, <2>3, <2>5 DEF JournalInv
<1>7. PendingExact'
  <2>1. InSubmit = 1
    BY Zenon DEF InSubmit
  <2>2. InSubmit' = 0
    BY Zenon DEF TypeOK, InSubmit, LockInv, HoldsLock
  <2> QED
    BY <1>a, <1>c, <2>1, <2>2 DEF TypeOK, PendingExact, InWorker
<1>8. DepthBound'
  BY DEF TypeOK, PendingExact, DepthBound, InWorker, InSubmit
<1> QED
  BY Zenon, <1>1, <1>2, <1>3, <1>4, <1>5, <1>6, <1>7, <1>8

LEMMA RefuseFullStep ==
  ASSUME IInv, NEW w \in Works, RefuseFull(w)
  PROVE  IInv'
<1> USE QueueCapacityAssumption DEF IInv, RefuseFull, submitVars, chanVars, doneVars, CompleteWith, QueueLen, Current
<1>a. InSubmit = 1
  BY Zenon DEF InSubmit
<1>1. TypeOK'
  <2>1. calls' \in [Works -> Nat] /\ outcome' \in [Works -> {"none", "ok", "err"}]
    BY DEF TypeOK, WorkerInv
  <2>2. stage' \in [Works -> {"new", "admitted", "counted", "accepted", "refused"}]
    BY Zenon DEF TypeOK
  <2>3. pending' \in Nat
    BY <1>a DEF TypeOK, PendingExact, InWorker
  <2> QED
    BY Zenon, <2>1, <2>2, <2>3 DEF TypeOK
<1>2. LockInv'
  BY Zenon DEF TypeOK, LockInv, HoldsLock, LockFree
<1>3. ChannelInv'
  BY DEF TypeOK, ChannelInv
<1>5. CompletionInv'
  BY DEF TypeOK, CompletionInv, ChannelInv, WorkerInv, Holding
<1>6. JournalInv'
  BY DEF TypeOK, JournalInv, JournalFollowsQueue, AckedPrefix, CompletionInv, ChannelInv, WorkerInv, Holding
<1>7. PendingExact'
  <2>1. InSubmit' = 0
    BY Zenon DEF TypeOK, InSubmit, LockInv, HoldsLock
  <2> QED
    BY <1>a, <2>1 DEF TypeOK, PendingExact, InWorker
<1>9. WorkerInv' /\ DepthBound'
  BY Zenon DEF WorkerInv, DepthBound
<1> QED
  BY Zenon, <1>1, <1>2, <1>3, <1>5, <1>6, <1>7, <1>9

LEMMA CloseStep ==
  ASSUME IInv, Close
  PROVE  IInv'
<1> USE QueueCapacityAssumption DEF IInv, Close, submitVars, chanVars, doneVars, CompleteWith, QueueLen, Current
<1>1. TypeOK'
  BY Zenon DEF TypeOK, PendingExact, InWorker, InSubmit, WorkerInv
<1>2. LockInv'
  BY Zenon DEF TypeOK, LockInv, HoldsLock, LockFree
<1>4. WorkerInv'
  BY Zenon DEF TypeOK, WorkerInv, LockInv, HoldsLock, LockFree
<1>9. ChannelInv' /\ CompletionInv' /\ JournalInv' /\ PendingExact' /\ DepthBound'
  BY DEF ChannelInv, CompletionInv, Holding, JournalInv, JournalFollowsQueue, AckedPrefix, PendingExact, InWorker, InSubmit, DepthBound
<1> QED
  BY Zenon, <1>1, <1>2, <1>4, <1>9

LEMMA RecvStep ==
  ASSUME IInv, Recv
  PROVE  IInv'
<1> USE QueueCapacityAssumption DEF IInv, Recv, submitVars, chanVars, doneVars, CompleteWith, QueueLen, Current
<1>1. TypeOK'
  <2>1. recvd' \in 0..Len(sent')
    <3>1. Len(sent) \in Nat /\ recvd \in Nat /\ Len(sent) - recvd > 0 /\ recvd' = recvd + 1 /\ sent' = sent
      BY Zenon, SentWorks
    <3> HIDE DEF IInv, Recv
    <3> QED
      BY <3>1
  <2> QED
    BY Zenon, <2>1 DEF TypeOK
<1>4. WorkerInv'
  BY DEF TypeOK, WorkerInv, LockInv, HoldsLock, LockFree
<1>5. CompletionInv'
  BY DEF TypeOK, CompletionInv, ChannelInv, WorkerInv, Holding
<1>6. JournalInv'
  BY DEF TypeOK, JournalInv, JournalFollowsQueue, AckedPrefix, CompletionInv, ChannelInv, WorkerInv, Holding
<1>7. PendingExact'
  <2>1. InSubmit' = InSubmit /\ InSubmit \in {0, 1}
    BY Zenon DEF InSubmit
  <2>2. InWorker = 0 /\ InWorker' = 1
    BY Zenon DEF InWorker
  <2> QED
    BY <2>1, <2>2 DEF TypeOK, PendingExact
<1>8. DepthBound'
  BY DEF TypeOK, PendingExact, DepthBound, InWorker, InSubmit
<1>9. LockInv' /\ ChannelInv'
  BY Zenon DEF LockInv, HoldsLock, ChannelInv
<1> QED
  BY Zenon, <1>1, <1>4, <1>5, <1>6, <1>7, <1>8, <1>9

LEMMA RecvClosedStep ==
  ASSUME IInv, RecvClosed
  PROVE  IInv'
<1> USE QueueCapacityAssumption DEF IInv, RecvClosed, submitVars, chanVars, doneVars, CompleteWith, QueueLen, Current
<1>1. TypeOK'
  BY Zenon DEF TypeOK, PendingExact, InWorker, InSubmit, WorkerInv
<1>4. WorkerInv'
  BY DEF TypeOK, WorkerInv, LockInv, HoldsLock, LockFree
<1>5. CompletionInv'
  BY Zenon DEF TypeOK, CompletionInv, ChannelInv, WorkerInv, Holding
<1>6. JournalInv'
  BY DEF TypeOK, JournalInv, JournalFollowsQueue, AckedPrefix, CompletionInv, ChannelInv, WorkerInv, Holding
<1>7. PendingExact'
  BY Zenon DEF TypeOK, PendingExact, InWorker, InSubmit, LockInv, HoldsLock
<1>9. LockInv' /\ ChannelInv' /\ DepthBound'
  BY DEF LockInv, HoldsLock, ChannelInv, DepthBound
<1> QED
  BY Zenon, <1>1, <1>4, <1>5, <1>6, <1>7, <1>9

LEMMA AppendOkStep ==
  ASSUME IInv, AppendOk
  PROVE  IInv'
<1> USE QueueCapacityAssumption DEF IInv, AppendOk, submitVars, chanVars, doneVars, CompleteWith, QueueLen, Current
<1>1. TypeOK'
  <2>1. journal' \in Seq(Works)
    <3>1. /\ journal \in Seq(Works) /\ journal' = Append(journal, sent[recvd]) /\ recvd > 0
          /\ Len(sent) \in Nat /\ recvd \in Nat /\ recvd <= Len(sent) /\ \A i \in 1..Len(sent) : sent[i] \in Works
      BY Zenon, SentWorks DEF TypeOK, WorkerInv
    <3> HIDE DEF IInv, AppendOk
    <3> QED
      BY <3>1
  <2> QED
    BY Zenon, <2>1 DEF TypeOK
<1>4. WorkerInv'
  BY Zenon DEF TypeOK, WorkerInv, LockInv, HoldsLock, LockFree
<1>5. CompletionInv'
  BY Zenon DEF TypeOK, CompletionInv, ChannelInv, WorkerInv, Holding
<1>6. JournalInv'
  BY DEF TypeOK, JournalInv, JournalFollowsQueue, AckedPrefix, CompletionInv, ChannelInv, WorkerInv, Holding
<1>7. PendingExact'
  BY Zenon DEF TypeOK, PendingExact, InWorker, InSubmit, LockInv, HoldsLock
<1>9. LockInv' /\ ChannelInv' /\ DepthBound'
  BY Zenon DEF LockInv, HoldsLock, ChannelInv, DepthBound
<1> QED
  BY Zenon, <1>1, <1>4, <1>5, <1>6, <1>7, <1>9

LEMMA AppendErrStep ==
  ASSUME IInv, AppendErr
  PROVE  IInv'
<1> USE QueueCapacityAssumption DEF IInv, AppendErr, submitVars, chanVars, doneVars, CompleteWith, QueueLen, Current
<1>a. Current \in Works
  BY DEF TypeOK, WorkerInv
<1>1. TypeOK'
  <2>1. Append(journal, Current) \in Seq(Works)
    BY <1>a DEF TypeOK
  <2>2. journal' \in Seq(Works)
    BY Zenon, <2>1 DEF TypeOK
  <2> QED
    BY Zenon, <2>2 DEF TypeOK
<1>4. WorkerInv'
  BY Zenon DEF TypeOK, WorkerInv, LockInv, HoldsLock, LockFree
<1>5. CompletionInv'
  BY Zenon DEF TypeOK, CompletionInv, ChannelInv, WorkerInv, Holding
<1>6. JournalInv'
  <2>1. CASE journal' = journal
    BY <2>1 DEF TypeOK, JournalInv, JournalFollowsQueue, AckedPrefix
  <2>2. CASE journal' = Append(journal, Current)
    <3>1. Len(journal) \in Nat /\ Len(journal') = Len(journal) + 1
      BY <2>2, <1>a DEF TypeOK
    <3>2. journal'[Len(journal')] = Current /\ \A i \in 1..Len(journal) : journal'[i] = journal[i]
      BY <2>2, <1>a DEF TypeOK
    <3>3. Len(journal') = recvd
      BY <3>1 DEF TypeOK, JournalInv, WorkerInv
    <3>4. JournalFollowsQueue'
      <4>1. ASSUME NEW i \in 1..Len(journal') PROVE journal'[i] = sent[i]
        <5>1. CASE i = Len(journal')
          BY Zenon, <5>1, <3>2, <3>3
        <5>2. CASE i \in 1..Len(journal)
          BY Zenon, <5>2, <3>2 DEF JournalInv, JournalFollowsQueue
        <5> QED
          BY <5>1, <5>2, <3>1
      <4> QED
        BY <4>1, <3>3 DEF TypeOK, JournalFollowsQueue
    <3> QED
      BY <3>1, <3>4 DEF JournalInv, AckedPrefix
  <2> QED
    BY Zenon, <2>1, <2>2
<1>7. PendingExact'
  BY Zenon DEF TypeOK, PendingExact, InWorker, InSubmit, LockInv, HoldsLock
<1>9. LockInv' /\ ChannelInv' /\ DepthBound'
  BY Zenon DEF LockInv, HoldsLock, ChannelInv, DepthBound
<1> QED
  BY Zenon, <1>1, <1>4, <1>5, <1>6, <1>7, <1>9

LEMMA PublishStep ==
  ASSUME IInv, Publish
  PROVE  IInv'
<1> USE QueueCapacityAssumption DEF IInv, Publish, submitVars, chanVars, doneVars, CompleteWith, QueueLen, Current
<1>1. TypeOK'
  BY Zenon DEF TypeOK, PendingExact, InWorker, InSubmit, WorkerInv
<1>2. LockInv'
  BY Zenon DEF TypeOK, LockInv, HoldsLock, LockFree
<1>4. WorkerInv'
  BY Zenon DEF TypeOK, WorkerInv, LockInv, HoldsLock, LockFree
<1>5. CompletionInv'
  BY Zenon DEF TypeOK, CompletionInv, ChannelInv, WorkerInv, Holding
<1>6. JournalInv'
  BY Zenon DEF JournalInv, JournalFollowsQueue, AckedPrefix, WorkerInv, Holding
<1>7. PendingExact'
  BY Zenon DEF TypeOK, PendingExact, InWorker, InSubmit, LockInv, HoldsLock
<1>9. ChannelInv' /\ DepthBound'
  BY Zenon DEF ChannelInv, DepthBound
<1> QED
  BY Zenon, <1>1, <1>2, <1>4, <1>5, <1>6, <1>7, <1>9

LEMMA UncountStep ==
  ASSUME IInv, Uncount
  PROVE  IInv'
<1> USE QueueCapacityAssumption DEF IInv, Uncount, submitVars, chanVars, doneVars, CompleteWith, QueueLen, Current
<1>1. TypeOK'
  BY DEF TypeOK, PendingExact, InWorker, InSubmit, WorkerInv
<1>4. WorkerInv'
  BY Zenon DEF TypeOK, WorkerInv, LockInv, HoldsLock, LockFree
<1>5. CompletionInv'
  BY Zenon DEF TypeOK, CompletionInv, ChannelInv, WorkerInv, Holding
<1>6. JournalInv'
  BY Zenon DEF JournalInv, JournalFollowsQueue, AckedPrefix, WorkerInv, Holding
<1>7. PendingExact'
  BY DEF TypeOK, PendingExact, InWorker, InSubmit, LockInv, HoldsLock
<1>9. LockInv' /\ ChannelInv' /\ DepthBound'
  BY Zenon DEF LockInv, HoldsLock, ChannelInv, DepthBound
<1> QED
  BY Zenon, <1>1, <1>4, <1>5, <1>6, <1>7, <1>9

LEMMA CompleteStep ==
  ASSUME IInv, Complete
  PROVE  IInv'
<1> USE QueueCapacityAssumption DEF IInv, Complete, submitVars, chanVars, doneVars, CompleteWith, QueueLen, Current
<1>a. Current \in Works
  BY DEF TypeOK, WorkerInv
<1>1. TypeOK'
  <2>1. calls' \in [Works -> Nat] /\ outcome' \in [Works -> {"none", "ok", "err"}]
    <3>1. calls \in [Works -> Nat] /\ outcome \in [Works -> {"none", "ok", "err"}] /\ result \in {"ok", "err"}
      BY Zenon DEF TypeOK
    <3>2. calls[Current] + 1 \in Nat
      BY <1>a, <3>1
    <3> QED
      BY Zenon, <1>a, <3>1, <3>2
  <2> QED
    BY Zenon, <2>1 DEF TypeOK
<1>4. WorkerInv'
  BY Zenon DEF TypeOK, WorkerInv, LockInv, HoldsLock, LockFree
<1>5. CompletionInv'
  BY DEF TypeOK, CompletionInv, ChannelInv, WorkerInv, Holding
<1>6. JournalInv'
  <2>1. /\ worker = "complete" /\ worker' = IF result = "ok" THEN "recv" ELSE "drain"
        /\ outcome' = [outcome EXCEPT ![Current] = result]
        /\ outcome \in [Works -> {"none", "ok", "err"}] /\ result \in {"ok", "err"}
        /\ UNCHANGED <<sent, recvd, journal, result>> /\ recvd > 0
    BY DEF TypeOK, WorkerInv
  <2>2. Len(sent) \in Nat /\ recvd \in Nat /\ recvd <= Len(sent) /\ \A i \in 1..Len(sent) : sent[i] \in Works
    BY Zenon, SentWorks
  <2>3. JournalInv /\ ChannelInv /\ CompletionInv
    BY Zenon
  <2> HIDE DEF IInv, Complete
  <2>4. outcome'[sent[recvd]] = result /\ \A i \in 1..Len(sent) : i # recvd => outcome'[sent[i]] = outcome[sent[i]]
    BY <2>1, <2>2, <2>3 DEF ChannelInv
  <2>5. \A w \in Works : w # sent[recvd] => outcome'[w] = outcome[w]
    BY Zenon, <2>1
  <2>6. JournalFollowsQueue' /\ (result' = "ok" => Len(journal') = recvd')
    BY <2>1, <2>3 DEF JournalInv, JournalFollowsQueue
  <2>7. result = "ok" => \A i \in 1..recvd : outcome'[sent[i]] = "ok"
    BY <2>1, <2>2, <2>3, <2>4 DEF JournalInv
  <2>8. result = "err" => outcome[sent[recvd]] = "none"
    BY <2>1, <2>2, <2>3 DEF CompletionInv, Holding
  <2>9. \A w \in Works : outcome'[w] = "ok" => \E i \in 1..Len(journal) : sent[i] = w
    <3> SUFFICES ASSUME NEW w \in Works, outcome'[w] = "ok" PROVE \E i \in 1..Len(journal) : sent[i] = w
      BY Zenon
    <3>1. CASE w = sent[recvd]
      BY <2>1, <2>2, <2>3, <2>4, <3>1 DEF JournalInv
    <3>2. CASE w # sent[recvd]
      BY Zenon, <2>3, <2>5, <3>2 DEF JournalInv
    <3> QED
      BY Zenon, <3>1, <3>2
  <2>10. AckedPrefix'
    <3> SUFFICES ASSUME NEW j \in 1..Len(sent), outcome'[sent[j]] = "ok", NEW i \in 1..j
                 PROVE  outcome'[sent[i]] = "ok"
      BY Zenon, <2>1 DEF AckedPrefix
    <3>1. j <= recvd /\ i <= recvd
      BY <2>1, <2>2, <2>3, <2>4 DEF CompletionInv
    <3>2. CASE result = "ok"
      BY <2>2, <2>7, <3>1, <3>2
    <3>3. CASE result = "err"
      <4>1. j # recvd
        BY Zenon, <2>4, <3>3
      <4>2. outcome[sent[j]] = "ok" /\ i # recvd /\ i \in 1..Len(sent)
        BY <2>2, <2>4, <3>1, <4>1
      <4> QED
        BY Zenon, <2>3, <2>4, <4>2 DEF JournalInv, AckedPrefix
    <3> QED
      BY Zenon, <2>1, <3>2, <3>3
  <2> QED
    BY <2>1, <2>6, <2>7, <2>9, <2>10 DEF JournalInv, Holding
<1>7. PendingExact'
  BY Zenon DEF TypeOK, PendingExact, InWorker, InSubmit, LockInv, HoldsLock
<1>9. LockInv' /\ ChannelInv' /\ DepthBound'
  BY Zenon DEF LockInv, HoldsLock, ChannelInv, DepthBound
<1> QED
  BY Zenon, <1>1, <1>4, <1>5, <1>6, <1>7, <1>9

LEMMA DrainStep ==
  ASSUME IInv, Drain
  PROVE  IInv'
<1> USE QueueCapacityAssumption DEF IInv, Drain, submitVars, chanVars, doneVars, CompleteWith, QueueLen, Current
<1>a. recvd + 1 \in 1..Len(sent) /\ sent[recvd + 1] \in Works
  BY DEF TypeOK
<1>1. TypeOK'
  <2>1. calls' \in [Works -> Nat] /\ outcome' \in [Works -> {"none", "ok", "err"}]
    <3>1. calls \in [Works -> Nat] /\ outcome \in [Works -> {"none", "ok", "err"}]
      BY Zenon DEF TypeOK
    <3>2. calls[sent[recvd + 1]] + 1 \in Nat
      BY <1>a, <3>1
    <3> QED
      BY Zenon, <1>a, <3>1, <3>2
  <2>2. pending' \in Nat /\ recvd' \in 0..Len(sent')
    <3>1. /\ Len(sent) \in Nat /\ recvd \in Nat /\ Len(sent) - recvd > 0 /\ recvd' = recvd + 1 /\ sent' = sent
          /\ pending = (Len(sent) - recvd) + InWorker + InSubmit /\ pending' = pending - 1
      BY Zenon, SentWorks DEF PendingExact
    <3> HIDE DEF IInv, Drain
    <3>2. InWorker \in {0, 1} /\ InSubmit \in {0, 1}
      BY DEF InWorker, InSubmit
    <3> QED
      BY <3>1, <3>2
  <2> QED
    BY Zenon, <2>1, <2>2 DEF TypeOK
<1>4. WorkerInv'
  BY Zenon DEF TypeOK, WorkerInv, LockInv, HoldsLock, LockFree
<1>5. CompletionInv'
  <2> DEFINE d == sent[recvd + 1]
  <2>1. /\ outcome[d] = "none" /\ calls[d] = 0 /\ stage[d] = "accepted"
        /\ ~Holding /\ ~Holding'
    BY <1>a DEF TypeOK, CompletionInv, ChannelInv, WorkerInv, Holding
  <2>2. /\ calls' = [calls EXCEPT ![d] = calls[d] + 1] /\ outcome' = [outcome EXCEPT ![d] = "err"]
        /\ stage' = stage /\ sent' = sent /\ recvd' = recvd + 1
    BY Zenon
  <2>3. /\ calls \in [Works -> Nat] /\ outcome \in [Works -> {"none", "ok", "err"}]
        /\ \A i \in 1..Len(sent) : sent[i] \in Works
        /\ recvd \in Nat /\ Len(sent) \in Nat
    BY Zenon, SentWorks DEF TypeOK
  <2>4. \A i \in 1..Len(sent) : sent[i] = d <=> i = recvd + 1
    BY Zenon, <1>a DEF ChannelInv
  <2>5. CompletionInv /\ d \in Works
    BY Zenon, <1>a
  <2> HIDE DEF d, IInv, Drain
  <2>6. (\A w \in Works : calls[w] = IF outcome[w] = "none" THEN 0 ELSE 1)'
    BY <2>1, <2>2, <2>3, <2>5 DEF CompletionInv
  <2>7. /\ (\A w \in Works : stage[w] \in {"new", "admitted", "counted"} => outcome[w] = "none")'
        /\ (\A w \in Works : stage[w] = "refused" => outcome[w] = "err")'
    BY Zenon, <2>1, <2>2, <2>3, <2>5 DEF CompletionInv
  <2>8. (\A i \in 1..Len(sent) :
           outcome[sent[i]] = "none" <=> i > recvd \/ (i = recvd /\ Holding))'
    BY <2>1, <2>2, <2>3, <2>4, <2>5 DEF CompletionInv
  <2> QED
    BY Zenon, <2>6, <2>7, <2>8 DEF CompletionInv
<1>6. JournalInv'
  <2>1. outcome[sent[recvd + 1]] = "none"
    BY <1>a DEF TypeOK, CompletionInv
  <2>2. \A v \in Works : outcome'[v] = "ok" <=> outcome[v] = "ok"
    BY Zenon, <1>a, <2>1 DEF TypeOK
  <2>3. result = "err"
    BY Zenon DEF TypeOK, WorkerInv
  <2>4. \A i \in 1..Len(sent) : sent[i] \in Works
    BY DEF TypeOK
  <2>5. AckedPrefix'
    <3>1. \A i \in 1..Len(sent) : outcome'[sent[i]] = "ok" <=> outcome[sent[i]] = "ok"
      BY Zenon, <2>2, <2>4
    <3>2. sent' = sent /\ \A j \in 1..Len(sent) : 1..j \subseteq 1..Len(sent)
      BY DEF TypeOK
    <3> QED
      BY <3>1, <3>2 DEF JournalInv, AckedPrefix
  <2>6. JournalFollowsQueue'
    BY DEF TypeOK, JournalInv, JournalFollowsQueue
  <2> QED
    BY Zenon, <2>2, <2>3, <2>5, <2>6 DEF JournalInv
<1>7. PendingExact'
  BY DEF TypeOK, PendingExact, InWorker, InSubmit, LockInv, HoldsLock
<1>8. DepthBound'
  BY DEF TypeOK, PendingExact, DepthBound, InWorker, InSubmit
<1>9. LockInv' /\ ChannelInv'
  BY Zenon DEF LockInv, HoldsLock, ChannelInv
<1> QED
  BY Zenon, <1>1, <1>4, <1>5, <1>6, <1>7, <1>8, <1>9

LEMMA DrainEmptyStep ==
  ASSUME IInv, DrainEmpty
  PROVE  IInv'
<1> USE QueueCapacityAssumption DEF IInv, DrainEmpty, submitVars, chanVars, doneVars, CompleteWith, QueueLen, Current
<1>1. TypeOK'
  BY Zenon DEF TypeOK, PendingExact, InWorker, InSubmit, WorkerInv
<1>4. WorkerInv'
  BY DEF TypeOK, WorkerInv, LockInv, HoldsLock, LockFree
<1>5. CompletionInv'
  BY Zenon DEF TypeOK, CompletionInv, ChannelInv, WorkerInv, Holding
<1>6. JournalInv'
  BY DEF JournalInv, JournalFollowsQueue, AckedPrefix, WorkerInv, Holding
<1>7. PendingExact'
  BY Zenon DEF TypeOK, PendingExact, InWorker, InSubmit, LockInv, HoldsLock
<1>9. LockInv' /\ ChannelInv' /\ DepthBound'
  BY DEF LockInv, HoldsLock, ChannelInv, DepthBound
<1> QED
  BY Zenon, <1>1, <1>4, <1>5, <1>6, <1>7, <1>9

LEMMA ExitStep ==
  ASSUME IInv, Exit
  PROVE  IInv'
<1> USE QueueCapacityAssumption DEF IInv, Exit, submitVars, chanVars, doneVars, CompleteWith, QueueLen, Current
<1>1. TypeOK'
  BY Zenon DEF TypeOK, PendingExact, InWorker, InSubmit, WorkerInv
<1>4. WorkerInv'
  BY Zenon DEF TypeOK, WorkerInv, LockInv, HoldsLock, LockFree
<1>5. CompletionInv'
  BY Zenon DEF TypeOK, CompletionInv, ChannelInv, WorkerInv, Holding
<1>6. JournalInv'
  BY Zenon DEF JournalInv, JournalFollowsQueue, AckedPrefix, WorkerInv, Holding
<1>7. PendingExact'
  BY Zenon DEF TypeOK, PendingExact, InWorker, InSubmit, LockInv, HoldsLock
<1>9. LockInv' /\ ChannelInv' /\ DepthBound'
  BY Zenon DEF LockInv, HoldsLock, ChannelInv, DepthBound
<1> QED
  BY Zenon, <1>1, <1>4, <1>5, <1>6, <1>7, <1>9

-----------------------------------------------------------------------------
\* The inductive step: every action of submit(), of the owner and of the
\* worker thread preserves IInv.
LEMMA NextIInv == IInv /\ [Next]_vars => IInv'
<1> SUFFICES ASSUME IInv, [Next]_vars PROVE IInv'
  BY Zenon
<1>1. CASE UNCHANGED vars
  <2> USE <1>1 DEF vars, IInv
  <2>1. TypeOK' /\ LockInv' /\ ChannelInv'
    BY DEF TypeOK, LockInv, HoldsLock, ChannelInv
  <2>2. WorkerInv' /\ CompletionInv'
    BY Zenon DEF WorkerInv, CompletionInv, Holding
  <2>3. JournalInv'
    BY Zenon DEF JournalInv, JournalFollowsQueue, AckedPrefix, Holding
  <2>4. PendingExact' /\ DepthBound'
    BY Zenon DEF PendingExact, DepthBound, QueueLen, InWorker, InSubmit
  <2> QED
    BY Zenon, <2>1, <2>2, <2>3, <2>4
<1>2. ASSUME NEW w \in Works, Submit(w) PROVE IInv'
  BY Zenon, <1>2, RefuseFailedStep, AdmitStep, CountStep, EnqueueStep, RefuseFullStep DEF Submit
<1>3. CASE Close
  BY Zenon, <1>3, CloseStep
<1>4. CASE WorkerStep
  BY Zenon, <1>4, RecvStep, RecvClosedStep, AppendOkStep, AppendErrStep, PublishStep, UncountStep,
     CompleteStep, DrainStep, DrainEmptyStep, ExitStep DEF WorkerStep
<1> QED
  BY Zenon, <1>1, <1>2, <1>3, <1>4 DEF Next

\* The strengthened invariant holds of every reachable state of the flusher.
THEOREM Inductive == Spec => []IInv
  BY InitIInv, NextIInv, PTL DEF Spec

\* Every variable of the flusher keeps its type; stats.pending in particular
\* never goes below zero, however submitters and the worker interleave.
THEOREM TypeCorrect == Spec => []TypeOK
<1>1. IInv => TypeOK
  BY Zenon DEF IInv
<1> QED
  BY <1>1, Inductive, PTL

\* No completion is invoked twice, whether by the worker, by the final drain
\* or by a refused submit().
THEOREM AtMostOnce == Spec => []CompletedAtMostOnce
<1>1. IInv => CompletedAtMostOnce
  <2>1. ASSUME CompletionInv, NEW w \in Works PROVE calls[w] <= 1 /\ (calls[w] = 0 <=> outcome[w] = "none")
    <3>1. CASE outcome[w] = "none"
      BY <2>1, <3>1 DEF CompletionInv
    <3>2. CASE outcome[w] # "none"
      BY <2>1, <3>2 DEF CompletionInv
    <3> QED
      BY Zenon, <3>1, <3>2
  <2> QED
    BY Zenon, <2>1 DEF IInv, CompletedAtMostOnce
<1> QED
  BY <1>1, Inductive, PTL

\* The claim of submit()'s comment: publishing the failure under the admission
\* mutex leaves no work in a queue whose receiver is dropped.
THEOREM NothingStranded == Spec => []NoWorkStranded
<1>1. IInv => NoWorkStranded
  BY Zenon DEF IInv, TypeOK, WorkerInv, NoWorkStranded
<1> QED
  BY <1>1, Inductive, PTL

\* Records reach the journal in the order submit() accepted them; a success is
\* reported only for a written record, and never past a failed one.
THEOREM OrderedDurability == Spec => [](JournalFollowsQueue /\ AckedIsDurable /\ AckedPrefix)
<1>1. IInv => JournalFollowsQueue /\ AckedPrefix
  BY Zenon DEF IInv, JournalInv
<1>2. IInv => AckedIsDurable
  BY Zenon DEF IInv, JournalInv, JournalFollowsQueue, AckedIsDurable
<1> QED
  BY <1>1, <1>2, Inductive, PTL

\* stats.pending counts exactly the works between fetch_add and fetch_sub, and
\* the depth it reports stays within two of QUEUE_CAPACITY.
THEOREM DepthAccounting == Spec => [](PendingExact /\ DepthBound)
<1>1. IInv => PendingExact /\ DepthBound
  BY Zenon DEF IInv
<1> QED
  BY <1>1, Inductive, PTL

\* After the worker has published a failure no record is admitted or written.
THEOREM FailureFinal == Spec => FailureIsFinal
<1>1. IInv /\ [Next]_vars => [failure => failure' /\ UNCHANGED <<sent, journal>>]_vars
  <2> SUFFICES ASSUME IInv, Next, failure PROVE failure' /\ UNCHANGED <<sent, journal>>
    BY Zenon
  <2>1. ASSUME NEW w \in Works, Submit(w) PROVE failure' /\ UNCHANGED <<sent, journal>>
    BY Zenon, <2>1 DEF Submit, RefuseFailed, Admit, Count, Enqueue, RefuseFull, chanVars, IInv, LockInv, HoldsLock
  <2>2. CASE Close
    BY Zenon, <2>2 DEF Close, chanVars
  <2>3. CASE WorkerStep
    BY Zenon, <2>3 DEF WorkerStep, Recv, RecvClosed, AppendOk, AppendErr, Publish, Uncount, Complete, Drain,
       DrainEmpty, Exit, chanVars, IInv, WorkerInv
  <2> QED
    BY Zenon, <2>1, <2>2, <2>3 DEF Next
<1> QED
  BY <1>1, Inductive, PTL DEF Spec, FailureIsFinal
=============================================================================
