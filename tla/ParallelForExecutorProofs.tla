--------------------- MODULE ParallelForExecutorProofs ---------------------
(***************************************************************************)
(* For every set of threads, batch size and number of batches: the types,  *)
(* the exclusive use of the batch fields, the single execution of every    *)
(* index, and the implementation of ParallelFor.                           *)
(***************************************************************************)
EXTENDS ParallelForExecutor, FiniteSetTheorems, TLAPS

Types ==
  /\ threads \in SUBSET Workers
  /\ task \in 0 .. MaxBatches
  /\ taskCount \in 0 .. MaxCount
  /\ next \in Nat
  /\ unfinished \in Int
  /\ epoch \in Nat
  /\ error \in Int
  /\ stopping \in BOOLEAN
  /\ observed \in [Workers -> Nat]
  /\ index \in [Threads -> Nat]
  /\ sleeping \in SUBSET Threads
  /\ pc \in [Threads -> PcValues]
  /\ runs \in [0 .. MaxCount - 1 -> Nat]
  /\ count \in 0 .. MaxCount
  /\ completed \in SUBSET (0 .. MaxCount - 1)
  /\ failed \in SUBSET (0 .. MaxCount - 1)
  /\ result \in {"none", "ok", "error"}

\* The caller is inside a pool batch.
InBatch == pc[Caller] \in {"notify", "done"} \cup Unlocked

\* The workers that have not yet left the latest batch: unfinished_workers_
\* counts them, and that is why the caller may trust it.
Busy == {w \in threads : observed[w] # epoch \/ pc[w] \in Unlocked \cup {"done"}}

\* Where each thread can be, by where the caller is.
Places ==
  /\ pc[Caller] \notin {"await", "exited"}
  /\ \A w \in Workers : pc[w] \in {"await", "exited", "done"} \cup Unlocked
  /\ \A w \in Workers \ threads : pc[w] = "await" /\ w \notin sleeping
  /\ stopping <=> pc[Caller] \in {"notifyStop", "join", "gone"}
  /\ ~stopping => epoch <= MaxBatches
  /\ epoch <= MaxBatches + 1
  /\ \A w \in Workers : observed[w] <= epoch
  /\ \A w \in threads : observed[w] # epoch => pc[w] = "await"
  /\ \A w \in threads : pc[w] = "exited" => stopping
  /\ ~InBatch => \A w \in threads : pc[w] \in {"await", "exited"}
  /\ (~InBatch /\ ~stopping) => \A w \in threads : observed[w] = epoch
  /\ pc[Caller] # "done" => Caller \notin sleeping

Counted == unfinished = IF InBatch THEN Cardinality(Busy) ELSE 0

\* How indices are handed out: what has been run, ...
Tally ==
  /\ InBatch => count = taskCount
  /\ \A i \in 0 .. MaxCount - 1 : runs[i] <= 1
  /\ \A i \in completed \cup failed : i < count /\ runs[i] = 1
  /\ completed \cap failed = {}

\* ... what the counter still holds, ...
Fresh ==
  InBatch => \A i \in 0 .. MaxCount - 1 : i >= next \/ i >= taskCount => runs[i] = 0

\* ... what each thread holds ...
Holders == {t \in threads \cup {Caller} : pc[t] \in {"test", "exec"} /\ index[t] < taskCount}

Held ==
  InBatch =>
    /\ \A t \in threads \cup {Caller} :
         /\ pc[t] = "test" /\ index[t] < taskCount
              => index[t] < next /\ runs[index[t]] = 0
         /\ pc[t] = "exec" => /\ index[t] < taskCount /\ runs[index[t]] = 1
                              /\ index[t] \notin completed \cup failed
         /\ pc[t] = "caught" => index[t] < taskCount /\ failed # {}
    /\ \A t, u \in Holders : t # u => index[t] # index[u]

\* ... and the caller's own loop.
InlineLoop ==
  /\ pc[Caller] = "inline" =>
       /\ index[Caller] <= count
       /\ completed = 0 .. index[Caller] - 1
       /\ failed = {}
       /\ \A i \in 0 .. MaxCount - 1 : i >= index[Caller] => runs[i] = 0
  /\ pc[Caller] = "unwind" => failed # {}

Handout == Tally /\ Fresh /\ Held /\ InlineLoop

\* What the caller may conclude once every worker has left the batch: whose
\* exception is kept, ...
ErrorKept ==
  /\ error = NoError \/ error \in 0 .. MaxCount - 1
  /\ InBatch =>
       /\ error # NoError => failed # {}
       /\ failed # {} => \/ error # NoError
                         \/ \E t \in threads \cup {Caller} : pc[t] = "caught"

\* ... that an index below the counter is completed or in somebody's hands, ...
Accounted ==
  InBatch /\ failed = {} =>
    \A i \in 0 .. taskCount - 1 :
       i < next => \/ i \in completed
                   \/ \E t \in threads \cup {Caller} :
                         pc[t] \in {"test", "exec"} /\ index[t] = i

\* ... and that the counter is past the end when the caller stops claiming.
Exhausted ==
  InBatch /\ failed = {} =>
    /\ pc[Caller] = "test" => next > index[Caller]
    /\ pc[Caller] = "done" => next >= taskCount

Outcome == ErrorKept /\ Accounted /\ Exhausted

IInv == Types /\ Places /\ Counted /\ Handout /\ Outcome

----------------------------------------------------------------------------
USE PoolAssumption

\* The disjuncts of Next, one level deep.
LEMMA StepCases ==
  ASSUME [Next]_vars
  PROVE  \/ \E n \in 0 .. MaxCount : InlineStart(n) \/ Start(n)
         \/ InlineTask \/ InlineReturn \/ Notify \/ Collect \/ Join \/ Stop
         \/ \E t \in Threads : \/ Claim(t) \/ Test(t) \/ TaskReturns(t)
                                \/ TaskThrows(t) \/ Caught(t) \/ SpuriousWakeup(t)
         \/ \E w \in Workers : Await(w) \/ Finish(w)
         \/ UNCHANGED vars
  BY DEF Next, CallerStep, WorkerStep, Work, Threads, Gone

LEMMA TypesStep ==
  ASSUME IInv, [Next]_vars
  PROVE  Types'
<1> USE DEF IInv, Types, Threads, pool, local, history, vars, Goto, NewBatch, PcValues,
            Unlocked, NoError
<1>1. ASSUME NEW n \in 0 .. MaxCount, InlineStart(n) PROVE Types'
  BY <1>1 DEF InlineStart
<1>2. ASSUME NEW n \in 0 .. MaxCount, Start(n) PROVE Types'
  BY <1>2, FS_CardinalityType, FS_Subset DEF Start, Participants
<1>3. CASE InlineTask
  <2>1. index[Caller] \in 0 .. MaxCount - 1
    BY <1>3 DEF InlineTask
  <2>2. runs' \in [0 .. MaxCount - 1 -> Nat]
    BY <1>3, <2>1 DEF InlineTask
  <2>3. index' \in [Threads -> Nat] /\ pc' \in [Threads -> PcValues]
    BY <1>3, <2>1 DEF InlineTask
  <2>4. QED
    BY <1>3, <2>1, <2>2, <2>3 DEF InlineTask
<1>4. CASE InlineReturn
  BY <1>4 DEF InlineReturn
<1>5. CASE Notify
  BY <1>5 DEF Notify, NotifyAll
<1>6. CASE Collect
  BY <1>6 DEF Collect, AllFinished
<1>7. CASE Join \/ Stop
  <2>1. CASE Join
    BY <2>1 DEF Join
  <2>2. CASE Stop
    BY <2>2 DEF Stop
  <2>3. QED
    BY <1>7, <2>1, <2>2
<1>8. ASSUME NEW t \in Threads, Claim(t) \/ Test(t) PROVE Types'
  <2>1. CASE Claim(t)
    BY <2>1 DEF Claim, Increment
  <2>2. CASE Test(t)
    <3>1. CASE ~(index[t] < taskCount)
      BY <2>2, <3>1 DEF Test
    <3>2. CASE index[t] < taskCount
      <4>1. index[t] \in 0 .. MaxCount - 1
        BY <3>2
      <4>2. runs' = [runs EXCEPT ![index[t]] = @ + 1] /\ pc' = [pc EXCEPT ![t] = "exec"]
        BY <2>2, <3>2 DEF Test
      <4>3. runs' \in [0 .. MaxCount - 1 -> Nat] /\ pc' \in [Threads -> PcValues]
        BY <4>1, <4>2
      <4>4. QED
        BY <2>2, <4>3 DEF Test
    <3>3. QED
      BY <3>1, <3>2
  <2>3. QED
    BY <1>8, <2>1, <2>2
<1>9. ASSUME NEW t \in Threads, TaskReturns(t) \/ TaskThrows(t) PROVE Types'
  <2>1. index[t] \in 0 .. MaxCount - 1
    <3>1. pc[t] = "exec" /\ t \in threads \cup {Caller} /\ InBatch
      BY <1>9 DEF TaskReturns, TaskThrows, Places, InBatch
    <3>2. index[t] < taskCount
      BY <3>1 DEF Handout, Held
    <3>3. QED
      BY <3>2
  <2>2. CASE TaskReturns(t)
    BY <2>2, <2>1 DEF TaskReturns
  <2>3. CASE TaskThrows(t)
    BY <2>3, <2>1 DEF TaskThrows
  <2>4. QED
    BY <1>9, <2>2, <2>3
<1>10. ASSUME NEW t \in Threads, Caught(t) \/ SpuriousWakeup(t) PROVE Types'
  <2>1. CASE Caught(t)
    BY <2>1 DEF Caught, FirstKept
  <2>2. CASE SpuriousWakeup(t)
    BY <2>2 DEF SpuriousWakeup
  <2>3. QED
    BY <1>10, <2>1, <2>2
<1>11. ASSUME NEW w \in Workers, Await(w) \/ Finish(w) PROVE Types'
  <2>1. CASE Await(w)
    <3>1. CASE epoch # observed[w]
      <4>1. /\ observed' = [observed EXCEPT ![w] = epoch] /\ sleeping' = sleeping
            /\ \/ pc' = [pc EXCEPT ![w] = "exited"]
               \/ pc' = [pc EXCEPT ![w] = "claim"]
        BY <2>1, <3>1 DEF Await
      <4>2. observed' \in [Workers -> Nat] /\ pc' \in [Threads -> PcValues]
        BY <4>1
      <4>3. QED
        BY <2>1, <4>1, <4>2 DEF Await
    <3>2. CASE ~(epoch # observed[w])
      <4>1. pc' = pc /\ observed' = observed /\ sleeping' = sleeping \cup {w}
        BY <2>1, <3>2 DEF Await
      <4>2. QED
        BY <2>1, <4>1 DEF Await
    <3>3. QED
      BY <3>1, <3>2
  <2>2. CASE Finish(w)
    BY <2>2 DEF Finish
  <2>3. QED
    BY <1>11, <2>1, <2>2
<1>12. CASE UNCHANGED vars
  BY <1>12
<1>13. QED
  BY <1>1, <1>2, <1>3, <1>4, <1>5, <1>6, <1>7, <1>8, <1>9, <1>10, <1>11, <1>12, StepCases

\* When the count is zero the caller finds every worker past the batch.
LEMMA NobodyBusy ==
  ASSUME IInv, pc[Caller] = "done", AllFinished
  PROVE  \A w \in threads : pc[w] = "await" /\ observed[w] = epoch
<1>1. IsFiniteSet(Busy)
  BY FS_Subset DEF Busy, IInv, Types, PoolAssumption
<1>2. Cardinality(Busy) = 0
  BY DEF IInv, Counted, InBatch, AllFinished
<1>3. Busy = {}
  BY <1>1, <1>2, FS_EmptySet
<1>4. QED
  BY <1>3 DEF Busy, IInv, Places, InBatch, Types

LEMMA PlacesStep ==
  ASSUME IInv, [Next]_vars
  PROVE  Places'
<1> USE DEF IInv, Places, InBatch, Types, Threads, pool, local, history, vars, Goto,
            NewBatch, Unlocked
<1>1. ASSUME NEW n \in 0 .. MaxCount, InlineStart(n) PROVE Places'
  BY <1>1 DEF InlineStart
<1>2. ASSUME NEW n \in 0 .. MaxCount, Start(n) PROVE Places'
  <2>1. ~stopping /\ ~InBatch /\ Caller \notin threads
    BY <1>2 DEF Start
  <2>2. \A w \in threads : pc[w] = "await" /\ observed[w] = epoch
    BY <2>1
  <2>3. /\ pc' = [pc EXCEPT ![Caller] = "notify"] /\ epoch' = epoch + 1 /\ epoch < MaxBatches
        /\ UNCHANGED <<threads, stopping, observed, sleeping>>
    BY <1>2 DEF Start
  <2>4. pc'[Caller] = "notify" /\ \A w \in Workers : pc'[w] = pc[w]
    BY <2>3
  <2>5. Caller \notin sleeping
    BY <1>2 DEF Start
  <2>6. QED
    BY <2>1, <2>2, <2>3, <2>4, <2>5
<1>3. CASE InlineTask
  BY <1>3 DEF InlineTask
<1>4. CASE InlineReturn
  BY <1>4 DEF InlineReturn
<1>5. CASE Notify
  BY <1>5 DEF Notify, NotifyAll
<1>6. CASE Collect
  BY <1>6, NobodyBusy DEF Collect
<1>7. CASE Join
  BY <1>7 DEF Join
<1>8. CASE Stop
  <2>1. ~stopping /\ ~InBatch /\ Caller \notin threads
    BY <1>8 DEF Stop
  <2>2. \A w \in threads : pc[w] = "await" /\ observed[w] = epoch
    BY <2>1
  <2>3. /\ pc' = [pc EXCEPT ![Caller] = "notifyStop"] /\ epoch' = epoch + 1 /\ stopping'
        /\ UNCHANGED <<threads, observed, sleeping>>
    BY <1>8 DEF Stop
  <2>4. pc'[Caller] = "notifyStop" /\ \A w \in Workers : pc'[w] = pc[w]
    BY <2>3
  <2>5. Caller \notin sleeping
    BY <1>8 DEF Stop
  <2>6. QED
    BY <2>1, <2>2, <2>3, <2>4, <2>5
<1>9. ASSUME NEW t \in Threads, Claim(t) PROVE Places'
  BY <1>9 DEF Claim
<1>10. ASSUME NEW t \in Threads, Test(t) PROVE Places'
  BY <1>10 DEF Test
<1>11. ASSUME NEW t \in Threads, TaskReturns(t) PROVE Places'
  BY <1>11 DEF TaskReturns
<1>12. ASSUME NEW t \in Threads, TaskThrows(t) PROVE Places'
  BY <1>12 DEF TaskThrows
<1>13. ASSUME NEW t \in Threads, Caught(t) PROVE Places'
  BY <1>13 DEF Caught
<1>14. ASSUME NEW t \in Threads, SpuriousWakeup(t) PROVE Places'
  BY <1>14 DEF SpuriousWakeup
<1>15. ASSUME NEW w \in Workers, Await(w) PROVE Places'
  <2>1. w \in threads /\ Caller # w /\ pc[w] = "await" /\ InBatch' = InBatch
    BY <1>15 DEF Await
  <2>2. CASE epoch # observed[w]
    <3>1. stopping \/ InBatch
      BY <2>1, <2>2
    <3>2. /\ observed' = [observed EXCEPT ![w] = epoch]
          /\ pc' = [pc EXCEPT ![w] = IF stopping THEN "exited" ELSE "claim"]
          /\ UNCHANGED <<threads, epoch, stopping, sleeping>>
      BY <1>15, <2>2 DEF Await
    <3>3. stopping => ~InBatch
      OBVIOUS
    <3>4. QED
      BY <2>1, <3>1, <3>2, <3>3
  <2>3. CASE ~(epoch # observed[w])
    BY <1>15, <2>1, <2>3 DEF Await
  <2>4. QED
    BY <2>2, <2>3
<1>16. ASSUME NEW w \in Workers, Finish(w) PROVE Places'
  BY <1>16 DEF Finish
<1>17. CASE UNCHANGED vars
  BY <1>17
<1>18. QED
  BY <1>1, <1>2, <1>3, <1>4, <1>5, <1>6, <1>7, <1>8, <1>9, <1>10, <1>11, <1>12, <1>13,
     <1>14, <1>15, <1>16, <1>17, StepCases

LEMMA CountedStep ==
  ASSUME IInv, [Next]_vars
  PROVE  Counted'
<1> USE DEF IInv, Places, Counted, InBatch, Busy, Types, Threads, pool, local, history, vars,
            Goto, Unlocked
<1>1. ASSUME NEW n \in 0 .. MaxCount, InlineStart(n) PROVE Counted'
  <2>1. InBatch' = InBatch /\ Busy' = Busy /\ unfinished' = unfinished
    BY <1>1 DEF InlineStart
  <2>2. QED
    BY <2>1
<1>2. ASSUME NEW n \in 0 .. MaxCount, Start(n) PROVE Counted'
  <2>1. InBatch' /\ unfinished' = Cardinality(threads) /\ threads' = threads
    BY <1>2 DEF Start, Participants
  <2>2. ASSUME NEW w \in threads PROVE observed'[w] # epoch'
    BY <1>2 DEF Start
  <2>3. Busy' = threads
    BY <2>1, <2>2
  <2>4. QED
    BY <2>1, <2>3
<1>3. CASE InlineTask
  <2>1. InBatch' = InBatch /\ Busy' = Busy /\ unfinished' = unfinished
    BY <1>3 DEF InlineTask
  <2>2. QED
    BY <2>1
<1>4. CASE InlineReturn
  <2>1. InBatch' = InBatch /\ Busy' = Busy /\ unfinished' = unfinished
    BY <1>4 DEF InlineReturn
  <2>2. QED
    BY <2>1
<1>5. CASE Notify
  <2>1. InBatch' = InBatch /\ Busy' = Busy /\ unfinished' = unfinished
    BY <1>5 DEF Notify
  <2>2. QED
    BY <2>1
<1>6. CASE Collect
  <2>1. CASE AllFinished
    BY <1>6, <2>1 DEF Collect, AllFinished
  <2>2. CASE ~AllFinished
    <3>1. InBatch' = InBatch /\ Busy' = Busy /\ unfinished' = unfinished
      BY <1>6, <2>2 DEF Collect
    <3>2. QED
      BY <3>1
  <2>3. QED
    BY <2>1, <2>2
<1>7. CASE Join
  <2>1. InBatch' = InBatch /\ Busy' = Busy /\ unfinished' = unfinished
    BY <1>7 DEF Join
  <2>2. QED
    BY <2>1
<1>8. CASE Stop
  <2>1. ~InBatch /\ ~InBatch' /\ unfinished' = unfinished
    BY <1>8 DEF Stop
  <2>2. QED
    BY <2>1
<1>9. ASSUME NEW t \in Threads, Claim(t) PROVE Counted'
  <2>1. InBatch' = InBatch /\ Busy' = Busy /\ unfinished' = unfinished
    BY <1>9 DEF Claim
  <2>2. QED
    BY <2>1
<1>10. ASSUME NEW t \in Threads, Test(t) PROVE Counted'
  <2>1. InBatch' = InBatch /\ Busy' = Busy /\ unfinished' = unfinished
    BY <1>10 DEF Test
  <2>2. QED
    BY <2>1
<1>11. ASSUME NEW t \in Threads, TaskReturns(t) PROVE Counted'
  <2>1. InBatch' = InBatch /\ Busy' = Busy /\ unfinished' = unfinished
    BY <1>11 DEF TaskReturns
  <2>2. QED
    BY <2>1
<1>12. ASSUME NEW t \in Threads, TaskThrows(t) PROVE Counted'
  <2>1. InBatch' = InBatch /\ Busy' = Busy /\ unfinished' = unfinished
    BY <1>12 DEF TaskThrows
  <2>2. QED
    BY <2>1
<1>13. ASSUME NEW t \in Threads, Caught(t) PROVE Counted'
  <2>1. InBatch' = InBatch /\ Busy' = Busy /\ unfinished' = unfinished
    BY <1>13 DEF Caught
  <2>2. QED
    BY <2>1
<1>14. ASSUME NEW t \in Threads, SpuriousWakeup(t) PROVE Counted'
  <2>1. InBatch' = InBatch /\ Busy' = Busy /\ unfinished' = unfinished
    BY <1>14 DEF SpuriousWakeup
  <2>2. QED
    BY <2>1
<1>15. ASSUME NEW w \in Workers, Await(w) PROVE Counted'
  <2>1. InBatch' = InBatch /\ (InBatch => Busy' = Busy) /\ unfinished' = unfinished
    <3>1. w \in threads /\ Caller # w /\ pc[w] = "await"
      BY <1>15 DEF Await
    <3>2. CASE epoch # observed[w]
      <4>1. /\ observed' = [observed EXCEPT ![w] = epoch]
            /\ pc' = [pc EXCEPT ![w] = IF stopping THEN "exited" ELSE "claim"]
            /\ UNCHANGED <<threads, epoch, unfinished>>
        BY <1>15, <3>2 DEF Await
      <4>2. InBatch' = InBatch /\ unfinished' = unfinished
        BY <3>1, <4>1
      <4>3. CASE InBatch
        BY <3>1, <3>2, <4>1, <4>2, <4>3
      <4>4. CASE ~InBatch
        BY <3>1, <3>2, <4>1, <4>2, <4>4
      <4>5. QED
        BY <4>3, <4>4
    <3>3. CASE ~(epoch # observed[w])
      BY <1>15, <3>1, <3>3 DEF Await
    <3>4. QED
      BY <3>2, <3>3
  <2>2. QED
    BY <2>1
<1>16. ASSUME NEW w \in Workers, Finish(w) PROVE Counted'
  <2>1. InBatch /\ InBatch' /\ w \in Busy /\ unfinished' = unfinished - 1
    BY <1>16 DEF Finish
  <2>2. Busy' = Busy \ {w}
    BY <1>16 DEF Finish
  <2>3. IsFiniteSet(Busy)
    BY FS_Subset DEF PoolAssumption
  <2>4. Cardinality(Busy \ {w}) = Cardinality(Busy) - 1
    <3> HIDE DEF Busy
    <3>1. QED
      BY <2>1, <2>3, FS_RemoveElement
  <2>5. QED
    BY <2>1, <2>2, <2>4
<1>17. CASE UNCHANGED vars
  BY <1>17
<1>18. QED
  BY <1>1, <1>2, <1>3, <1>4, <1>5, <1>6, <1>7, <1>8, <1>9, <1>10, <1>11, <1>12, <1>13,
     <1>14, <1>15, <1>16, <1>17, StepCases

\* Handout reads the program counters only at these points, so a step that
\* brings no thread to one of them and leaves the data alone preserves it.
HandoutPoints == {"test", "exec", "caught", "inline", "unwind"}

LEMMA HandoutFrame ==
  ASSUME Handout, InBatch' => InBatch,
         UNCHANGED <<threads, taskCount, next, index, runs, count, completed, failed>>,
         \A t \in threads \cup {Caller} : pc'[t] \in HandoutPoints => pc'[t] = pc[t]
  PROVE  Handout'
BY DEF Handout, Tally, Fresh, Held, Holders, InlineLoop, InBatch, HandoutPoints

LEMMA HandoutStep ==
  ASSUME IInv, [Next]_vars
  PROVE  Handout'
<1> USE DEF IInv, Types, Places, InBatch, Threads, pool, local, history, vars, Goto, Unlocked
<1>1. ASSUME NEW n \in 0 .. MaxCount, InlineStart(n) PROVE Handout'
  BY <1>1 DEF InlineStart, Handout, Tally, Fresh, Held, InlineLoop, NewBatch
<1>2. ASSUME NEW n \in 0 .. MaxCount, Start(n) PROVE Handout'
  <2>1. /\ pc' = [pc EXCEPT ![Caller] = "notify"] /\ threads' = threads
        /\ \A w \in threads : pc[w] = "await" /\ w # Caller
    BY <1>2 DEF Start, PoolAssumption
  <2>2. \A t \in threads \cup {Caller} : pc'[t] \in {"notify", "await"}
    BY <2>1
  <2>3. QED
    BY <1>2, <2>2 DEF Start, Handout, Tally, Fresh, Held, Holders, InlineLoop, NewBatch
<1>3. CASE InlineTask
  <2>1. /\ pc[Caller] = "inline" /\ index[Caller] \in 0 .. MaxCount - 1 /\ index[Caller] < count
        /\ runs' = [runs EXCEPT ![index[Caller]] = @ + 1]
        /\ count' = count
    BY <1>3 DEF InlineTask
  <2>2. runs[index[Caller]] = 0 /\ completed = 0 .. index[Caller] - 1 /\ failed = {}
    BY <2>1 DEF Handout, InlineLoop
  <2>3. /\ runs'[index[Caller]] = 1
        /\ \A i \in 0 .. MaxCount - 1 : i # index[Caller] => runs'[i] = runs[i]
    BY <2>1, <2>2
  <2>4. CASE /\ completed' = completed \cup {index[Caller]}
             /\ index' = [index EXCEPT ![Caller] = index[Caller] + 1]
             /\ UNCHANGED <<pc, failed>>
    <3>1. index'[Caller] = index[Caller] + 1 /\ pc'[Caller] = "inline"
      BY <2>1, <2>4
    <3>2. completed' = 0 .. index'[Caller] - 1
      BY <2>1, <2>2, <2>4, <3>1
    <3>3. Tally'
      BY <2>1, <2>2, <2>3, <2>4 DEF Handout, Tally
    <3>4. InlineLoop' /\ Fresh' /\ Held'
      BY <2>1, <2>2, <2>3, <2>4, <3>1, <3>2 DEF Handout, Fresh, Held, InlineLoop
    <3>5. QED
      BY <3>3, <3>4 DEF Handout
  <2>5. CASE /\ failed' = failed \cup {index[Caller]}
             /\ pc' = [pc EXCEPT ![Caller] = "unwind"]
             /\ UNCHANGED <<index, completed>>
    BY <2>1, <2>2, <2>3, <2>5 DEF Handout, Tally, Fresh, Held, InlineLoop
  <2>6. QED
    BY <1>3, <2>4, <2>5 DEF InlineTask
<1>4. CASE InlineReturn
  BY <1>4, HandoutFrame DEF InlineReturn, HandoutPoints
<1>5. CASE Notify
  BY <1>5, HandoutFrame DEF Notify, HandoutPoints
<1>6. CASE Collect
  BY <1>6, HandoutFrame DEF Collect, HandoutPoints
<1>7. CASE Join
  BY <1>7, HandoutFrame DEF Join, HandoutPoints
<1>8. CASE Stop
  BY <1>8, HandoutFrame DEF Stop, HandoutPoints
<1>9. ASSUME NEW t \in Threads, Claim(t) PROVE Handout'
  <2>1. t \in threads \cup {Caller} /\ InBatch /\ InBatch' /\ pc[t] = "claim"
    BY <1>9 DEF Claim
  <2>2. /\ index' = [index EXCEPT ![t] = next] /\ pc' = [pc EXCEPT ![t] = "test"]
        /\ next' = next + 1
        /\ UNCHANGED <<threads, taskCount, runs, count, completed, failed>>
    BY <1>9 DEF Claim, Increment
  <2>3. Tally' /\ Fresh' /\ InlineLoop'
    BY <2>1, <2>2 DEF Handout, Tally, Fresh, InlineLoop
  <2>4. next < taskCount => next \in 0 .. MaxCount - 1 /\ runs[next] = 0
    BY <2>1 DEF Handout, Fresh
  <2>5. \A u \in Holders : index[u] # next
    BY <2>1, <2>4 DEF Handout, Held, Holders
  <2>6. \A u \in Holders' : u # t => u \in Holders /\ index'[u] = index[u]
    BY <2>2 DEF Holders
  <2>7. \A u, v \in Holders' : u # v => index'[u] # index'[v]
    BY <2>1, <2>2, <2>5, <2>6 DEF Handout, Held
  <2>8. Held'
    BY <2>1, <2>2, <2>4, <2>7 DEF Handout, Held
  <2>9. QED
    BY <2>3, <2>8 DEF Handout
<1>10. ASSUME NEW t \in Threads, Test(t) PROVE Handout'
  <2>1. t \in threads \cup {Caller} /\ InBatch /\ InBatch' /\ pc[t] = "test"
    BY <1>10 DEF Test
  <2>2. UNCHANGED <<threads, taskCount, next, index, count, completed, failed>>
    BY <1>10 DEF Test
  <2>3. CASE ~(index[t] < taskCount)
    BY <1>10, <2>1, <2>2, <2>3, HandoutFrame DEF Test, HandoutPoints
  <2>4. CASE index[t] < taskCount
    <3>1. /\ runs' = [runs EXCEPT ![index[t]] = @ + 1] /\ pc' = [pc EXCEPT ![t] = "exec"]
          /\ index[t] \in 0 .. MaxCount - 1 /\ index[t] < next /\ runs[index[t]] = 0
          /\ t \in Holders
      BY <1>10, <2>1, <2>4 DEF Test, Handout, Held, Holders
    <3>2. /\ runs'[index[t]] = 1
          /\ \A i \in 0 .. MaxCount - 1 : i # index[t] => runs'[i] = runs[i]
      BY <3>1
    <3>3. index[t] \notin completed \cup failed
      BY <3>1 DEF Handout, Tally
    <3>4. Tally' /\ Fresh' /\ InlineLoop'
      <4>1. Tally'
        BY <2>1, <2>2, <3>1, <3>2, <3>3 DEF Handout, Tally
      <4>2. Fresh'
        BY <2>1, <2>2, <2>4, <3>1, <3>2 DEF Handout, Fresh
      <4>3. InlineLoop'
        BY <2>1, <2>2, <3>1 DEF InlineLoop
      <4>4. QED
        BY <4>1, <4>2, <4>3
    <3>5. Holders' = Holders
      BY <2>1, <2>2, <3>1 DEF Holders
    <3>6. \A u \in threads \cup {Caller} : u # t /\ pc[u] \in {"test", "exec"} =>
            index[u] # index[t] \/ ~(index[u] < taskCount)
      BY <2>1, <3>1 DEF Handout, Held, Holders
    <3>7. Held'
      <4>1. \A u, v \in Holders' : u # v => index'[u] # index'[v]
        BY <2>1, <2>2, <3>5 DEF Handout, Held
      <4>2. ASSUME NEW u \in threads \cup {Caller}, u # t
            PROVE  /\ pc'[u] = "test" /\ index'[u] < taskCount'
                        => index'[u] < next' /\ runs'[index'[u]] = 0
                   /\ pc'[u] = "exec" => /\ index'[u] < taskCount' /\ runs'[index'[u]] = 1
                                         /\ index'[u] \notin completed' \cup failed'
                   /\ pc'[u] = "caught" => index'[u] < taskCount' /\ failed' # {}
        <5>1. pc'[u] = pc[u]
          BY <3>1, <4>2
        <5>2. pc[u] \in {"test", "exec"} /\ index[u] < taskCount => runs'[index[u]] = runs[index[u]]
          BY <3>2, <3>6, <4>2
        <5>3. QED
          BY <2>1, <2>2, <5>1, <5>2, <4>2 DEF Handout, Held
      <4>3. pc'[t] = "exec"
        BY <3>1
      <4>4. QED
        BY <2>1, <2>2, <2>4, <3>2, <3>3, <4>1, <4>2, <4>3 DEF Held
    <3>8. QED
      BY <3>4, <3>7 DEF Handout
  <2>5. QED
    BY <2>3, <2>4
<1>11. ASSUME NEW t \in Threads, TaskReturns(t) PROVE Handout'
  <2>1. t \in threads \cup {Caller} /\ InBatch /\ InBatch' /\ pc[t] = "exec"
    BY <1>11 DEF TaskReturns
  <2>2. /\ UNCHANGED <<threads, taskCount, next, index, runs, count, failed>>
        /\ completed' = completed \cup {index[t]} /\ pc' = [pc EXCEPT ![t] = "claim"]
    BY <1>11 DEF TaskReturns
  <2>3. /\ index[t] < taskCount /\ runs[index[t]] = 1 /\ index[t] \notin completed \cup failed
        /\ t \in Holders
    BY <2>1 DEF Handout, Held, Holders
  <2>4. Tally' /\ Fresh' /\ InlineLoop'
    <3>1. Tally'
      <4>1. /\ InBatch /\ count = taskCount /\ completed \cap failed = {}
            /\ \A i \in 0 .. MaxCount - 1 : runs[i] <= 1
            /\ \A i \in completed \cup failed : i < count /\ runs[i] = 1
        BY <2>1 DEF Handout, Tally
      <4>2. \A i \in completed' \cup failed' : i < count' /\ runs'[i] = 1
        BY <2>2, <2>3, <4>1
      <4>3. completed' \cap failed' = {}
        BY <2>2, <2>3, <4>1
      <4>4. QED
        BY <2>2, <4>1, <4>2, <4>3 DEF Tally
    <3>2. Fresh'
      BY <2>1, <2>2 DEF Handout, Fresh
    <3>3. InlineLoop'
      BY <2>1, <2>2 DEF InlineLoop
    <3>4. QED
      BY <3>1, <3>2, <3>3
  <2>5. Holders' \in SUBSET Holders
    BY <2>1, <2>2 DEF Holders
  <2>6. \A u \in threads \cup {Caller} : u # t /\ pc[u] = "exec" => index[u] # index[t]
    BY <2>1, <2>3 DEF Handout, Held, Holders
  <2>7. Held'
    BY <2>1, <2>2, <2>3, <2>5, <2>6 DEF Handout, Held
  <2>8. QED
    BY <2>4, <2>7 DEF Handout
<1>12. ASSUME NEW t \in Threads, TaskThrows(t) PROVE Handout'
  <2>1. t \in threads \cup {Caller} /\ InBatch /\ InBatch' /\ pc[t] = "exec"
    BY <1>12 DEF TaskThrows
  <2>2. /\ UNCHANGED <<threads, taskCount, next, index, runs, count, completed>>
        /\ failed' = failed \cup {index[t]} /\ pc' = [pc EXCEPT ![t] = "caught"]
    BY <1>12 DEF TaskThrows
  <2>3. /\ index[t] < taskCount /\ runs[index[t]] = 1 /\ index[t] \notin completed \cup failed
        /\ t \in Holders
    BY <2>1 DEF Handout, Held, Holders
  <2>4. Tally' /\ Fresh' /\ InlineLoop'
    <3>1. Tally'
      <4>1. /\ InBatch /\ count = taskCount /\ completed \cap failed = {}
            /\ \A i \in 0 .. MaxCount - 1 : runs[i] <= 1
            /\ \A i \in completed \cup failed : i < count /\ runs[i] = 1
        BY <2>1 DEF Handout, Tally
      <4>2. \A i \in completed' \cup failed' : i < count' /\ runs'[i] = 1
        BY <2>2, <2>3, <4>1
      <4>3. completed' \cap failed' = {}
        BY <2>2, <2>3, <4>1
      <4>4. QED
        BY <2>2, <4>1, <4>2, <4>3 DEF Tally
    <3>2. Fresh'
      BY <2>1, <2>2 DEF Handout, Fresh
    <3>3. InlineLoop'
      BY <2>1, <2>2 DEF InlineLoop
    <3>4. QED
      BY <3>1, <3>2, <3>3
  <2>5. Holders' \in SUBSET Holders
    BY <2>1, <2>2 DEF Holders
  <2>6. \A u \in threads \cup {Caller} : u # t /\ pc[u] = "exec" => index[u] # index[t]
    BY <2>1, <2>3 DEF Handout, Held, Holders
  <2>7. Held'
    BY <2>1, <2>2, <2>3, <2>5, <2>6 DEF Handout, Held
  <2>8. QED
    BY <2>4, <2>7 DEF Handout
<1>13. ASSUME NEW t \in Threads, Caught(t) PROVE Handout'
  BY <1>13 DEF Caught, Handout, Tally, Fresh, Held, Holders, InlineLoop
<1>14. ASSUME NEW t \in Threads, SpuriousWakeup(t) PROVE Handout'
  BY <1>14, HandoutFrame DEF SpuriousWakeup
<1>15. ASSUME NEW w \in Workers, Await(w) PROVE Handout'
  BY <1>15, HandoutFrame DEF Await, HandoutPoints
<1>16. ASSUME NEW w \in Workers, Finish(w) PROVE Handout'
  BY <1>16, HandoutFrame DEF Finish, HandoutPoints
<1>17. CASE UNCHANGED vars
  BY <1>17, HandoutFrame
<1>18. QED
  BY <1>1, <1>2, <1>3, <1>4, <1>5, <1>6, <1>7, <1>8, <1>9, <1>10, <1>11, <1>12, <1>13,
     <1>14, <1>15, <1>16, <1>17, StepCases

\* The same for Outcome, which reads the threads that hold an index, those
\* that caught an exception, and whether the caller has run out of indices.
OutcomePoints == {"test", "exec", "caught"}

LEMMA OutcomeFrame ==
  ASSUME Outcome, InBatch' => InBatch,
         UNCHANGED <<threads, taskCount, next, error, index, completed, failed>>,
         \A t \in threads \cup {Caller} :
            pc[t] \in OutcomePoints \/ pc'[t] \in OutcomePoints => pc'[t] = pc[t],
         InBatch' /\ pc'[Caller] = "done" => pc[Caller] = "done"
  PROVE  Outcome'
BY DEF Outcome, ErrorKept, Accounted, Exhausted, OutcomePoints

LEMMA OutcomeStep ==
  ASSUME IInv, [Next]_vars
  PROVE  Outcome'
<1> USE DEF IInv, Types, Places, InBatch, Threads, pool, local, history, vars, Goto, Unlocked
<1>1. ASSUME NEW n \in 0 .. MaxCount, InlineStart(n) PROVE Outcome'
  BY <1>1 DEF InlineStart, Outcome, ErrorKept, Accounted, Exhausted
<1>2. ASSUME NEW n \in 0 .. MaxCount, Start(n) PROVE Outcome'
  BY <1>2 DEF Start, Outcome, ErrorKept, Accounted, Exhausted, NewBatch
<1>3. CASE InlineTask
  BY <1>3 DEF InlineTask, Outcome, ErrorKept, Accounted, Exhausted
<1>4. CASE InlineReturn
  BY <1>4, OutcomeFrame DEF InlineReturn, OutcomePoints
<1>5. CASE Notify
  BY <1>5, OutcomeFrame DEF Notify, OutcomePoints
<1>6. CASE Collect
  BY <1>6 DEF Collect, Outcome, ErrorKept, Accounted, Exhausted
<1>7. CASE Join
  BY <1>7, OutcomeFrame DEF Join, OutcomePoints
<1>8. CASE Stop
  BY <1>8, OutcomeFrame DEF Stop, OutcomePoints
<1>9. ASSUME NEW t \in Threads, Claim(t) PROVE Outcome'
  <2>1. /\ t \in threads \cup {Caller} /\ InBatch /\ InBatch' /\ pc[t] = "claim"
        /\ index' = [index EXCEPT ![t] = next] /\ pc' = [pc EXCEPT ![t] = "test"]
        /\ next' = next + 1
        /\ UNCHANGED <<threads, taskCount, error, completed, failed>>
    BY <1>9 DEF Claim, Increment
  <2>2. ErrorKept' /\ Exhausted'
    BY <2>1 DEF Outcome, ErrorKept, Exhausted
  <2>3. \A u \in threads \cup {Caller} : u # t => pc'[u] = pc[u] /\ index'[u] = index[u]
    BY <2>1
  <2>4. pc'[t] = "test" /\ index'[t] = next
    BY <2>1
  <2>5. Accounted'
    <3> SUFFICES ASSUME failed = {}, NEW i \in 0 .. taskCount - 1, i < next + 1, i \notin completed
                 PROVE  \E u \in threads \cup {Caller} :
                           pc'[u] \in {"test", "exec"} /\ index'[u] = i
      BY <2>1 DEF Accounted
    <3>1. CASE i = next
      BY <2>1, <2>4, <3>1
    <3>2. CASE i < next
      <4>1. PICK u \in threads \cup {Caller} : pc[u] \in {"test", "exec"} /\ index[u] = i
        BY <2>1, <3>2 DEF Outcome, Accounted
      <4>2. QED
        BY <2>1, <2>3, <4>1
    <3>3. QED
      BY <3>1, <3>2
  <2>6. QED
    BY <2>2, <2>5 DEF Outcome
<1>10. ASSUME NEW t \in Threads, Test(t) PROVE Outcome'
  <2>1. t \in threads \cup {Caller} /\ InBatch /\ InBatch' /\ pc[t] = "test"
    BY <1>10 DEF Test
  <2>2. UNCHANGED <<threads, taskCount, next, error, index, completed, failed>>
    BY <1>10 DEF Test
  <2>3. CASE index[t] >= taskCount /\ pc' = [pc EXCEPT ![t] = "done"]
    <3>1. ErrorKept' /\ Exhausted'
      BY <2>1, <2>2, <2>3 DEF Outcome, ErrorKept, Exhausted
    <3>2. Accounted'
      BY <2>1, <2>2, <2>3 DEF Outcome, Accounted
    <3>3. QED
      BY <3>1, <3>2 DEF Outcome
  <2>4. CASE index[t] < taskCount /\ pc' = [pc EXCEPT ![t] = "exec"]
    <3>1. ErrorKept' /\ Exhausted'
      BY <2>1, <2>2, <2>4 DEF Outcome, ErrorKept, Exhausted
    <3>2. Accounted'
      BY <2>1, <2>2, <2>4 DEF Outcome, Accounted
    <3>3. QED
      BY <3>1, <3>2 DEF Outcome
  <2>5. QED
    BY <1>10, <2>3, <2>4 DEF Test
<1>11. ASSUME NEW t \in Threads, TaskReturns(t) PROVE Outcome'
  <2>1. /\ InBatch' = InBatch /\ completed' = completed \cup {index[t]}
        /\ pc' = [pc EXCEPT ![t] = "claim"]
        /\ UNCHANGED <<threads, taskCount, next, error, index, failed>>
    BY <1>11 DEF TaskReturns
  <2>2. ErrorKept' /\ Exhausted'
    BY <1>11, <2>1 DEF TaskReturns, Outcome, ErrorKept, Exhausted
  <2>3. Accounted'
    BY <1>11, <2>1 DEF TaskReturns, Outcome, Accounted
  <2>4. QED
    BY <2>2, <2>3 DEF Outcome
<1>12. ASSUME NEW t \in Threads, TaskThrows(t) PROVE Outcome'
  BY <1>12 DEF TaskThrows, Outcome, ErrorKept, Accounted, Exhausted
<1>13. ASSUME NEW t \in Threads, Caught(t) PROVE Outcome'
  <2>1. t \in threads \cup {Caller} /\ InBatch /\ InBatch'
    BY <1>13 DEF Caught
  <2>2. index[t] \in 0 .. MaxCount - 1 /\ failed # {}
    BY <1>13, <2>1 DEF Caught, Handout, Held
  <2>3. error' \in 0 .. MaxCount - 1 /\ error' # NoError
    BY <1>13, <2>2 DEF Caught, FirstKept, Outcome, ErrorKept, Accounted, Exhausted, NoError
  <2>4. failed' # {}
    BY <1>13, <2>2 DEF Caught
  <2>5. QED
    BY <2>3, <2>4 DEF Outcome, ErrorKept, Accounted, Exhausted
<1>14. ASSUME NEW t \in Threads, SpuriousWakeup(t) PROVE Outcome'
  BY <1>14, OutcomeFrame DEF SpuriousWakeup
<1>15. ASSUME NEW w \in Workers, Await(w) PROVE Outcome'
  BY <1>15, OutcomeFrame DEF Await, OutcomePoints
<1>16. ASSUME NEW w \in Workers, Finish(w) PROVE Outcome'
  BY <1>16, OutcomeFrame DEF Finish, OutcomePoints
<1>17. CASE UNCHANGED vars
  BY <1>17, OutcomeFrame
<1>18. QED
  BY <1>1, <1>2, <1>3, <1>4, <1>5, <1>6, <1>7, <1>8, <1>9, <1>10, <1>11, <1>12, <1>13,
     <1>14, <1>15, <1>16, <1>17, StepCases

----------------------------------------------------------------------------
LEMMA Initially == Init => IInv
<1> SUFFICES ASSUME Init PROVE IInv
  OBVIOUS
<1> USE DEF Init, Threads
<1>1. Types
  <2>1. pc \in [Threads -> PcValues]
    BY DEF PcValues, PoolAssumption
  <2>2. /\ observed \in [Workers -> Nat] /\ index \in [Threads -> Nat]
        /\ runs \in [0 .. MaxCount - 1 -> Nat]
    OBVIOUS
  <2>3. 0 \in 0 .. MaxBatches /\ 0 \in 0 .. MaxCount
    BY DEF PoolAssumption
  <2>4. /\ threads \in SUBSET Workers /\ task = 0 /\ taskCount = 0 /\ next = 0
        /\ unfinished = 0 /\ epoch = 0 /\ error = NoError /\ stopping \in BOOLEAN
        /\ sleeping = {} /\ count = 0 /\ completed = {} /\ failed = {} /\ result = "none"
    BY Zenon
  <2>5. NoError \in Int
    BY DEF NoError
  <2> HIDE DEF Init
  <2>6. QED
    BY <2>1, <2>2, <2>3, <2>4, <2>5 DEF Types
<1>2. Places /\ Counted
  BY DEF Places, Counted, InBatch, Unlocked
<1>3. Handout /\ Outcome
  BY DEF Handout, Tally, Fresh, Held, InlineLoop, Outcome, ErrorKept, Accounted, Exhausted, InBatch, Unlocked
<1>4. QED
  BY <1>1, <1>2, <1>3 DEF IInv

LEMMA Inductive == IInv /\ [Next]_vars => IInv'
BY TypesStep, PlacesStep, CountedStep, HandoutStep, OutcomeStep DEF IInv

LEMMA Invariance == SafeSpec => []IInv
BY Initially, Inductive, PTL DEF SafeSpec

\* The members of the pool keep their types; in particular the size_t
\* unfinished_workers_ never wraps below zero.
THEOREM TypeCorrect == SafeSpec => []TypeOK
<1>1. IInv => TypeOK
  <2> SUFFICES ASSUME IInv PROVE TypeOK
    OBVIOUS
  <2> USE DEF IInv
  <2>1. IsFiniteSet(threads) /\ Busy \in SUBSET threads
    BY FS_Subset DEF Types, Busy, PoolAssumption
  <2>2. Cardinality(Busy) <= Cardinality(threads) /\ Cardinality(threads) \in Nat
        /\ Cardinality(Busy) \in Nat
    BY <2>1, FS_Subset, FS_CardinalityType
  <2>3. unfinished \in 0 .. Cardinality(threads)
    BY <2>2 DEF Counted
  <2>4. epoch \in 0 .. MaxBatches + 1 /\ observed \in [Workers -> 0 .. MaxBatches + 1]
    BY DEF Types, Places, PoolAssumption
  <2>5. sleeping \in SUBSET ({Caller} \cup threads)
    BY DEF Types, Places, Threads
  <2>6. QED
    BY <2>3, <2>4, <2>5 DEF TypeOK, Types, Outcome, ErrorKept, Accounted, Exhausted
<1>2. QED
  BY <1>1, Invariance, PTL

\* No index of a batch is executed twice, for any number of threads.
THEOREM ExecutesOnce == SafeSpec => []AtMostOnce
<1>1. IInv => AtMostOnce
  BY DEF IInv, Handout, Tally, AtMostOnce
<1>2. QED
  BY <1>1, Invariance, PTL

\* task_ and task_count_ are written only while no thread reads them.
THEOREM BatchFieldsUnshared == SafeSpec => NoRaceOnBatch
<1>1. ASSUME IInv, [Next]_vars
      PROVE  [<<task, taskCount>>' # <<task, taskCount>> =>
                \A t \in threads \cup {Caller} : pc[t] \notin Unlocked]_vars
  <2>1. ASSUME NEW n \in 0 .. MaxCount, Start(n), NEW t \in threads \cup {Caller}
        PROVE  pc[t] \notin Unlocked
    BY <1>1, <2>1 DEF Start, IInv, Places, InBatch, Unlocked
  <2>2. ASSUME Collect, task' # task \/ taskCount' # taskCount, NEW t \in threads \cup {Caller}
        PROVE  pc[t] \notin Unlocked
    BY <1>1, <2>2, NobodyBusy DEF Collect, Unlocked
  <2>3. (\E n \in 0 .. MaxCount : Start(n)) \/ Collect \/ UNCHANGED <<task, taskCount>>
    BY <1>1, StepCases DEF vars, pool, local, history, InlineStart, InlineTask, InlineReturn,
       Notify, Join, Stop, Claim, Test, TaskReturns, TaskThrows, Caught, SpuriousWakeup,
       Await, Finish
  <2>4. QED
    BY <2>1, <2>2, <2>3
<1>2. QED
  BY <1>1, Invariance, PTL DEF SafeSpec, NoRaceOnBatch

----------------------------------------------------------------------------
\* Every step of the pool is one step of a parallel for, or none.
LEMMA StepRefines ==
  ASSUME IInv, [Next]_vars
  PROVE  [Abstract!AbsNext]_Abstract!absVars
<1> USE DEF Abstract!AbsNext, Abstract!absVars, Idle, Goto
<1>1. ASSUME NEW n \in 0 .. MaxCount, InlineStart(n) \/ Start(n) PROVE Abstract!Begin(n)
  BY <1>1 DEF InlineStart, Start, NewBatch, Abstract!Begin, IInv, Types, Threads
<1>2. CASE InlineTask
  <2>1. /\ index[Caller] \in 0 .. MaxCount - 1 /\ index[Caller] < count
        /\ index[Caller] \notin completed \cup failed
    BY <1>2 DEF InlineTask, IInv, Types, Threads, Handout, InlineLoop
  <2>2. Abstract!Complete(index[Caller]) \/ Abstract!Throw(index[Caller])
    BY <1>2, <2>1 DEF InlineTask, Abstract!Complete, Abstract!Throw, Abstract!Pending, IInv,
       Types, Threads
  <2>3. QED
    BY <2>1, <2>2
<1>3. CASE InlineReturn
  BY <1>3 DEF InlineReturn, Abstract!Return, IInv, Types, Threads, Handout, InlineLoop
<1>4. CASE Notify
  BY <1>4 DEF Notify, IInv, Types, Threads, history, Places
<1>5. CASE Collect
  <2>1. CASE AllFinished
    <3>1. \A t \in threads \cup {Caller} : pc[t] \in {"await", "done"}
      BY <1>5, <2>1, NobodyBusy DEF Collect
    <3>2. InBatch /\ count = taskCount
      BY <1>5 DEF Collect, InBatch, IInv, Handout, Tally
    <3>3. failed # {} <=> error # NoError
      BY <3>1, <3>2 DEF IInv, Outcome, ErrorKept, Accounted, Exhausted
    <3>4. failed = {} => completed = 0 .. count - 1
      <4>1. ASSUME failed = {} PROVE \A i \in 0 .. count - 1 : i \in completed
        <5>1. next >= taskCount /\ pc[Caller] = "done"
          BY <4>1, <3>2, <1>5 DEF Collect, IInv, Outcome, Exhausted
        <5>2. \A i \in 0 .. taskCount - 1 : i < next
          BY <5>1 DEF IInv, Types
        <5>3. QED
          BY <4>1, <3>1, <3>2, <5>2 DEF IInv, Outcome, Accounted
      <4>2. completed \subseteq 0 .. count - 1
        BY DEF IInv, Types, Handout, Tally
      <4>3. QED
        BY <4>1, <4>2
    <3>5. Abstract!Return
      BY <1>5, <2>1, <3>3, <3>4 DEF Collect, Abstract!Return, IInv, Types, Threads
    <3>6. QED
      BY <3>5
  <2>2. CASE ~AllFinished
    BY <1>5, <2>2 DEF Collect
  <2>3. QED
    BY <2>1, <2>2
<1>6. CASE Join \/ Stop
  BY <1>6 DEF Join, Stop, IInv, Types, Threads, history
<1>7. ASSUME NEW t \in Threads, Claim(t) \/ Test(t) \/ Caught(t) \/ SpuriousWakeup(t)
      PROVE  UNCHANGED Abstract!absVars
  BY <1>7 DEF Claim, Test, Caught, SpuriousWakeup, IInv, Types, Threads, history, Places
<1>8. ASSUME NEW t \in Threads, TaskReturns(t) \/ TaskThrows(t)
      PROVE  \E i \in 0 .. MaxCount - 1 : Abstract!Complete(i) \/ Abstract!Throw(i)
  <2>1. pc[t] = "exec" /\ t \in threads \cup {Caller} /\ InBatch
    BY <1>8 DEF TaskReturns, TaskThrows, IInv, Places, InBatch, Threads, Unlocked
  <2>2. /\ index[t] \in 0 .. MaxCount - 1 /\ index[t] < count
        /\ index[t] \notin completed \cup failed
    BY <2>1 DEF IInv, Types, Threads, Handout, Held, Tally
  <2>3. pc[Caller] \notin Idle /\ pc'[Caller] \notin Idle
    BY <1>8, <2>1 DEF InBatch, Unlocked, TaskReturns, TaskThrows, IInv, Types, Threads
  <2>4. Abstract!Complete(index[t]) \/ Abstract!Throw(index[t])
    BY <1>8, <2>2, <2>3 DEF TaskReturns, TaskThrows, Abstract!Complete, Abstract!Throw,
       Abstract!Pending, IInv, Types
  <2>5. QED
    BY <2>2, <2>4
<1>9. ASSUME NEW w \in Workers, Await(w) \/ Finish(w) PROVE UNCHANGED Abstract!absVars
  BY <1>9 DEF Await, Finish, IInv, Types, Threads, history, PoolAssumption
<1>10. CASE UNCHANGED vars
  BY <1>10 DEF vars, local, history
<1>11. QED
  BY <1>1, <1>2, <1>3, <1>4, <1>5, <1>6, <1>7, <1>8, <1>9, <1>10, StepCases

\* run() on the pool is a parallel for: complete on return, an exception
\* if a task threw one, nothing left running.
THEOREM Refines == SafeSpec => ImplementsParallelFor
<1>1. Init => Abstract!AbsInit
  BY DEF Init, Abstract!AbsInit, Idle, Threads
<1>2. QED
  BY <1>1, StepRefines, Invariance, PTL DEF SafeSpec, ImplementsParallelFor, Abstract!AbsSpec
============================================================================
