--------------------------- MODULE MCApplyWorker ----------------------------
(***************************************************************************)
(* ApplyWorker for TLC.  A node commits for ever, so its log must not end: *)
(* with a highest index every behaviour would come to rest, and no query   *)
(* could starve.  Only the distances between the cursors matter to the     *)
(* code; Renumber takes one off every index once the lowest entries are    *)
(* done with, and MaxIndex bounds the distance, not the log.               *)
(***************************************************************************)
EXTENDS ApplyWorker

Lower(n) == Less(n, 1)
LowerBatch(b) == [from |-> b.from - 1, to |-> b.to - 1]
LowerBatches(s) == [i \in DOMAIN s |-> LowerBatch(s[i])]

\* snapshot_due is the only operator that looks at an index and not at a
\* distance: renumbering changes none of its answers.
Renumber ==
  /\ At("priority") /\ resolved > 1
  /\ \A applied \in resolved..MaxIndex :
       snapshot_due(applied, compacted) = snapshot_due(applied - 1, Lower(compacted))
  /\ committed' = committed - 1 /\ compacted' = Lower(compacted)
  /\ dispatched' = dispatched - 1 /\ resolved' = resolved - 1 /\ accepted' = accepted - 1
  /\ applying' = applying - 1 /\ stored' = stored - 1 /\ durable' = durable - 1
  /\ queue' = LowerBatches(queue) /\ events' = LowerBatches(events)
  /\ current' = IF current = NoBatch THEN NoBatch ELSE LowerBatch(current)
  /\ seen' = Lower(seen) /\ target' = Lower(target)
  /\ waiting' = [i \in DOMAIN waiting |-> [waiting[i] EXCEPT !.fence = Lower(@)]]
  /\ asked' = [q \in Queries |-> Lower(asked[q])]
  /\ answer' = [q \in Queries |->
                  IF answer[q].kind = "ok"
                    THEN [answer[q] EXCEPT !.index = Lower(@), !.inProgress = Lower(@)]
                    ELSE answer[q]]
  /\ UNCHANGED <<persisting, used, locked, worker, owner, looking, exit>>

EndlessSpec == Init /\ [][Next \/ Renumber]_vars /\ Fairness
=============================================================================
