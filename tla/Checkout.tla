------------------------------ MODULE Checkout ------------------------------
(***************************************************************************)
(* The working copy that every measured binary comes from                  *)
(* (src/benchctl/selection.py, build.py and the checks of cli.run): which  *)
(* Rafter commit its manifests, lockfiles and pins name, what is in dist/, *)
(* and the receipt dist/build.json that ties the two together.             *)
(*                                                                         *)
(* select_rafter, build and restore_rafter_selection are sequences of      *)
(* steps; `op` is the step the running one takes next.  Each of them can   *)
(* raise at any step and its process can be killed between two steps.      *)
(* Commands run one at a time and the developer edits between commands.    *)
(***************************************************************************)
EXTENDS Naturals, Sequences

CONSTANTS Shas,       \* exact Rafter commits
          BranchRef,  \* a ref that is not an exact commit; its commit moves
          HardStates, \* hard-state backends a build can select
          Committed,  \* the Rafter commit of the checked-in selection
          MaxEdits,   \* bound: source edits of one behaviour
          MaxMoves    \* bound: pushes to the branch

ASSUME RefAssumption == BranchRef \notin Shas /\ Committed \in Shas

Manifests == {"adapters/rafter/Cargo.toml", "crates/common/Cargo.toml", "microbench/Cargo.toml"}
Locks == {"Cargo.lock", "microbench/Cargo.lock"}
Pins == "implementations.lock.json"
Files == Manifests \union Locks \union {Pins}

\* The order in which the files are published and restored.
SelectionFiles == <<"adapters/rafter/Cargo.toml", "crates/common/Cargo.toml",
                    "microbench/Cargo.toml", "Cargo.lock", "microbench/Cargo.lock",
                    "implementations.lock.json">>

Implementations == <<"rafter", "raft-rs", "openraft">>
Engines == {"rafter", "raft-rs", "openraft"}
Refs == Shas \union {BranchRef}
Configs == [hard : HardStates, group : BOOLEAN, ordered : BOOLEAN, pipelined : BOOLEAN]
NoReceipt == [present |-> FALSE]
NothingBuilt == [built |-> FALSE]
NoConfig == [hard |-> "none"]

VARIABLES selection, \* the Rafter commit each selection file names
          sources,   \* version of the benchmark's own sources
          branch,    \* the commit BranchRef names
          moves,     \* pushes so far
          dist,      \* what each binary in dist/ was built from
          receipt,   \* dist/build.json
          op,        \* next step of the running operation, or "none"
          next,      \* next file or binary of a loop
          ref,       \* the ref select_rafter was called with
          sha,       \* the commit it resolved
          config,    \* the features build was called with
          captured,  \* the selection restore_rafter_selection was called with
          outcome,   \* how the last operation ended
          cut        \* the last publication was cut by a kill or an I/O error,
                     \* or a restore brought such a selection back

checkoutVars == <<selection, sources, branch, moves, dist, receipt, op, next, ref, sha,
                  config, captured, outcome, cut>>
callVars == <<ref, config, captured>>
treeVars == <<sources, branch, moves>>

-----------------------------------------------------------------------------
\* Every manifest and lockfile names the commit.
CheckResolution(files, commit) == \A f \in Manifests \union Locks : files[f] = commit

Whole(files) == CheckResolution(files, files[Pins])

\* What cargo and go make of the checkout: the lockfile decides the Rafter
\* commit, and the load generator depends on the benchmark's sources alone.
Built(engine) == [built |-> TRUE, rev |-> selection["Cargo.lock"], sources |-> sources, config |-> config]
BuiltLoad == [built |-> TRUE, sources |-> sources]

SourceDigest == [files |-> selection, sources |-> sources]

Resolved == IF ref \in Shas THEN ref ELSE branch

\* The operation returns or raises, and its locals are gone.
Finish(how) ==
  /\ op' = "none" /\ outcome' = how
  /\ next' = 1 /\ ref' = Committed /\ sha' = Committed
  /\ config' = NoConfig /\ captured' = [f \in Files |-> Committed]

\* An exception leaves the files where they are.
Raise == Finish("raised") /\ UNCHANGED <<selection, treeVars, dist>>

-----------------------------------------------------------------------------
\* select_rafter is called.
Select(r) ==
  /\ op = "none"
  /\ op' = "stage" /\ ref' = r /\ outcome' = "none"
  /\ UNCHANGED <<selection, treeVars, dist, receipt, next, sha, config, captured, cut>>

\* A selection rewritten in place instead of in a copy.
StageInPlace ==
  /\ \A f \in Locks : selection[f] = selection[Pins]
  /\ sha' = Resolved /\ op' = "invalidate"
  /\ selection' = [f \in Files |-> IF f \in Manifests THEN Resolved ELSE selection[f]]
  /\ UNCHANGED <<treeVars, dist, receipt, next, callVars, outcome, cut>>

\* Resolve the ref, rewrite manifests and lockfiles in a disposable copy and
\* check it.  The lockfiles are rewritten from the commit the pins name and
\* refused when one of them has no source at that commit.
StageSucceeds ==
  /\ \A f \in Locks : selection[f] = selection[Pins]
  /\ sha' = Resolved /\ op' = "invalidate"
  /\ UNCHANGED <<selection, treeVars, dist, receipt, next, callVars, outcome, cut>>

Stage == op = "stage" /\ (StageSucceeds \/ (Raise /\ UNCHANGED <<receipt, cut>>))

\* The receipts go before the first changed file is published.
Invalidate ==
  /\ op = "invalidate"
  /\ \/ /\ receipt' = NoReceipt /\ op' = "publish" /\ next' = 1
        /\ UNCHANGED <<selection, treeVars, dist, callVars, sha, outcome, cut>>
     \/ Raise /\ UNCHANGED <<receipt, cut>>

\* One file at a time, the pins last.
Publish ==
  /\ op = "publish"
  /\ \/ /\ selection' = [selection EXCEPT ![SelectionFiles[next]] = sha]
        /\ IF next = Len(SelectionFiles)
           THEN Finish("ok") /\ cut' = FALSE
           ELSE next' = next + 1 /\ UNCHANGED <<op, outcome, callVars, sha, cut>>
        /\ UNCHANGED <<treeVars, dist, receipt>>
     \/ Raise /\ cut' = TRUE /\ UNCHANGED receipt

-----------------------------------------------------------------------------
\* build is called; a pipelined build has the features it rests on.
Build(c) ==
  /\ op = "none"
  /\ op' = "check" /\ outcome' = "none"
  /\ config' = IF c.pipelined THEN [c EXCEPT !.group = TRUE, !.ordered = TRUE] ELSE c
  /\ UNCHANGED <<selection, treeVars, dist, receipt, next, ref, sha, captured, cut>>

\* A failed rebuild leaves the earlier receipt.
CheckAndCompileKeeping ==
  /\ op = "check"
  /\ \/ /\ Whole(selection) /\ op' = "copy" /\ next' = 1
        /\ UNCHANGED <<selection, treeVars, dist, receipt, callVars, sha, outcome, cut>>
     \/ Raise /\ UNCHANGED <<receipt, cut>>

\* The earlier receipt goes first; then the selection must be whole, the
\* tools present, the Rust tests green and the workspace compiled.
CheckAndCompile ==
  /\ op = "check"
  /\ receipt' = NoReceipt
  /\ \/ /\ Whole(selection) /\ op' = "copy" /\ next' = 1
        /\ UNCHANGED <<selection, treeVars, dist, callVars, sha, outcome, cut>>
     \/ Raise /\ UNCHANGED cut

CopyBinary ==
  /\ op = "copy"
  /\ \/ /\ dist' = [dist EXCEPT ![Implementations[next]] = Built(Implementations[next])]
        /\ IF next = Len(Implementations)
           THEN op' = "loadgen" /\ UNCHANGED next
           ELSE next' = next + 1 /\ UNCHANGED op
        /\ UNCHANGED <<selection, treeVars, receipt, callVars, sha, outcome, cut>>
     \/ Raise /\ UNCHANGED <<receipt, cut>>

\* Go tests and build of the load generator.
BuildLoad ==
  /\ op = "loadgen"
  /\ \/ /\ dist' = [dist EXCEPT !["load"] = BuiltLoad] /\ op' = "record"
        /\ UNCHANGED <<selection, treeVars, receipt, next, callVars, sha, outcome, cut>>
     \/ Raise /\ UNCHANGED <<receipt, cut>>

\* The receipt is written aside and renamed into place.
Record ==
  /\ op = "record"
  /\ \/ /\ receipt' = [present |-> TRUE, rev |-> selection[Pins], config |-> config,
                       source |-> SourceDigest, binaries |-> dist]
        /\ Finish("ok")
        /\ UNCHANGED <<selection, treeVars, dist, cut>>
     \/ Raise /\ UNCHANGED <<receipt, cut>>

-----------------------------------------------------------------------------
\* restore_rafter_selection is called with a captured selection.
Restore(files) ==
  /\ op = "none"
  /\ op' = "revoke" /\ captured' = files /\ outcome' = "none"
  /\ UNCHANGED <<selection, treeVars, dist, receipt, next, ref, sha, config, cut>>

Revoke ==
  /\ op = "revoke"
  /\ \/ /\ receipt' = NoReceipt /\ op' = "rewrite" /\ next' = 1
        /\ UNCHANGED <<selection, treeVars, dist, callVars, sha, outcome, cut>>
     \/ Raise /\ cut' = TRUE /\ UNCHANGED receipt

\* Write the captured bytes back file by file and check the result.
Rewrite ==
  /\ op = "rewrite"
  /\ \/ /\ selection' = [selection EXCEPT ![SelectionFiles[next]] = captured[SelectionFiles[next]]]
        /\ IF next = Len(SelectionFiles)
           THEN Finish(IF Whole(captured) THEN "ok" ELSE "raised") /\ cut' = ~Whole(captured)
           ELSE next' = next + 1 /\ UNCHANGED <<op, outcome, callVars, sha, cut>>
        /\ UNCHANGED <<treeVars, dist, receipt>>
     \/ Raise /\ cut' = TRUE /\ UNCHANGED receipt

-----------------------------------------------------------------------------
\* The process dies between two steps; files stay as they are.
KillOp ==
  /\ Finish("killed")
  /\ cut' = (cut \/ op \in {"publish", "revoke", "rewrite"})
  /\ UNCHANGED <<selection, treeVars, dist, receipt>>

\* Between commands the developer edits a source file.
Edit ==
  /\ op = "none" /\ sources < MaxEdits
  /\ sources' = sources + 1
  /\ UNCHANGED <<selection, branch, moves, dist, receipt, op, next, callVars, sha, outcome, cut>>

\* Between commands the developer takes the checked-in files back.
GitCheckout ==
  /\ op = "none"
  /\ selection' = [f \in Files |-> Committed] /\ sources' = 0 /\ cut' = FALSE
  /\ UNCHANGED <<branch, moves, dist, receipt, op, next, callVars, sha, outcome>>

\* Somebody pushes to the branch, at any time.
MoveBranch ==
  /\ moves < MaxMoves
  /\ moves' = moves + 1 /\ branch' \in Shas \ {branch}
  /\ UNCHANGED <<selection, sources, dist, receipt, op, next, callVars, sha, outcome, cut>>

OpStep ==
  \/ Stage \/ Invalidate \/ Publish
  \/ CheckAndCompile \/ CopyBinary \/ BuildLoad \/ Record
  \/ Revoke \/ Rewrite

CheckoutInit ==
  /\ selection = [f \in Files |-> Committed]
  /\ sources = 0 /\ branch = Committed /\ moves = 0
  /\ dist = [e \in Engines \union {"load"} |-> NothingBuilt]
  /\ receipt = NoReceipt
  /\ op = "none" /\ next = 1 /\ ref = Committed /\ sha = Committed
  /\ config = NoConfig
  /\ captured = [f \in Files |-> Committed]
  /\ outcome = "none" /\ cut = FALSE

CheckoutNext ==
  \/ \E r \in Refs : Select(r)
  \/ \E c \in Configs : Build(c)
  \/ \E files \in [Files -> Shas] : Restore(files)
  \/ OpStep
  \/ KillOp \/ Edit \/ GitCheckout \/ MoveBranch

CheckoutSpec == CheckoutInit /\ [][CheckoutNext]_checkoutVars

-----------------------------------------------------------------------------
\* The checks `raft-bench run` makes before it starts a case.
RunAccepts(o) ==
  /\ receipt.present
  /\ "rafter" \in o.implementations =>
       /\ o.peer_batch_size > 1 => receipt.config.group
       /\ o.ordered_apply => receipt.config.ordered
  /\ o.pipelined_durability => receipt.config.pipelined
  /\ o.snapshot_interval_entries > 0 => receipt.config.hard = "wal"
  /\ receipt.source = SourceDigest
  /\ \A e \in o.implementations : dist[e] = receipt.binaries[e]
  /\ dist["load"] = receipt.binaries["load"]

\* Before a case starts, the receipt of a checkout whose sources it still
\* describes tells the truth: the selection is whole at the commit it names,
\* and every binary in dist/ was built from that commit, those sources and
\* those features -- after any sequence of selections, builds and restores
\* that failed or were killed half way (build.py:19, selection.py:163).
ReceiptTruthful ==
  receipt.present /\ receipt.source = SourceDigest =>
    /\ CheckResolution(selection, receipt.rev) /\ selection[Pins] = receipt.rev
    /\ \A e \in Engines : dist[e] = [built |-> TRUE, rev |-> receipt.rev, sources |-> sources,
                                     config |-> receipt.config]
    /\ dist["load"] = BuiltLoad
    /\ receipt.binaries = dist

\* Selecting or restoring a revision never leaves half the checkout on one
\* Rafter commit and half on another, unless the publication itself was cut
\* short (the promise of the comment at selection.py:109); and a checkout left
\* in halves by a kill or an I/O error is never what a build copies binaries
\* from or records (build.py:19).
SelectionWhole ==
  /\ op \notin {"publish", "rewrite"} /\ ~Whole(selection) => cut
  /\ op \in {"copy", "loadgen", "record"} => Whole(selection)
=============================================================================
