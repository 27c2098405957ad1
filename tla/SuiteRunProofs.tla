--------------------------- MODULE SuiteRunProofs ---------------------------
(***************************************************************************)
(* The working copy and the suites that run in it, for every set of        *)
(* commits and suites and any number of edits, pushes, kills and commands. *)
(*                                                                         *)
(* First the working copy on its own (CheckoutSpec).  ReceiptTruthful      *)
(* speaks of a receipt that matches the checkout.  What makes it inductive *)
(* is a fact about every receipt, matching or not: the binaries in dist/   *)
(* are the ones it was written for, because build takes it away before it  *)
(* replaces the first of them (ReceiptInv), and while build copies, the    *)
(* checkout it copies from stays as it was checked (BuildInv).             *)
(* SelectionWhole needs the prefix of files already published or restored  *)
(* (PublishInv), and for the build that check again (BuildInv).            *)
(*                                                                         *)
(* Then the suites (Spec).  ControlInv says which operation can be running *)
(* at which step of a suite; RestoreInv what the restore at the end of a   *)
(* preparation still has to do; ArmInv follows a ref from the call of      *)
(* select_rafter to the receipt, ArchiveInv from there into the archive;   *)
(* DelayInv says what is on the loopback at every step.                    *)
(***************************************************************************)
EXTENDS SuiteRun, TLAPS

BuildOps == {"copy", "loadgen", "record"}

Names == Engines \union {"load"}

\* What a binary is when a receipt with these fields was written.
As(rev, version, features) == [built |-> TRUE, rev |-> rev, sources |-> version, config |-> features]

DomainInv ==
  /\ selection = [f \in Files |-> selection[f]]
  /\ captured = [f \in Files |-> captured[f]]
  /\ dist = [e \in Names |-> dist[e]]

ReceiptInv ==
  receipt.present =>
    /\ op \notin BuildOps
    /\ receipt.binaries = dist
    /\ receipt.source.files[Pins] = receipt.rev
    /\ CheckResolution(receipt.source.files, receipt.rev)
    /\ \A e \in Engines : dist[e] = As(receipt.rev, receipt.source.sources, receipt.config)
    /\ dist["load"] = [built |-> TRUE, sources |-> receipt.source.sources]

BuildInv ==
  /\ op \in BuildOps => Whole(selection)
  /\ op = "copy" => next \in 1..3 /\ \A i \in 1..3 : i < next => dist[Implementations[i]] = Built(Implementations[i])
  /\ op \in {"loadgen", "record"} => \A e \in Engines : dist[e] = Built(e)
  /\ op = "record" => dist["load"] = BuiltLoad

PublishInv ==
  /\ op = "publish" => next \in 1..6 /\ \A i \in 1..6 : i < next => selection[SelectionFiles[i]] = sha
  /\ op = "rewrite" =>
       next \in 1..6 /\ \A i \in 1..6 : i < next => selection[SelectionFiles[i]] = captured[SelectionFiles[i]]

\* A mix of two commits comes from a publication that was cut short.
HalvesCut == op \notin {"publish", "rewrite"} /\ ~Whole(selection) => cut

IInv == DomainInv /\ ReceiptInv /\ BuildInv /\ PublishInv /\ HalvesCut

-----------------------------------------------------------------------------
\* SELECTION_FILES lists every selection file, and build copies every engine.
LEMMA Inventory ==
  /\ Len(SelectionFiles) = 6 /\ Len(Implementations) = 3
  /\ Files = {SelectionFiles[i] : i \in 1..6}
  /\ Engines = {Implementations[i] : i \in 1..3}
  /\ Pins \in Files /\ "Cargo.lock" \in Locks /\ Locks \subseteq Files /\ Manifests \subseteq Files
  /\ "load" \notin Engines
  /\ \A i, j \in 1..6 : SelectionFiles[i] = SelectionFiles[j] => i = j
  /\ \A i, j \in 1..3 : Implementations[i] = Implementations[j] => i = j
<1>1. Len(SelectionFiles) = 6 /\ Len(Implementations) = 3
  BY Zenon DEF SelectionFiles, Implementations
<1>2. Files = {SelectionFiles[i] : i \in 1..6}
  BY DEF Files, Manifests, Locks, Pins, SelectionFiles
<1>3. Engines = {Implementations[i] : i \in 1..3}
  BY DEF Engines, Implementations
<1>4. Pins \in Files /\ "Cargo.lock" \in Locks /\ Locks \subseteq Files /\ Manifests \subseteq Files
  BY Zenon DEF Files, Manifests, Locks, Pins
<1>5. "load" \notin Engines
  BY Zenon DEF Engines
<1>6. \A i, j \in 1..6 : SelectionFiles[i] = SelectionFiles[j] => i = j
  BY DEF SelectionFiles
<1>7. \A i, j \in 1..3 : Implementations[i] = Implementations[j] => i = j
  BY DEF Implementations
<1> QED  BY Zenon, <1>1, <1>2, <1>3, <1>4, <1>5, <1>6, <1>7

\* The checked-in checkout without a build satisfies the invariant.
LEMMA InitIInv == CheckoutInit => IInv
<1> SUFFICES ASSUME CheckoutInit PROVE IInv
  BY Zenon
<1>1. DomainInv
  BY Zenon DEF CheckoutInit, DomainInv, Names
<1>2. ReceiptInv
  BY Zenon DEF CheckoutInit, ReceiptInv, NoReceipt
<1>3. BuildInv /\ PublishInv
  BY Zenon DEF CheckoutInit, BuildInv, PublishInv, BuildOps
<1>4. HalvesCut
  BY Zenon, Inventory DEF CheckoutInit, HalvesCut, Whole, CheckResolution
<1> QED  BY Zenon, <1>1, <1>2, <1>3, <1>4 DEF IInv

\* An operation that touches neither dist/ nor the receipt, and ends outside a
\* build, keeps what a receipt says.
LEMMA ReceiptKept ==
  ASSUME ReceiptInv, UNCHANGED <<dist, receipt>>, op' \notin BuildOps
  PROVE  ReceiptInv'
BY ZenonT(30) DEF ReceiptInv, As, CheckResolution

\* With the receipt gone there is nothing it could say.
LEMMA ReceiptGone == ASSUME receipt' = NoReceipt PROVE ReceiptInv'
BY Zenon DEF ReceiptInv, NoReceipt

\* An operation that is in none of the loops has nothing to show for them.
LEMMA NoLoop ==
  ASSUME op' \notin BuildOps \union {"publish", "rewrite"}
  PROVE  BuildInv' /\ PublishInv'
BY Zenon DEF BuildInv, PublishInv, BuildOps

\* An operation that ends by raising leaves the files as they were; a
\* publication or a restore that raises says so in cut.
LEMMA RaiseKeeps ==
  ASSUME IInv, Raise, receipt' = receipt \/ receipt' = NoReceipt,
         cut' = TRUE \/ (cut' = cut /\ op \notin {"publish", "rewrite"})
  PROVE  IInv'
<1>1. DomainInv'
  BY Zenon DEF IInv, DomainInv, Raise, Finish, treeVars
<1>2. ReceiptInv'
  <2>1. op' \notin BuildOps /\ UNCHANGED dist
    BY Zenon DEF Raise, Finish, BuildOps
  <2> QED  BY Zenon, <2>1, ReceiptKept, ReceiptGone DEF IInv
<1>3. BuildInv' /\ PublishInv'
  BY Zenon, NoLoop DEF Raise, Finish, BuildOps
<1>4. HalvesCut'
  BY Zenon DEF IInv, HalvesCut, Raise, Whole, CheckResolution
<1> QED  BY Zenon, <1>1, <1>2, <1>3, <1>4 DEF IInv

-----------------------------------------------------------------------------
\* Calls, edits, pushes and kills change no file an operation is working on.
LEMMA CallKeeps ==
  ASSUME IInv,
         \/ \E r \in Refs : Select(r)
         \/ \E c \in Configs : Build(c)
         \/ \E files \in [Files -> Shas] : Restore(files)
  PROVE  IInv'
<1>1. /\ op = "none" /\ op' \in {"stage", "check", "revoke"}
      /\ UNCHANGED <<selection, dist, receipt, cut>>
  BY Zenon DEF Select, Build, Restore
<1>2. DomainInv'
  BY Zenon, <1>1 DEF IInv, DomainInv, Select, Build, Restore
<1>3. ReceiptInv'
  BY Zenon, <1>1, ReceiptKept DEF IInv, BuildOps
<1>4. BuildInv' /\ PublishInv'
  BY Zenon, <1>1, NoLoop DEF BuildOps
<1>5. HalvesCut'
  BY Zenon, <1>1 DEF IInv, HalvesCut, Whole, CheckResolution
<1> QED  BY Zenon, <1>2, <1>3, <1>4, <1>5 DEF IInv

\* A killed operation leaves the files, and cut says whether it was publishing.
LEMMA KillKeeps == ASSUME IInv, KillOp PROVE IInv'
<1>1. op' = "none" /\ UNCHANGED <<selection, dist, receipt>>
  BY Zenon DEF KillOp, Finish
<1>2. DomainInv'
  BY Zenon, <1>1 DEF IInv, DomainInv, KillOp, Finish
<1>3. ReceiptInv'
  BY Zenon, <1>1, ReceiptKept DEF IInv, BuildOps
<1>4. BuildInv' /\ PublishInv'
  BY Zenon, <1>1, NoLoop DEF BuildOps
<1>5. HalvesCut'
  BY Zenon, <1>1 DEF IInv, HalvesCut, Whole, CheckResolution, KillOp
<1> QED  BY Zenon, <1>2, <1>3, <1>4, <1>5 DEF IInv

\* The developer works between commands, when no operation is half way.
LEMMA DeveloperKeeps == ASSUME IInv, Edit \/ GitCheckout PROVE IInv'
<1>1. op = "none" /\ op' = "none" /\ UNCHANGED <<dist, receipt>>
  BY Zenon DEF Edit, GitCheckout
<1>2. DomainInv'
  BY Zenon, <1>1 DEF IInv, DomainInv, Edit, GitCheckout, callVars
<1>3. ReceiptInv'
  BY Zenon, <1>1, ReceiptKept DEF IInv, BuildOps
<1>4. BuildInv' /\ PublishInv'
  BY Zenon, <1>1, NoLoop DEF BuildOps
<1>5. HalvesCut'
  BY <1>1, Inventory DEF IInv, HalvesCut, Whole, CheckResolution, Edit, GitCheckout
<1> QED  BY Zenon, <1>2, <1>3, <1>4, <1>5 DEF IInv

\* The branch is in none of the invariants.
LEMMA PushKeeps == ASSUME IInv, MoveBranch PROVE IInv'
BY Zenon DEF IInv, DomainInv, ReceiptInv, BuildInv, PublishInv, HalvesCut, MoveBranch, callVars,
       Built, BuiltLoad, Whole, CheckResolution, As

-----------------------------------------------------------------------------
\* Staging and taking the receipt away change no selection file.
LEMMA StageKeeps == ASSUME IInv, Stage PROVE IInv'
<1>1. CASE StageSucceeds
  <2>1. op' = "invalidate" /\ op = "stage" /\ UNCHANGED <<selection, dist, receipt, captured, cut>>
    BY Zenon, <1>1 DEF Stage, StageSucceeds, callVars
  <2>2. DomainInv' /\ HalvesCut'
    BY Zenon, <2>1 DEF IInv, DomainInv, HalvesCut, Whole, CheckResolution
  <2>3. ReceiptInv' /\ BuildInv' /\ PublishInv'
    BY Zenon, <2>1, ReceiptKept, NoLoop DEF IInv, BuildOps
  <2> QED  BY Zenon, <2>2, <2>3 DEF IInv
<1>2. CASE Raise /\ UNCHANGED <<receipt, cut>>
  BY Zenon, <1>2, RaiseKeeps DEF Stage
<1> QED  BY Zenon, <1>1, <1>2 DEF Stage

\* The receipt is gone before the first file of a publication or a restore changes.
LEMMA RevokeKeeps == ASSUME IInv, Invalidate \/ Revoke PROVE IInv'
<1>1. CASE Raise
  BY Zenon, <1>1, RaiseKeeps DEF Invalidate, Revoke
<1>2. CASE ~Raise
  <2>1. /\ op \in {"invalidate", "revoke"} /\ op' \in {"publish", "rewrite"} /\ next' = 1
        /\ receipt' = NoReceipt /\ UNCHANGED <<selection, dist, captured>>
    BY Zenon, <1>2 DEF Invalidate, Revoke, callVars
  <2>2. DomainInv' /\ HalvesCut'
    BY Zenon, <2>1 DEF IInv, DomainInv, HalvesCut
  <2>3. ReceiptInv' /\ BuildInv' /\ PublishInv'
    BY <2>1, ReceiptGone DEF BuildInv, BuildOps, PublishInv
  <2> QED  BY Zenon, <2>2, <2>3 DEF IInv
<1> QED  BY Zenon, <1>1, <1>2

\* A file is published: the prefix grows, and after the last one the whole
\* selection names the resolved commit.
LEMMA PublishKeeps == ASSUME IInv, Publish PROVE IInv'
<1>1. CASE Raise /\ cut' = TRUE /\ UNCHANGED receipt
  BY Zenon, <1>1, RaiseKeeps
<1>2. CASE /\ selection' = [selection EXCEPT ![SelectionFiles[next]] = sha]
           /\ IF next = Len(SelectionFiles)
              THEN Finish("ok") /\ cut' = FALSE
              ELSE next' = next + 1 /\ UNCHANGED <<op, outcome, callVars, sha, cut>>
           /\ UNCHANGED <<treeVars, dist, receipt>>
  <2>1. /\ op = "publish" /\ next \in 1..6 /\ DOMAIN selection = Files
        /\ \A i \in 1..6 : i < next => selection[SelectionFiles[i]] = sha
    BY Zenon DEF Publish, IInv, PublishInv, DomainInv
  <2>2. \A i \in 1..6 : i < next + 1 => selection'[SelectionFiles[i]] = sha
    BY <1>2, <2>1, Inventory
  <2>3. DomainInv'
    BY Zenon, <1>2 DEF IInv, DomainInv, Finish, callVars
  <2>4. CASE next = 6
    <3>1. op' = "none"
      BY Zenon, <1>2, <2>4, Inventory DEF Finish
    <3>2. \A f \in Files : selection'[f] = sha
      BY <2>2, <2>4, Inventory
    <3>3. HalvesCut'
      BY Zenon, <3>2, Inventory DEF HalvesCut, Whole, CheckResolution
    <3>4. ReceiptInv' /\ BuildInv' /\ PublishInv'
      BY Zenon, <1>2, <3>1, ReceiptKept, NoLoop DEF IInv, BuildOps
    <3> QED  BY Zenon, <2>3, <3>3, <3>4 DEF IInv
  <2>5. CASE next # 6
    <3>1. op' = "publish" /\ next' = next + 1 /\ sha' = sha
      BY Zenon, <1>2, <2>1, <2>5, Inventory
    <3>2. PublishInv'
      BY <2>1, <2>2, <2>5, <3>1 DEF PublishInv
    <3>3. ReceiptInv' /\ BuildInv' /\ HalvesCut'
      BY Zenon, <1>2, <3>1, ReceiptKept DEF IInv, BuildInv, BuildOps, HalvesCut
    <3> QED  BY Zenon, <2>3, <3>2, <3>3 DEF IInv
  <2> QED  BY Zenon, <2>4, <2>5
<1> QED  BY Zenon, <1>1, <1>2 DEF Publish

\* A file is restored: after the last one the selection is the captured one,
\* which is whole or recorded as cut.
LEMMA RewriteKeeps == ASSUME IInv, Rewrite PROVE IInv'
<1>1. CASE Raise /\ cut' = TRUE /\ UNCHANGED receipt
  BY Zenon, <1>1, RaiseKeeps
<1>2. CASE /\ selection' = [selection EXCEPT ![SelectionFiles[next]] = captured[SelectionFiles[next]]]
           /\ IF next = Len(SelectionFiles)
              THEN Finish(IF Whole(captured) THEN "ok" ELSE "raised") /\ cut' = ~Whole(captured)
              ELSE next' = next + 1 /\ UNCHANGED <<op, outcome, callVars, sha, cut>>
           /\ UNCHANGED <<treeVars, dist, receipt>>
  <2>1. /\ op = "rewrite" /\ next \in 1..6 /\ DOMAIN selection = Files
        /\ \A i \in 1..6 : i < next => selection[SelectionFiles[i]] = captured[SelectionFiles[i]]
    BY Zenon DEF Rewrite, IInv, PublishInv, DomainInv
  <2>2. \A i \in 1..6 : i < next + 1 => selection'[SelectionFiles[i]] = captured[SelectionFiles[i]]
    BY <1>2, <2>1, Inventory
  <2>3. DomainInv'
    BY Zenon, <1>2 DEF IInv, DomainInv, Finish, callVars
  <2>4. CASE next = 6
    <3>1. op' = "none" /\ cut' = ~Whole(captured)
      BY Zenon, <1>2, <2>4, Inventory DEF Finish
    <3>2. \A f \in Files : selection'[f] = captured[f]
      BY <2>2, <2>4, Inventory
    <3>3. HalvesCut'
      BY Zenon, <3>1, <3>2, Inventory DEF HalvesCut, Whole, CheckResolution
    <3>4. ReceiptInv' /\ BuildInv' /\ PublishInv'
      BY Zenon, <1>2, <3>1, ReceiptKept, NoLoop DEF IInv, BuildOps
    <3> QED  BY Zenon, <2>3, <3>3, <3>4 DEF IInv
  <2>5. CASE next # 6
    <3>1. op' = "rewrite" /\ next' = next + 1 /\ captured' = captured
      BY Zenon, <1>2, <2>1, <2>5, Inventory DEF callVars
    <3>2. PublishInv'
      BY <2>1, <2>2, <2>5, <3>1 DEF PublishInv
    <3>3. ReceiptInv' /\ BuildInv' /\ HalvesCut'
      BY Zenon, <1>2, <3>1, ReceiptKept DEF IInv, BuildInv, BuildOps, HalvesCut
    <3> QED  BY Zenon, <2>3, <3>2, <3>3 DEF IInv
  <2> QED  BY Zenon, <2>4, <2>5
<1> QED  BY Zenon, <1>1, <1>2 DEF Rewrite

-----------------------------------------------------------------------------
\* build starts on a whole selection and without a receipt.
LEMMA CheckKeeps == ASSUME IInv, CheckAndCompile PROVE IInv'
<1>1. CASE Raise /\ UNCHANGED cut
  BY Zenon, <1>1, RaiseKeeps DEF CheckAndCompile
<1>2. CASE /\ Whole(selection) /\ op' = "copy" /\ next' = 1
           /\ UNCHANGED <<selection, treeVars, dist, callVars, sha, outcome, cut>>
  <2>1. DomainInv' /\ HalvesCut' /\ PublishInv'
    BY Zenon, <1>2 DEF IInv, DomainInv, HalvesCut, Whole, CheckResolution, PublishInv, callVars
  <2>2. ReceiptInv'
    BY Zenon, ReceiptGone DEF CheckAndCompile
  <2>3. BuildInv'
    BY <1>2 DEF BuildInv, BuildOps, Whole, CheckResolution
  <2> QED  BY Zenon, <2>1, <2>2, <2>3 DEF IInv
<1> QED  BY Zenon, <1>1, <1>2 DEF CheckAndCompile

\* A binary is copied: the checkout it was built from has not moved, so the
\* ones copied before it still match.
LEMMA CopyKeeps == ASSUME IInv, CopyBinary PROVE IInv'
<1>1. CASE Raise /\ UNCHANGED <<receipt, cut>>
  BY Zenon, <1>1, RaiseKeeps DEF CopyBinary
<1>2. CASE /\ dist' = [dist EXCEPT ![Implementations[next]] = Built(Implementations[next])]
           /\ IF next = Len(Implementations)
              THEN op' = "loadgen" /\ UNCHANGED next
              ELSE next' = next + 1 /\ UNCHANGED op
           /\ UNCHANGED <<selection, treeVars, receipt, callVars, sha, outcome, cut>>
  <2>1. /\ op = "copy" /\ next \in 1..3 /\ Whole(selection) /\ ~receipt.present
        /\ DOMAIN dist = Names
        /\ \A i \in 1..3 : i < next => dist[Implementations[i]] = Built(Implementations[i])
    BY Zenon DEF CopyBinary, IInv, BuildInv, ReceiptInv, DomainInv, BuildOps
  <2>2. UNCHANGED <<selection, sources, config, captured, receipt, cut>>
    BY Zenon, <1>2 DEF treeVars, callVars
  <2>3. \A e \in Engines : Built(e)' = Built(e)
    BY Zenon, <2>2 DEF Built
  <2>4. \A i \in 1..3 : i < next + 1 => dist'[Implementations[i]] = Built(Implementations[i])
    BY <1>2, <2>1, Inventory DEF Names
  <2>5. DomainInv' /\ ReceiptInv'
    BY Zenon, <1>2, <2>1, <2>2 DEF IInv, DomainInv, ReceiptInv
  <2>6. CASE next = 3
    <3>1. op' = "loadgen"
      BY Zenon, <1>2, <2>6, Inventory
    <3>2. \A e \in Engines : dist'[e] = Built(e)'
      BY <2>3, <2>4, <2>6, Inventory
    <3>3. BuildInv'
      BY Zenon, <2>1, <2>2, <3>1, <3>2 DEF BuildInv, Whole, CheckResolution
    <3>4. PublishInv' /\ HalvesCut'
      BY Zenon, <2>1, <2>2, <3>1 DEF PublishInv, HalvesCut, Whole, CheckResolution
    <3> QED  BY Zenon, <2>5, <3>3, <3>4 DEF IInv
  <2>7. CASE next # 3
    <3>1. op' = "copy" /\ next' = next + 1 /\ next' \in 1..3
      BY <1>2, <2>1, <2>7, Inventory
    <3>2. \A i \in 1..3 : i < next' => dist'[Implementations[i]] = Built(Implementations[i])'
      BY <2>3, <2>4, <3>1, Inventory DEF Built
    <3>3. BuildInv'
      BY Zenon, <2>1, <2>2, <3>1, <3>2 DEF BuildInv, Whole, CheckResolution
    <3>4. PublishInv' /\ HalvesCut'
      BY Zenon, <2>1, <2>2, <3>1 DEF PublishInv, HalvesCut, Whole, CheckResolution
    <3> QED  BY Zenon, <2>5, <3>3, <3>4 DEF IInv
  <2> QED  BY Zenon, <2>6, <2>7
<1> QED  BY Zenon, <1>1, <1>2 DEF CopyBinary

\* The load generator is the last binary; the engines' stay as copied.
LEMMA BuildLoadKeeps == ASSUME IInv, BuildLoad PROVE IInv'
<1>1. CASE Raise /\ UNCHANGED <<receipt, cut>>
  BY Zenon, <1>1, RaiseKeeps DEF BuildLoad
<1>2. CASE /\ dist' = [dist EXCEPT !["load"] = BuiltLoad] /\ op' = "record"
           /\ UNCHANGED <<selection, treeVars, receipt, next, callVars, sha, outcome, cut>>
  <2>1. /\ op = "loadgen" /\ Whole(selection) /\ ~receipt.present /\ DOMAIN dist = Names
        /\ \A e \in Engines : dist[e] = Built(e)
    BY Zenon DEF BuildLoad, IInv, BuildInv, ReceiptInv, DomainInv, BuildOps
  <2>2. UNCHANGED <<selection, sources, config, captured, receipt, cut>>
    BY Zenon, <1>2 DEF treeVars, callVars
  <2>3. DomainInv' /\ ReceiptInv'
    BY Zenon, <1>2, <2>1, <2>2 DEF IInv, DomainInv, ReceiptInv
  <2>4. \A e \in Engines : dist'[e] = Built(e)'
    BY Zenon, <1>2, <2>1, <2>2, Inventory DEF Built, Names
  <2>5. dist'["load"] = BuiltLoad'
    BY Zenon, <1>2, <2>1, <2>2 DEF BuiltLoad, Names
  <2>6. BuildInv' /\ PublishInv' /\ HalvesCut'
    BY Zenon, <1>2, <2>1, <2>2, <2>4, <2>5 DEF BuildInv, PublishInv, HalvesCut, Whole, CheckResolution
  <2> QED  BY Zenon, <2>3, <2>6 DEF IInv
<1> QED  BY Zenon, <1>1, <1>2 DEF BuildLoad

\* The receipt is written: the binaries are built from the lockfile's commit,
\* which on a whole selection is the one the pins, and so the receipt, name.
LEMMA RecordKeeps == ASSUME IInv, Record PROVE IInv'
<1>1. CASE Raise /\ UNCHANGED <<receipt, cut>>
  BY Zenon, <1>1, RaiseKeeps DEF Record
<1>2. CASE /\ receipt' = [present |-> TRUE, rev |-> selection[Pins], config |-> config,
                          source |-> SourceDigest, binaries |-> dist]
           /\ Finish("ok")
           /\ UNCHANGED <<selection, treeVars, dist, cut>>
  <2>1. /\ op = "record" /\ Whole(selection) /\ dist["load"] = BuiltLoad
        /\ \A e \in Engines : dist[e] = Built(e)
    BY Zenon DEF Record, IInv, BuildInv, BuildOps
  <2>2. selection["Cargo.lock"] = selection[Pins]
    BY Zenon, <2>1, Inventory DEF Whole, CheckResolution
  <2>3. op' = "none"
    BY Zenon, <1>2 DEF Finish
  <2>4. /\ receipt'.binaries = dist /\ receipt'.rev = selection[Pins] /\ receipt'.config = config
        /\ receipt'.source.files = selection /\ receipt'.source.sources = sources
    BY Zenon, <1>2 DEF SourceDigest
  <2>5. \A e \in Engines : dist[e] = As(receipt'.rev, receipt'.source.sources, receipt'.config)
    BY Zenon, <2>1, <2>2, <2>4 DEF Built, As
  <2>6. ReceiptInv'
    BY Zenon, <1>2, <2>1, <2>3, <2>4, <2>5 DEF ReceiptInv, BuildOps, Whole, CheckResolution, BuiltLoad, As
  <2>7. DomainInv' /\ HalvesCut'
    BY Zenon, <1>2, <2>1 DEF IInv, DomainInv, Finish, HalvesCut, Whole, CheckResolution
  <2>8. BuildInv' /\ PublishInv'
    BY Zenon, <2>3, NoLoop DEF BuildOps
  <2> QED  BY Zenon, <2>6, <2>7, <2>8 DEF IInv
<1> QED  BY Zenon, <1>1, <1>2 DEF Record

-----------------------------------------------------------------------------
\* Every step of the working copy keeps the invariant.
LEMMA NextIInv == IInv /\ [CheckoutNext]_checkoutVars => IInv'
<1> SUFFICES ASSUME IInv, [CheckoutNext]_checkoutVars PROVE IInv'
  BY Zenon
<1>1. CASE (\E r \in Refs : Select(r)) \/ (\E c \in Configs : Build(c))
           \/ (\E files \in [Files -> Shas] : Restore(files))
  BY Zenon, <1>1, CallKeeps
<1>2. CASE Stage \/ Invalidate \/ Publish \/ Revoke \/ Rewrite
  BY Zenon, <1>2, StageKeeps, RevokeKeeps, PublishKeeps, RewriteKeeps
<1>3. CASE CheckAndCompile \/ CopyBinary \/ BuildLoad \/ Record
  BY Zenon, <1>3, CheckKeeps, CopyKeeps, BuildLoadKeeps, RecordKeeps
<1>4. CASE KillOp \/ Edit \/ GitCheckout \/ MoveBranch
  BY Zenon, <1>4, KillKeeps, DeveloperKeeps, PushKeeps
<1>5. CASE UNCHANGED checkoutVars
  BY Zenon, <1>5 DEF checkoutVars, IInv, DomainInv, ReceiptInv, BuildInv, PublishInv, HalvesCut,
              Built, BuiltLoad, Whole, CheckResolution, As
<1> QED  BY Zenon, <1>1, <1>2, <1>3, <1>4, <1>5 DEF CheckoutNext, OpStep

\* A receipt whose digest is the checkout's inherits what its own files say.
LEMMA IInvTruthful == IInv => ReceiptTruthful
<1> SUFFICES ASSUME IInv, receipt.present, receipt.source = SourceDigest
             PROVE  /\ CheckResolution(selection, receipt.rev) /\ selection[Pins] = receipt.rev
                    /\ \A e \in Engines : dist[e] = [built |-> TRUE, rev |-> receipt.rev, sources |-> sources,
                                                     config |-> receipt.config]
                    /\ dist["load"] = BuiltLoad
                    /\ receipt.binaries = dist
  BY Zenon DEF ReceiptTruthful
<1>1. receipt.source.files = selection /\ receipt.source.sources = sources
  BY DEF SourceDigest
<1> QED  BY Zenon, <1>1 DEF IInv, ReceiptInv, As, BuiltLoad

\* A build receipt that matches the checkout tells the truth about every binary
\* in dist/ (ReceiptTruthful), whatever selections, builds and restores failed
\* or were killed before it: build removes the receipt before it replaces the
\* first binary and writes it after the last (build.py).
THEOREM ReceiptsTruthful == CheckoutSpec => []ReceiptTruthful
<1>1. CheckoutSpec => []IInv
  BY InitIInv, NextIInv, PTL DEF CheckoutSpec
<1> QED  BY <1>1, IInvTruthful, PTL

\* A checkout that mixes two Rafter commits is always one whose publication
\* was cut short, and is never built from (SelectionWhole): select_rafter
\* publishes a staged copy file by file, restore_rafter_selection checks what it
\* brought back and build checks what it finds.
THEOREM SelectionsWhole == CheckoutSpec => []SelectionWhole
<1>1. CheckoutSpec => []IInv
  BY InitIInv, NextIInv, PTL DEF CheckoutSpec
<1>2. IInv => SelectionWhole
  BY Zenon DEF IInv, HalvesCut, BuildInv, BuildOps, SelectionWhole
<1> QED  BY <1>1, <1>2, PTL

-----------------------------------------------------------------------------
(* Suites.                                                                 *)

SelectOps == {"stage", "invalidate", "publish"}
RestoreOps == {"revoke", "rewrite"}
Preparing == {"prior selected", "prior built", "candidate selected", "candidate built", "smoke"}
Quiet == {"smoke", "delay", "case", "assess"}

\* Which operation can be running while the suite waits at a step.
ControlInv ==
  /\ pc \in Quiet => op = "none"
  /\ pc \in {"prior selected", "candidate selected"} => op \in SelectOps \union {"none"}
  /\ pc \in {"prior built", "candidate built"} => op \in BuildOps \union {"check", "none"}
  /\ pc \in {"restored", "abandoned"} => op \in RestoreOps \union {"none"}
  /\ pc \in Preparing \union Quiet \union {"restored", "abandoned", "idle"}
  /\ pc # "idle" => /\ suite.declared \in DOMAIN Suites /\ ArgumentsAccepted(args)
                    /\ original \in [Files -> Shas]
  /\ DOMAIN suite = DOMAIN EmptyDirectory("none") /\ DOMAIN suite.builds = {"prior", "candidate"}

\* The restore that ends a preparation writes the captured selection.
RestoreInv ==
  pc \in {"restored", "abandoned"} =>
    /\ op \in RestoreOps => captured = original
    /\ op = "rewrite" => ~receipt.present

\* A commit that ref r may stand for in this suite.
AskedFor(commit, r) == IF r \in Shas THEN commit = r ELSE commit \in heads

\* The features build makes of those it is asked for.
Features(c) == IF c.pipelined THEN [c EXCEPT !.group = TRUE, !.ordered = TRUE] ELSE c

\* select_rafter is bringing the checkout to ref r, or has.
Selecting(r) ==
  /\ op \in SelectOps => ref = r
  /\ op \in {"invalidate", "publish"} => AskedFor(sha, r)
  /\ op = "none" /\ outcome = "ok" => AskedFor(selection[Pins], r)

\* build is building ref r with features c, or has.
Building(r, c) ==
  /\ op \in BuildOps \union {"check"} => config = Features(c) /\ AskedFor(selection[Pins], r)
  /\ op = "none" /\ outcome = "ok" =>
       receipt.present /\ receipt.config = Features(c) /\ AskedFor(receipt.rev, r)

\* b is the receipt of such a build.
ArchivedAs(b, r, c) ==
  /\ b.binaries["rafter"].rev = b.rev /\ b.binaries["rafter"].config = b.config
  /\ b.config = Features(c) /\ AskedFor(b.rev, r)

ArmInv ==
  /\ pc # "idle" => branch \in heads
  /\ pc = "prior selected" => Selecting(args.prior)
  /\ pc = "prior built" => Building(args.prior, PriorConfig(args))
  /\ pc = "candidate selected" => Selecting(args.candidate)
  /\ pc = "candidate built" => Building(args.candidate, CandidateConfig(args))

\* The archives hold the builds their arms asked for.
ArchiveInv ==
  /\ suite.builds["prior"] # <<>> => ArchivedAs(suite.builds["prior"], args.prior, PriorConfig(args))
  /\ suite.builds["candidate"] # <<>> =>
       ArchivedAs(suite.builds["candidate"], args.candidate, CandidateConfig(args))

\* The loopback carries the delay of the running part of the plan, or one that
\* was left there before.
DelayInv ==
  /\ pc # "idle" /\ stuck => unclean
  /\ pc # "case" /\ qdisc # 0 => stuck
  /\ pc = "case" =>
       IF args.delays[delay] = 0 THEN qdisc # 0 => stuck ELSE qdisc = args.delays[delay]

\* selection files name commits.
CommitInv ==
  /\ selection \in [Files -> Shas] /\ captured \in [Files -> Shas]
  /\ branch \in Shas /\ sha \in Shas /\ ref \in Refs

SuiteInv ==
  /\ ControlInv /\ RestoreInv /\ ArmInv /\ ArchiveInv /\ DelayInv
  /\ PreparationRestores /\ DelayAsPlanned

-----------------------------------------------------------------------------
\* Every selection file names a commit, whatever is selected, restored or cut.
LEMMA CommitKeeps == ASSUME CommitInv, [CheckoutNext]_checkoutVars PROVE CommitInv'
<1>1. ASSUME NEW how, Finish(how) PROVE captured' \in [Files -> Shas] /\ sha' \in Shas /\ ref' \in Refs
  BY Zenon, <1>1, RefAssumption DEF Finish, Refs
<1>2. Resolved \in Shas
  BY Zenon DEF Resolved, CommitInv, Refs
<1>3. CASE Raise
  BY Zenon, <1>1, <1>3 DEF Raise, treeVars, CommitInv
<1>4. CASE (\E r \in Refs : Select(r)) \/ (\E c \in Configs : Build(c))
           \/ (\E files \in [Files -> Shas] : Restore(files))
  BY Zenon, <1>4 DEF Select, Build, Restore, treeVars, CommitInv
<1>5. CASE /\ Stage \/ Invalidate \/ CheckAndCompile \/ CopyBinary \/ BuildLoad \/ Record \/ Revoke
           /\ ~Raise
  BY Zenon, <1>1, <1>2, <1>5 DEF Stage, StageSucceeds, Invalidate, CheckAndCompile, CopyBinary, BuildLoad,
     Record, Revoke, treeVars, callVars, CommitInv
<1>6. CASE Publish /\ ~Raise
  <2>1. selection' \in [Files -> Shas]
    BY Zenon, <1>6 DEF Publish, CommitInv
  <2> QED  BY Zenon, <1>1, <1>6, <2>1 DEF Publish, treeVars, callVars, CommitInv
<1>7. CASE Rewrite /\ ~Raise
  <2>1. selection' \in [Files -> Shas]
    BY Zenon, <1>7 DEF Rewrite, CommitInv
  <2> QED  BY Zenon, <1>1, <1>7, <2>1 DEF Rewrite, treeVars, callVars, CommitInv
<1>8. CASE KillOp \/ Edit \/ GitCheckout \/ MoveBranch
  BY Zenon, <1>1, <1>8, RefAssumption DEF KillOp, Edit, GitCheckout, MoveBranch, treeVars, callVars, CommitInv
<1>9. CASE UNCHANGED checkoutVars
  BY Zenon, <1>9 DEF checkoutVars, CommitInv
<1> QED  BY Zenon, <1>3, <1>4, <1>5, <1>6, <1>7, <1>8, <1>9 DEF CheckoutNext, OpStep

\* The features a side asks for are those a build takes.
LEMMA SideConfigs ==
  ASSUME ControlInv, pc # "idle"
  PROVE  /\ {args.prior, args.candidate} \subseteq Refs
         /\ {PriorConfig(args), CandidateConfig(args)} \subseteq Configs
<1>1. suite.declared \in DOMAIN Suites /\ ArgumentsAccepted(args)
  BY Zenon DEF ControlInv
<1>2. /\ args.prior \in Refs /\ args.candidate \in Refs
      /\ args.prior_hard_state \in HardStates /\ args.candidate_hard_state \in HardStates
  BY Zenon, <1>1, SuiteAssumption DEF args, Args
<1>3. (args.prior_peer_batch_size > 1) \in BOOLEAN
  OBVIOUS
<1>4. PriorConfig(args) \in Configs /\ CandidateConfig(args) \in Configs
  BY Zenon, <1>2, <1>3 DEF PriorConfig, CandidateConfig, BuildConfig, Configs
<1> QED  BY Zenon, <1>2, <1>4

\* What a suite and its operator do to the working copy is what the commands of
\* the working copy do.
LEMMA SuiteStep == ASSUME ControlInv, CommitInv, [Next]_vars PROVE [CheckoutNext]_checkoutVars
<1>1. CASE Operator \/ Developer \/ Push \/ Operate \/ Kill
  BY Zenon, <1>1, SuiteAssumption DEF Operator, Developer, Push, Operate, Kill, CheckoutNext
<1>2. CASE \E name \in DOMAIN Suites : StartSuite(name)
  BY Zenon, <1>2, SuiteAssumption DEF StartSuite, CheckoutNext
<1>3. CASE BuildPrior \/ BuildCandidate \/ ArchivePrior
  <2>1. pc # "idle"
    BY Zenon, <1>3 DEF BuildPrior, BuildCandidate, ArchivePrior, Ready
  <2> QED  BY Zenon, <1>3, <2>1, SideConfigs DEF BuildPrior, BuildCandidate, ArchivePrior, CheckoutNext
<1>4. CASE FinishPreparation \/ FailPreparation
  <2>1. pc # "idle"
    BY Zenon, <1>4 DEF FinishPreparation, FailPreparation, PreparationRaises, Ready
  <2> QED  BY Zenon, <1>4, <2>1 DEF FinishPreparation, FailPreparation, ControlInv, CheckoutNext
<1>5. CASE ArchiveCandidate \/ Smoke \/ Abandon \/ Declare \/ EnterDelay \/ RunCase \/ NextDelay
           \/ Interrupt \/ Complete \/ RecordAssessment \/ Damage
  <2>1. UNCHANGED checkoutVars
    BY Zenon, <1>5 DEF ArchiveCandidate, Smoke, Abandon, Declare, EnterDelay, RunCase, NextDelay,
       Interrupt, Complete, RecordAssessment, Damage
  <2> QED  BY Zenon, <2>1
<1>6. CASE UNCHANGED vars
  BY Zenon, <1>6 DEF vars
<1> QED  BY Zenon, <1>1, <1>2, <1>3, <1>4, <1>5, <1>6 DEF Next

-----------------------------------------------------------------------------
\* t is directory s with other files than its declaration and its builds.
SameBuilds(s, t) == t.declared = s.declared /\ t.builds = s.builds /\ DOMAIN t = DOMAIN s

\* The files a suite writes after its preparation are none of its builds.
LEMMA Updates ==
  ASSUME NEW s, DOMAIN s = DOMAIN EmptyDirectory("none"), NEW x, NEW y
  PROVE  /\ SameBuilds(s, [s EXCEPT !.smokes = x]) /\ SameBuilds(s, [s EXCEPT !.machine = x])
         /\ SameBuilds(s, [s EXCEPT !.coverage = x]) /\ SameBuilds(s, [s EXCEPT !.assessment = x])
         /\ SameBuilds(s, [s EXCEPT !.cases = x]) /\ SameBuilds(s, [s EXCEPT !.failures = x, !.cases = y])
         /\ SameBuilds(s, [s EXCEPT !.cases[y] = x]) /\ SameBuilds(s, [s EXCEPT !.cases[y].intact = x])
<1>1. {"declared", "builds"} \subseteq DOMAIN s
  BY Zenon DEF EmptyDirectory
<1>2. SameBuilds(s, [s EXCEPT !.smokes = x]) /\ SameBuilds(s, [s EXCEPT !.machine = x])
  BY Zenon, <1>1 DEF SameBuilds
<1>3. SameBuilds(s, [s EXCEPT !.coverage = x]) /\ SameBuilds(s, [s EXCEPT !.assessment = x])
  BY Zenon, <1>1 DEF SameBuilds
<1>4. SameBuilds(s, [s EXCEPT !.cases = x]) /\ SameBuilds(s, [s EXCEPT !.failures = x, !.cases = y])
  BY Zenon, <1>1 DEF SameBuilds
<1>5. SameBuilds(s, [s EXCEPT !.cases[y] = x]) /\ SameBuilds(s, [s EXCEPT !.cases[y].intact = x])
  BY Zenon, <1>1 DEF SameBuilds
<1> QED  BY Zenon, <1>2, <1>3, <1>4, <1>5

\* No case has run in a fresh directory.
LEMMA NoCases == DOMAIN <<>> = {}
OBVIOUS

\* A suite that is over, or never began, promises nothing but the loopback.
LEMMA NothingRunning ==
  ASSUME pc' = "idle", NoSuite
  PROVE  /\ ControlInv' /\ RestoreInv' /\ ArmInv' /\ ArchiveInv' /\ PreparationRestores'
         /\ (qdisc' # 0 => stuck') => DelayInv' /\ DelayAsPlanned'
<1>1. suite' = EmptyDirectory("none") /\ under' = <<>>
  BY Zenon DEF NoSuite, FreshDirectory
<1>2. suite'.builds = [set \in {"prior", "candidate"} |-> <<>>] /\ DOMAIN suite' = DOMAIN EmptyDirectory("none")
  BY Zenon, <1>1 DEF EmptyDirectory
<1>3. /\ DOMAIN suite'.builds = {"prior", "candidate"}
      /\ suite'.builds["prior"] = <<>> /\ suite'.builds["candidate"] = <<>>
  BY Zenon, <1>2
<1>4. ControlInv'
  BY Zenon, <1>2, <1>3 DEF ControlInv, Quiet, Preparing
<1>5. RestoreInv' /\ PreparationRestores'
  BY Zenon DEF RestoreInv, PreparationRestores
<1>6. ArmInv' /\ ArchiveInv'
  BY Zenon, <1>3 DEF ArmInv, ArchiveInv
<1>7. ASSUME qdisc' # 0 => stuck' PROVE DelayInv' /\ DelayAsPlanned'
  <2>1. DOMAIN under' = {}
    BY Zenon, <1>1, NoCases
  <2> QED  BY Zenon, <1>7, <2>1 DEF DelayInv, DelayAsPlanned
<1> QED  BY Zenon, <1>4, <1>5, <1>6, <1>7

\* An archived build stays what it was when more heads of the branch are known.
LEMMA ArchiveKept ==
  ASSUME ArchiveInv, SameBuilds(suite, suite'), heads \subseteq heads'
  PROVE  ArchiveInv'
<1>1. args' = args /\ suite'.builds = suite.builds
  BY Zenon DEF SameBuilds, args, Args
<1>2. \A commit, r : AskedFor(commit, r) => AskedFor(commit, r)'
  BY Zenon DEF AskedFor
<1> QED  BY Zenon, <1>1, <1>2 DEF ArchiveInv, ArchivedAs

\* Once the preparation is over and its builds archived, the working copy and
\* the builds stay as they are.
LEMMA PreparationKept ==
  ASSUME ControlInv, ArmInv, ArchiveInv, PreparationRestores, op = "none",
         UNCHANGED <<checkoutVars, original, heads>>, SameBuilds(suite, suite'),
         pc' \in {"idle", "delay", "case", "assess", "smoke"},
         pc' # "idle" => pc # "idle",
         pc' \in {"delay", "case", "assess"} => pc \in {"restored", "delay", "case", "assess"}
  PROVE  ControlInv' /\ RestoreInv' /\ ArmInv' /\ ArchiveInv' /\ PreparationRestores'
<1>1. args' = args /\ suite'.declared = suite.declared /\ suite'.builds = suite.builds /\ DOMAIN suite' = DOMAIN suite
  BY Zenon DEF SameBuilds, args, Args
<1>2. UNCHANGED <<op, cut, selection, receipt, branch>>
  BY Zenon DEF checkoutVars
<1>3. ControlInv'
  BY Zenon, <1>1, <1>2 DEF ControlInv, Quiet, Preparing
<1>4. RestoreInv'
  BY Zenon DEF RestoreInv
<1>5. PreparationRestores'
  BY Zenon, <1>2 DEF PreparationRestores
<1>6. ArmInv'
  BY Zenon, <1>1, <1>2 DEF ArmInv
<1>7. ArchiveInv'
  BY Zenon, ArchiveKept
<1> QED  BY Zenon, <1>3, <1>4, <1>5, <1>6, <1>7

\* A step outside the cases that leaves the loopback alone.
LEMMA LoopbackKept ==
  ASSUME DelayInv, DelayAsPlanned, UNCHANGED <<qdisc, stuck, unclean, under>>, suite'.declared = suite.declared,
         pc # "case", pc' # "case", pc' # "idle" => pc # "idle"
  PROVE  DelayInv' /\ DelayAsPlanned'
<1>1. \A i : Declared(i)' = Declared(i)
  BY Zenon DEF Declared, CurrentPlan, Plan
<1>2. DelayInv'
  BY Zenon DEF DelayInv
<1>3. DelayAsPlanned'
  BY Zenon, <1>1 DEF DelayInv, DelayAsPlanned
<1> QED  BY Zenon, <1>2, <1>3

-----------------------------------------------------------------------------
\* A selection resolves what its ref stands for now, and ends with pins that
\* name it.
LEMMA SelectingKeeps ==
  ASSUME NEW r, IInv, Selecting(r), branch \in heads, op \in SelectOps, OpStep, UNCHANGED heads
  PROVE  op' \in SelectOps \union {"none"} /\ Selecting(r)'
<1>1. ref = r
  BY Zenon DEF Selecting
<1>2. CASE Raise
  <2>1. op' = "none" /\ outcome' = "raised"
    BY Zenon, <1>2 DEF Raise, Finish
  <2> QED  BY Zenon, <2>1 DEF Selecting, SelectOps
<1>3. CASE ~Raise /\ op = "stage"
  <2>1. op' = "invalidate" /\ sha' = Resolved /\ ref' = ref
    BY Zenon, <1>3 DEF OpStep, Stage, StageSucceeds, Invalidate, Publish, CheckAndCompile, CopyBinary, BuildLoad, Record,
       Revoke, Rewrite, callVars
  <2>2. AskedFor(sha, r)'
    BY Zenon, <1>1, <2>1 DEF AskedFor, Resolved
  <2> QED  BY Zenon, <1>1, <2>1, <2>2 DEF Selecting, SelectOps
<1>4. CASE ~Raise /\ op = "invalidate"
  <2>1. op' = "publish" /\ UNCHANGED <<sha, ref>>
    BY Zenon, <1>4 DEF OpStep, Stage, Invalidate, Publish, CheckAndCompile, CopyBinary, BuildLoad, Record,
       Revoke, Rewrite, callVars
  <2>2. AskedFor(sha, r)'
    BY Zenon, <1>4, <2>1 DEF AskedFor, Selecting
  <2> QED  BY Zenon, <1>1, <2>1, <2>2 DEF Selecting, SelectOps
<1>5. CASE ~Raise /\ op = "publish"
  <2>1. Publish
    BY Zenon, <1>5 DEF OpStep, Stage, Invalidate, CheckAndCompile, CopyBinary, BuildLoad, Record, Revoke, Rewrite
  <2>2. AskedFor(sha, r) /\ DOMAIN selection = Files /\ next \in 1..6
    BY Zenon, <1>5 DEF Selecting, IInv, DomainInv, PublishInv
  <2>3. CASE next = 6
    <3>1. SelectionFiles[6] = Pins /\ Pins \in Files
      BY Zenon DEF SelectionFiles, Pins, Files
    <3>2. op' = "none" /\ selection' = [selection EXCEPT ![SelectionFiles[6]] = sha]
      BY Zenon, <1>5, <2>1, <2>3, Inventory DEF Publish, Finish
    <3>3. selection'[Pins] = sha
      BY Zenon, <2>2, <3>1, <3>2
    <3>4. AskedFor(selection[Pins], r)'
      BY Zenon, <2>2, <3>3 DEF AskedFor
    <3> QED  BY Zenon, <3>2, <3>4 DEF Selecting, SelectOps
  <2>4. CASE next # 6
    <3>1. op' = "publish" /\ UNCHANGED <<sha, ref>>
      BY Zenon, <1>5, <2>1, <2>4, Inventory DEF Publish, callVars
    <3>2. AskedFor(sha, r)'
      BY Zenon, <2>2, <3>1 DEF AskedFor
    <3> QED  BY Zenon, <1>1, <3>1, <3>2 DEF Selecting, SelectOps
  <2> QED  BY Zenon, <2>3, <2>4
<1> QED  BY Zenon, <1>2, <1>3, <1>4, <1>5 DEF SelectOps

\* A build works on the selection it found, and its receipt says so.
LEMMA BuildingKeeps ==
  ASSUME NEW r, NEW c, Building(r, c), op \in BuildOps \union {"check"}, OpStep, UNCHANGED heads
  PROVE  op' \in BuildOps \union {"check", "none"} /\ Building(r, c)'
<1>1. config = Features(c) /\ AskedFor(selection[Pins], r)
  BY Zenon DEF Building
<1>2. CASE Raise
  <2>1. op' = "none" /\ outcome' = "raised"
    BY Zenon, <1>2 DEF Raise, Finish
  <2> QED  BY Zenon, <2>1 DEF Building, BuildOps
<1>3. CASE ~Raise /\ op # "record"
  <2>1. CheckAndCompile \/ CopyBinary \/ BuildLoad
    BY Zenon, <1>3 DEF BuildOps, OpStep, Stage, Invalidate, Publish, Record, Revoke, Rewrite
  <2>2. op' \in BuildOps /\ UNCHANGED <<selection, config>>
    BY Zenon, <1>3, <2>1 DEF BuildOps, CheckAndCompile, CopyBinary, BuildLoad, callVars
  <2>3. AskedFor(selection[Pins], r)'
    BY Zenon, <1>1, <2>2 DEF AskedFor
  <2>4. op' # "none"
    BY Zenon, <2>2 DEF BuildOps
  <2> QED  BY Zenon, <1>1, <2>2, <2>3, <2>4 DEF Building
<1>4. CASE ~Raise /\ op = "record"
  <2>1. Record
    BY Zenon, <1>4 DEF OpStep, Stage, Invalidate, Publish, CheckAndCompile, CopyBinary, BuildLoad, Revoke, Rewrite
  <2>2. op' = "none" /\ receipt'.present /\ receipt'.config = config /\ receipt'.rev = selection[Pins]
    BY <1>4, <2>1 DEF Record, Finish
  <2>3. AskedFor(receipt.rev, r)'
    BY Zenon, <1>1, <2>2 DEF AskedFor
  <2> QED  BY Zenon, <1>1, <2>2, <2>3 DEF Building, BuildOps
<1> QED  BY Zenon, <1>2, <1>3, <1>4

\* A restore that is not cut short ends with the captured selection and without
\* a receipt.
LEMMA RestoringKeeps ==
  ASSUME IInv, CommitInv, op \in RestoreOps, op = "rewrite" => ~receipt.present, OpStep
  PROVE  /\ op' \in RestoreOps \union {"none"}
         /\ op' \in RestoreOps => captured' = captured
         /\ op' = "rewrite" => ~receipt'.present
         /\ op' = "none" /\ ~cut' => selection' = captured /\ ~receipt'.present
<1>1. CASE Raise
  <2>1. op' = "none" /\ cut'
    BY Zenon, <1>1 DEF Raise, Finish, OpStep, Stage, Invalidate, Publish, CheckAndCompile, CopyBinary, BuildLoad, Record,
       Revoke, Rewrite, RestoreOps
  <2> QED  BY Zenon, <2>1 DEF RestoreOps
<1>2. CASE ~Raise /\ op = "revoke"
  <2>1. op' = "rewrite" /\ receipt' = NoReceipt /\ captured' = captured
    BY Zenon, <1>2 DEF OpStep, Stage, Invalidate, Publish, CheckAndCompile, CopyBinary, BuildLoad, Record, Revoke, Rewrite,
       callVars
  <2> QED  BY Zenon, <2>1 DEF RestoreOps, NoReceipt
<1>3. CASE ~Raise /\ op = "rewrite"
  <2>1. Rewrite
    BY Zenon, <1>3 DEF OpStep, Stage, Invalidate, Publish, CheckAndCompile, CopyBinary, BuildLoad, Record, Revoke
  <2>2. /\ next \in 1..6 /\ receipt' = receipt
        /\ \A i \in 1..6 : i < next => selection[SelectionFiles[i]] = captured[SelectionFiles[i]]
        /\ selection' = [selection EXCEPT ![SelectionFiles[next]] = captured[SelectionFiles[next]]]
        /\ selection \in [Files -> Shas] /\ captured \in [Files -> Shas]
    BY Zenon, <1>3, <2>1 DEF Rewrite, IInv, PublishInv, CommitInv
  <2>3. CASE next = 6
    <3>1. \A i \in 1..6 : selection'[SelectionFiles[i]] = captured[SelectionFiles[i]]
      BY <2>2, <2>3, Inventory
    <3>2. selection' \in [Files -> Shas]
      BY Zenon, <2>2
    <3>3. selection' = captured
      BY <2>2, <3>1, <3>2, Inventory
    <3>4. op' = "none"
      BY Zenon, <1>3, <2>1, <2>3, Inventory DEF Rewrite, Finish
    <3> QED  BY Zenon, <1>3, <2>2, <3>3, <3>4 DEF RestoreOps
  <2>4. CASE next # 6
    <3>1. op' = "rewrite" /\ captured' = captured
      BY Zenon, <1>3, <2>1, <2>4, Inventory DEF Rewrite, callVars
    <3> QED  BY Zenon, <1>3, <2>2, <3>1 DEF RestoreOps
  <2> QED  BY Zenon, <2>3, <2>4
<1> QED  BY Zenon, <1>1, <1>2, <1>3 DEF RestoreOps

-----------------------------------------------------------------------------
\* The running operation takes a step and the suite waits for it.
LEMMA OperateKeeps == ASSUME IInv, CommitInv, SuiteInv, Operate PROVE SuiteInv'
<1>1. /\ UNCHANGED <<pc, suite, heads, original, under, qdisc, stuck, unclean>> /\ OpStep
      /\ args' = args /\ SameBuilds(suite, suite')
  BY Zenon DEF Operate, suiteVars, callerVars, outputVars, netVars, args, SameBuilds
<1>2. op # "none" /\ branch' = branch
  BY Zenon, <1>1 DEF OpStep, Stage, StageSucceeds, Invalidate, Publish, CheckAndCompile, CopyBinary, BuildLoad,
     Record, Revoke, Rewrite, Raise, treeVars
<1>3. pc \notin Quiet
  BY Zenon, <1>2 DEF SuiteInv, ControlInv
<1>4. DelayInv' /\ DelayAsPlanned'
  <2>1. pc # "case" /\ pc' # "case"
    BY Zenon, <1>1, <1>3 DEF Quiet
  <2> QED  BY Zenon, <1>1, <2>1, LoopbackKept DEF SuiteInv
<1>5. ArchiveInv'
  BY Zenon, <1>1, ArchiveKept DEF SuiteInv
<1>6. CASE pc = "idle"
  <2>1. ControlInv'
    BY Zenon, <1>1, <1>6 DEF SuiteInv, ControlInv, Quiet, Preparing
  <2>2. RestoreInv' /\ PreparationRestores' /\ ArmInv'
    BY Zenon, <1>1, <1>6 DEF RestoreInv, PreparationRestores, ArmInv
  <2> QED  BY Zenon, <1>4, <1>5, <2>1, <2>2 DEF SuiteInv
<1>7. CASE pc \in {"prior selected", "candidate selected"}
  <2>1. PICK r : r = IF pc = "prior selected" THEN args.prior ELSE args.candidate
    BY Zenon
  <2>2. op \in SelectOps /\ Selecting(r) /\ branch \in heads
    BY Zenon, <1>2, <1>7, <2>1 DEF SuiteInv, ControlInv, ArmInv
  <2>3. op' \in SelectOps \union {"none"} /\ Selecting(r)'
    BY Zenon, <1>1, <2>2, SelectingKeeps
  <2>4. ControlInv'
    BY Zenon, <1>1, <1>7, <2>3 DEF SuiteInv, ControlInv, Quiet, Preparing
  <2>5. RestoreInv' /\ PreparationRestores'
    BY Zenon, <1>1, <1>7 DEF RestoreInv, PreparationRestores
  <2>6. pc = "prior selected" => Selecting(args.prior)'
    BY Zenon, <1>1, <2>1, <2>3 DEF Selecting, AskedFor
  <2>7. pc = "candidate selected" => Selecting(args.candidate)'
    BY Zenon, <1>1, <2>1, <2>3 DEF Selecting, AskedFor
  <2>8. ArmInv'
    BY Zenon, <1>1, <1>2, <1>7, <2>2, <2>6, <2>7 DEF ArmInv
  <2> QED  BY Zenon, <1>4, <1>5, <2>4, <2>5, <2>8 DEF SuiteInv
<1>8. CASE pc \in {"prior built", "candidate built"}
  <2>1. PICK r : r = IF pc = "prior built" THEN args.prior ELSE args.candidate
    BY Zenon
  <2>2. PICK c : c = IF pc = "prior built" THEN PriorConfig(args) ELSE CandidateConfig(args)
    BY Zenon
  <2>3. op \in BuildOps \union {"check"} /\ Building(r, c) /\ branch \in heads
    BY Zenon, <1>2, <1>8, <2>1, <2>2 DEF SuiteInv, ControlInv, ArmInv
  <2>4. op' \in BuildOps \union {"check", "none"} /\ Building(r, c)'
    BY Zenon, <1>1, <2>3, BuildingKeeps
  <2>5. ControlInv'
    BY Zenon, <1>1, <1>8, <2>4 DEF SuiteInv, ControlInv, Quiet, Preparing
  <2>6. RestoreInv' /\ PreparationRestores'
    BY Zenon, <1>1, <1>8 DEF RestoreInv, PreparationRestores
  <2>7. pc = "prior built" => Building(args.prior, PriorConfig(args))'
    BY Zenon, <1>1, <2>1, <2>2, <2>4 DEF Building, AskedFor, Features
  <2>8. pc = "candidate built" => Building(args.candidate, CandidateConfig(args))'
    BY Zenon, <1>1, <2>1, <2>2, <2>4 DEF Building, AskedFor, Features
  <2>9. ArmInv'
    BY Zenon, <1>1, <1>2, <1>8, <2>3, <2>7, <2>8 DEF ArmInv
  <2> QED  BY Zenon, <1>4, <1>5, <2>5, <2>6, <2>9 DEF SuiteInv
<1>9. CASE pc \in {"restored", "abandoned"}
  <2>1. op \in RestoreOps /\ captured = original /\ (op = "rewrite" => ~receipt.present) /\ branch \in heads
    BY Zenon, <1>2, <1>9 DEF SuiteInv, ControlInv, RestoreInv, ArmInv
  <2>2. /\ op' \in RestoreOps \union {"none"}
        /\ op' \in RestoreOps => captured' = captured
        /\ op' = "rewrite" => ~receipt'.present
        /\ op' = "none" /\ ~cut' => selection' = captured /\ ~receipt'.present
    BY Zenon, <1>1, <2>1, RestoringKeeps
  <2>3. ControlInv'
    BY Zenon, <1>1, <1>9, <2>2 DEF SuiteInv, ControlInv, Quiet, Preparing
  <2>4. RestoreInv' /\ PreparationRestores'
    BY Zenon, <1>1, <2>1, <2>2 DEF RestoreInv, PreparationRestores
  <2>5. ArmInv'
    BY Zenon, <1>1, <1>2, <1>9, <2>1 DEF ArmInv
  <2> QED  BY Zenon, <1>4, <1>5, <2>3, <2>4, <2>5 DEF SuiteInv
<1>10. pc \in {"idle", "prior selected", "candidate selected", "prior built", "candidate built", "restored", "abandoned"}
  BY Zenon, <1>3 DEF SuiteInv, ControlInv, Quiet, Preparing
<1> QED  BY Zenon, <1>6, <1>7, <1>8, <1>9, <1>10

\* A push adds a commit the branch stands for.
LEMMA HeadsKeep == ASSUME SuiteInv, Push PROVE SuiteInv'
<1>1. /\ op = "stage" /\ UNCHANGED <<pc, suite, original, under, qdisc, stuck, unclean>>
      /\ args' = args /\ SameBuilds(suite, suite')
      /\ UNCHANGED <<op, next, ref, sha, selection, receipt, config, captured, outcome, cut>>
      /\ heads \subseteq heads' /\ (pc # "idle" => branch' \in heads')
  BY Zenon DEF Push, MoveBranch, callVars, outputVars, netVars, args, SameBuilds
<1>2. pc \in {"idle", "prior selected", "candidate selected"}
  BY Zenon, <1>1 DEF SuiteInv, ControlInv, Quiet, Preparing, BuildOps, RestoreOps
<1>3. DelayInv' /\ DelayAsPlanned'
  BY Zenon, <1>1, <1>2, LoopbackKept DEF SuiteInv
<1>4. ArchiveInv'
  BY Zenon, <1>1, ArchiveKept DEF SuiteInv
<1>5. ControlInv'
  BY Zenon, <1>1 DEF SuiteInv, ControlInv
<1>6. RestoreInv' /\ PreparationRestores'
  BY Zenon, <1>1, <1>2 DEF RestoreInv, PreparationRestores
<1>7. ASSUME NEW r, Selecting(r) PROVE Selecting(r)'
  BY Zenon, <1>1, <1>7 DEF Selecting, AskedFor
<1>8. PICK p : p = args.prior
  BY Zenon
<1>9. PICK q : q = args.candidate
  BY Zenon
<1>10. pc = "prior selected" => Selecting(args.prior)'
  BY Zenon, <1>1, <1>7, <1>8 DEF SuiteInv, ArmInv, Selecting, AskedFor
<1>11. pc = "candidate selected" => Selecting(args.candidate)'
  BY Zenon, <1>1, <1>7, <1>9 DEF SuiteInv, ArmInv, Selecting, AskedFor
<1>12. ArmInv'
  BY Zenon, <1>1, <1>2, <1>10, <1>11 DEF ArmInv
<1> QED  BY Zenon, <1>3, <1>4, <1>5, <1>6, <1>12 DEF SuiteInv

\* A suite starts: its directory is empty and it selects its prior revision.
LEMMA StartKeeps ==
  ASSUME CommitInv, SuiteInv, NEW name \in DOMAIN Suites, StartSuite(name)
  PROVE  SuiteInv'
<1>1. /\ pc = "idle" /\ pc' = "prior selected" /\ op' = "stage" /\ ref' = Suites[name].prior
      /\ ArgumentsAccepted(Suites[name]) /\ original' = selection /\ heads' = {branch} /\ branch' = branch
      /\ suite' = EmptyDirectory(name) /\ under' = <<>> /\ unclean' = stuck /\ UNCHANGED <<qdisc, stuck>>
  BY Zenon DEF StartSuite, Select, FreshDirectory, Ready, treeVars
<1>2. /\ suite'.declared = name /\ suite'.builds = [set \in {"prior", "candidate"} |-> <<>>]
      /\ DOMAIN suite' = DOMAIN EmptyDirectory("none")
  BY Zenon, <1>1 DEF EmptyDirectory
<1>3. /\ DOMAIN suite'.builds = {"prior", "candidate"}
      /\ suite'.builds["prior"] = <<>> /\ suite'.builds["candidate"] = <<>>
  BY Zenon, <1>2
<1>4. args' = Suites[name]
  BY Zenon, <1>2 DEF args, Args
<1>5. ControlInv'
  BY Zenon, <1>1, <1>2, <1>3, <1>4 DEF ControlInv, CommitInv, Quiet, Preparing, SelectOps
<1>6. RestoreInv' /\ PreparationRestores'
  BY Zenon, <1>1 DEF RestoreInv, PreparationRestores
<1>7. ArmInv' /\ ArchiveInv'
  <2>1. Selecting(args.prior)'
    BY Zenon, <1>1, <1>4 DEF Selecting
  <2>2. ArmInv'
    BY Zenon, <1>1, <2>1 DEF ArmInv
  <2> QED  BY Zenon, <1>3, <2>2 DEF ArchiveInv
<1>8. DelayInv' /\ DelayAsPlanned'
  <2>1. DOMAIN under' = {}
    BY Zenon, <1>1, NoCases
  <2> QED  BY Zenon, <1>1, <2>1 DEF SuiteInv, DelayInv, DelayAsPlanned
<1> QED  BY Zenon, <1>5, <1>6, <1>7, <1>8 DEF SuiteInv

\* A build is called on a checkout that was selected for it.
LEMMA BuildCalled == ASSUME SuiteInv, BuildPrior \/ BuildCandidate PROVE SuiteInv'
<1>1. /\ op' = "check" /\ UNCHANGED <<suite, heads, original, under, qdisc, stuck, unclean>>
      /\ args' = args /\ SameBuilds(suite, suite') /\ UNCHANGED <<branch, selection>>
      /\ op = "none" /\ outcome = "ok" /\ pc # "idle"
  BY Zenon DEF BuildPrior, BuildCandidate, Build, Ready, suiteVars, callerVars, outputVars, netVars, treeVars, args, SameBuilds
<1>2. \/ /\ pc = "prior selected" /\ pc' = "prior built" /\ config' = Features(PriorConfig(args))
         /\ AskedFor(selection[Pins], args.prior)
      \/ /\ pc = "candidate selected" /\ pc' = "candidate built" /\ config' = Features(CandidateConfig(args))
         /\ AskedFor(selection[Pins], args.candidate)
  BY Zenon, <1>1 DEF BuildPrior, BuildCandidate, Build, Ready, Features, SuiteInv, ArmInv, Selecting
<1>3. DelayInv' /\ DelayAsPlanned'
  BY Zenon, <1>1, <1>2, LoopbackKept DEF SuiteInv
<1>4. ArchiveInv'
  BY Zenon, <1>1, ArchiveKept DEF SuiteInv
<1>5. ControlInv'
  BY Zenon, <1>1, <1>2 DEF SuiteInv, ControlInv, Quiet, Preparing
<1>6. RestoreInv' /\ PreparationRestores'
  BY Zenon, <1>2 DEF RestoreInv, PreparationRestores
<1>7. pc' = "prior built" => Building(args.prior, PriorConfig(args))'
  BY Zenon, <1>1, <1>2 DEF Building, AskedFor, Features
<1>8. pc' = "candidate built" => Building(args.candidate, CandidateConfig(args))'
  BY Zenon, <1>1, <1>2 DEF Building, AskedFor, Features
<1>9. ArmInv'
  BY Zenon, <1>1, <1>2, <1>7, <1>8 DEF SuiteInv, ArmInv
<1> QED  BY Zenon, <1>3, <1>4, <1>5, <1>6, <1>9 DEF SuiteInv

\* The preparation ends, well or badly, with a restore of what it captured.
LEMMA RestoreCalled == ASSUME SuiteInv, FinishPreparation \/ FailPreparation PROVE SuiteInv'
<1>1. /\ op' = "revoke" /\ captured' = original
      /\ UNCHANGED <<suite, heads, original, under, qdisc, stuck, unclean, branch>>
      /\ args' = args /\ SameBuilds(suite, suite') /\ pc' \in {"restored", "abandoned"} /\ pc \in Preparing
  BY Zenon DEF FinishPreparation, FailPreparation, PreparationRaises, Preparing, Restore, Ready, suiteVars,
     callerVars, outputVars, netVars, treeVars, args, SameBuilds
<1>2. pc # "idle" /\ pc # "case"
  BY Zenon, <1>1 DEF Preparing
<1>3. DelayInv' /\ DelayAsPlanned'
  BY Zenon, <1>1, <1>2, LoopbackKept DEF SuiteInv
<1>4. ArchiveInv'
  BY Zenon, <1>1, ArchiveKept DEF SuiteInv
<1>5. ControlInv'
  BY Zenon, <1>1, <1>2 DEF SuiteInv, ControlInv, Quiet, Preparing, RestoreOps
<1>6. RestoreInv' /\ PreparationRestores'
  BY Zenon, <1>1 DEF RestoreInv, PreparationRestores
<1>7. ArmInv'
  BY Zenon, <1>1, <1>2 DEF SuiteInv, ArmInv
<1> QED  BY Zenon, <1>3, <1>4, <1>5, <1>6, <1>7 DEF SuiteInv

-----------------------------------------------------------------------------
\* t is directory s with one more build.
Filled(s, t, set, b) ==
  /\ t.declared = s.declared /\ DOMAIN t = DOMAIN s /\ DOMAIN t.builds = {"prior", "candidate"}
  /\ t.builds[set] = b
  /\ \A other \in {"prior", "candidate"} : other # set => t.builds[other] = s.builds[other]

\* Archiving fills one of the two places.
LEMMA Archiving ==
  ASSUME NEW s, DOMAIN s = DOMAIN EmptyDirectory("none"), DOMAIN s.builds = {"prior", "candidate"},
         NEW set \in {"prior", "candidate"}, NEW b
  PROVE  Filled(s, [s EXCEPT !.builds[set] = b], set, b)
<1> DEFINE t == [s EXCEPT !.builds[set] = b]
<1>1. {"declared", "builds"} \subseteq DOMAIN s
  BY Zenon DEF EmptyDirectory
<1>2. t.declared = s.declared /\ DOMAIN t = DOMAIN s /\ t.builds = [s.builds EXCEPT ![set] = b]
  BY Zenon, <1>1
<1> QED  BY Zenon, <1>2 DEF Filled

\* The receipt of a finished build is what the arm asked for.
LEMMA ReceiptAsAsked ==
  ASSUME NEW r, NEW c, IInv, Building(r, c), op = "none", outcome = "ok"
  PROVE  ArchivedAs(receipt, r, c)
<1>1. /\ receipt.present /\ receipt.config = Features(c) /\ AskedFor(receipt.rev, r)
  BY Zenon DEF Building
<1>2. /\ receipt.binaries = dist
      /\ dist["rafter"] = As(receipt.rev, receipt.source.sources, receipt.config)
  BY Zenon, <1>1 DEF IInv, ReceiptInv, Engines
<1>3. dist["rafter"].rev = receipt.rev /\ dist["rafter"].config = receipt.config
  <2>1. PICK rev, version, features :
          /\ rev = receipt.rev /\ version = receipt.source.sources /\ features = receipt.config
          /\ dist["rafter"] = As(rev, version, features)
    BY Zenon, <1>2
  <2>2. dist["rafter"].rev = rev /\ dist["rafter"].config = features
    BY <2>1 DEF As
  <2> QED  BY Zenon, <2>1, <2>2
<1> QED  BY Zenon, <1>1, <1>2, <1>3 DEF ArchivedAs

\* One build serves both arms only if both would have built the same.
LEMMA SharedBuild ==
  ASSUME NEW a, IdenticalBuild(a)
  PROVE  a.candidate = a.prior /\ CandidateConfig(a) = PriorConfig(a)
<1>1. /\ a.prior = a.candidate /\ a.prior_hard_state = a.candidate_hard_state
      /\ a.prior_peer_batch_size > 1
      /\ (a.prior_mode # "inline") = (a.candidate_mode # "inline")
      /\ (a.prior_mode = "pipeline") = (a.candidate_mode = "pipeline")
  BY Zenon DEF IdenticalBuild
<1>2. (a.prior_peer_batch_size > 1) = TRUE
  BY Zenon, <1>1
<1> QED  BY Zenon, <1>1, <1>2 DEF CandidateConfig, PriorConfig, BuildConfig

\* An archived build is the one its arm asked for, and the next arm starts from
\* the same build or selects its own.
LEMMA ArchiveKeeps == ASSUME IInv, SuiteInv, ArchivePrior \/ ArchiveCandidate PROVE SuiteInv'
<1>1. /\ op = "none" /\ outcome = "ok" /\ UNCHANGED <<heads, original, under, qdisc, stuck, unclean, branch>>
      /\ pc \in {"prior built", "candidate built"}
  BY Zenon DEF ArchivePrior, ArchiveCandidate, ArchiveBuild, Ready, Select, callerVars, netVars, treeVars, checkoutVars
<1>2. PICK set \in {"prior", "candidate"} :
        /\ suite' = [suite EXCEPT !.builds[set] = receipt]
        /\ pc = IF set = "prior" THEN "prior built" ELSE "candidate built"
  BY Zenon DEF ArchivePrior, ArchiveCandidate, ArchiveBuild, Ready
<1>3. /\ suite'.declared = suite.declared /\ DOMAIN suite' = DOMAIN suite
      /\ DOMAIN suite'.builds = {"prior", "candidate"} /\ suite'.builds[set] = receipt
      /\ \A other \in {"prior", "candidate"} : other # set => suite'.builds[other] = suite.builds[other]
  <2>1. DOMAIN suite = DOMAIN EmptyDirectory("none") /\ DOMAIN suite.builds = {"prior", "candidate"}
    BY Zenon DEF SuiteInv, ControlInv
  <2>2. Filled(suite, [suite EXCEPT !.builds[set] = receipt], set, receipt)
    BY Zenon, <2>1, Archiving
  <2> QED  BY Zenon, <1>2, <2>2 DEF Filled
<1>4. args' = args
  BY Zenon, <1>3 DEF args, Args
<1>5. /\ set = "prior" => Building(args.prior, PriorConfig(args))
      /\ set = "candidate" => Building(args.candidate, CandidateConfig(args))
  BY Zenon, <1>2 DEF SuiteInv, ArmInv
<1>6. /\ set = "prior" => ArchivedAs(receipt, args.prior, PriorConfig(args))
      /\ set = "candidate" => ArchivedAs(receipt, args.candidate, CandidateConfig(args))
  BY Zenon, <1>1, <1>5, ReceiptAsAsked
<1>7. \A b, r, c : ArchivedAs(b, r, c) => ArchivedAs(b, r, c)'
  BY Zenon, <1>1 DEF ArchivedAs, AskedFor
<1>8. ArchiveInv'
  <2>1. suite'.builds["prior"] # <<>> => ArchivedAs(suite.builds["prior"], args.prior, PriorConfig(args))'
    <3>1. CASE set = "prior"
      BY Zenon, <1>1, <1>3, <1>4, <1>6, <3>1 DEF ArchivedAs, AskedFor
    <3>2. CASE set # "prior"
      BY Zenon, <1>1, <1>3, <1>4, <3>2 DEF SuiteInv, ArchiveInv, ArchivedAs, AskedFor
    <3> QED  BY Zenon, <3>1, <3>2
  <2>2. suite'.builds["candidate"] # <<>>
          => ArchivedAs(suite.builds["candidate"], args.candidate, CandidateConfig(args))'
    <3>1. CASE set = "candidate"
      BY Zenon, <1>1, <1>3, <1>4, <1>6, <3>1 DEF ArchivedAs, AskedFor
    <3>2. CASE set # "candidate"
      BY Zenon, <1>1, <1>3, <1>4, <3>2 DEF SuiteInv, ArchiveInv, ArchivedAs, AskedFor
    <3> QED  BY Zenon, <3>1, <3>2
  <2> QED  BY Zenon, <2>1, <2>2 DEF ArchiveInv
<1>9. \/ pc' = "smoke" /\ op' = "none"
      \/ pc' = "candidate selected" /\ op' = "stage" /\ ref' = args.candidate
      \/ /\ pc' = "candidate built" /\ op' = "none" /\ set = "prior" /\ IdenticalBuild(args)
         /\ UNCHANGED <<outcome, receipt>>
  BY Zenon, <1>1, <1>2 DEF ArchivePrior, ArchiveCandidate, Ready, Select, checkoutVars
<1>10. pc' \in Preparing /\ pc' # "idle" /\ pc' # "case" /\ pc # "idle" /\ pc # "case"
  BY Zenon, <1>1, <1>9 DEF Preparing
<1>11. DelayInv' /\ DelayAsPlanned'
  BY Zenon, <1>1, <1>3, <1>10, LoopbackKept DEF SuiteInv
<1>12. ControlInv'
  BY Zenon, <1>1, <1>3, <1>4, <1>9, <1>10 DEF SuiteInv, ControlInv, Quiet, Preparing, SelectOps
<1>13. RestoreInv' /\ PreparationRestores'
  BY Zenon, <1>9 DEF RestoreInv, PreparationRestores
<1>14. pc' = "candidate selected" => Selecting(args.candidate)'
  BY Zenon, <1>4, <1>9 DEF Selecting
<1>15. pc' = "candidate built" => Building(args.candidate, CandidateConfig(args))'
  <2> SUFFICES ASSUME pc' = "candidate built" PROVE Building(args.candidate, CandidateConfig(args))'
    BY Zenon
  <2>1. args.candidate = args.prior /\ CandidateConfig(args) = PriorConfig(args) /\ set = "prior"
    BY Zenon, <1>9, SharedBuild
  <2>2. op' = "none" /\ receipt.present /\ receipt.config = Features(PriorConfig(args)) /\ AskedFor(receipt.rev, args.prior)
    BY Zenon, <1>1, <1>5, <1>9, <2>1 DEF Building
  <2>3. receipt' = receipt
    BY Zenon, <1>9
  <2> QED  BY Zenon, <1>1, <1>4, <2>1, <2>2, <2>3 DEF Building, AskedFor, BuildOps
<1>16. ArmInv'
  BY Zenon, <1>1, <1>9, <1>10, <1>14, <1>15 DEF SuiteInv, ArmInv
<1> QED  BY Zenon, <1>8, <1>11, <1>12, <1>13, <1>16 DEF SuiteInv

-----------------------------------------------------------------------------
\* Smokes, the declaration, the verdicts and damage to a finished directory
\* touch neither the working copy nor the loopback.
LEMMA DirectoryKeeps ==
  ASSUME SuiteInv, Smoke \/ (Declare /\ pc' = "delay") \/ Complete \/ RecordAssessment \/ Damage
  PROVE  SuiteInv'
<1>1. DOMAIN suite = DOMAIN EmptyDirectory("none")
  BY Zenon DEF SuiteInv, ControlInv
<1>2. SameBuilds(suite, suite')
  <2>1. ASSUME NEW x, NEW y
        PROVE  /\ SameBuilds(suite, [suite EXCEPT !.smokes = x])
               /\ SameBuilds(suite, [suite EXCEPT !.machine = x])
               /\ SameBuilds(suite, [suite EXCEPT !.coverage = x])
               /\ SameBuilds(suite, [suite EXCEPT !.assessment = x])
               /\ SameBuilds(suite, [suite EXCEPT !.cases = x])
               /\ SameBuilds(suite, [suite EXCEPT !.cases[y] = x])
               /\ SameBuilds(suite, [suite EXCEPT !.cases[y].intact = x])
    BY Zenon, <1>1, Updates
  <2>2. \/ \E x : \/ suite' = [suite EXCEPT !.smokes = x] \/ suite' = [suite EXCEPT !.machine = x]
                \/ suite' = [suite EXCEPT !.coverage = x] \/ suite' = [suite EXCEPT !.assessment = x]
                \/ suite' = [suite EXCEPT !.cases = x]
        \/ \E x, y : \/ suite' = [suite EXCEPT !.cases[y] = x]
                     \/ suite' = [suite EXCEPT !.cases[y].intact = x]
    <3>1. CASE Smoke
      BY Zenon, <3>1 DEF Smoke
    <3>2. CASE Declare /\ pc' = "delay"
      BY Zenon, <3>2 DEF Declare, Stop
    <3>3. CASE Complete \/ RecordAssessment
      BY Zenon, <3>3 DEF Complete, RecordAssessment
    <3>4. CASE Damage
      BY Zenon, <3>4 DEF Damage
    <3> QED  BY Zenon, <3>1, <3>2, <3>3, <3>4
  <2> QED  BY Zenon, <2>1, <2>2
<1>3. UNCHANGED <<checkoutVars, original, heads, qdisc, stuck, unclean, under>>
  BY Zenon DEF Smoke, Declare, Stop, Complete, RecordAssessment, Damage, callerVars, netVars
<1>4. \/ pc = "smoke" /\ pc' = "smoke"
      \/ pc = "restored" /\ op = "none" /\ pc' = "delay"
      \/ pc \in {"delay", "assess"} /\ pc' \in {"assess", "idle"}
      \/ pc = "idle" /\ op = "none" /\ pc' = "idle"
  BY Zenon DEF Smoke, Declare, Complete, RecordAssessment, Damage, Completed, Ready
<1>5. op = "none"
  BY Zenon, <1>4 DEF SuiteInv, ControlInv, Quiet
<1>6. ControlInv' /\ RestoreInv' /\ ArmInv' /\ ArchiveInv' /\ PreparationRestores'
  BY Zenon, <1>2, <1>3, <1>4, <1>5, PreparationKept DEF SuiteInv
<1>7. DelayInv' /\ DelayAsPlanned'
  BY Zenon, <1>2, <1>3, <1>4, LoopbackKept DEF SuiteInv, SameBuilds
<1> QED  BY Zenon, <1>6, <1>7 DEF SuiteInv

\* Whatever ends a suite or happens between suites says so if it leaves a delay.
LEMMA StopKeeps ==
  ASSUME SuiteInv, \/ Operator \/ Developer \/ Abandon \/ (Declare /\ pc' # "delay")
                   \/ (EnterDelay /\ pc' # "case") \/ Interrupt \/ (Kill /\ ~complete)
  PROVE  SuiteInv'
<1>1. pc' = "idle" /\ NoSuite
  BY Zenon DEF Operator, Developer, Abandon, Declare, EnterDelay, Interrupt, Kill, Stop, Ready
<1>2. qdisc' # 0 => stuck'
  <2>1. CASE Operator \/ Developer \/ Abandon \/ Declare
    <3>1. UNCHANGED <<qdisc, stuck>> /\ pc # "case"
      BY Zenon, <2>1 DEF Operator, Developer, Abandon, Declare, Ready
    <3> QED  BY Zenon, <3>1 DEF SuiteInv, DelayInv
  <2>2. CASE EnterDelay /\ pc' # "case"
    <3>1. pc = "delay" /\ (UNCHANGED <<qdisc, stuck>> \/ stuck' = TRUE)
      BY Zenon, <2>2 DEF EnterDelay
    <3>2. qdisc # 0 => stuck
      BY Zenon, <3>1 DEF SuiteInv, DelayInv
    <3> QED  BY <3>1, <3>2
  <2>3. CASE Interrupt
    BY Zenon, <2>3 DEF Interrupt, RemoveDelay, SuiteInv, DelayInv
  <2>4. CASE Kill
    BY Zenon, <2>4 DEF Kill
  <2> QED  BY Zenon, <2>1, <2>2, <2>3, <2>4
<1> QED  BY Zenon, <1>1, <1>2, NothingRunning DEF SuiteInv

\* A kill after completion.json leaves the directory of the suite.
LEMMA KillCompleteKeeps == ASSUME SuiteInv, Kill, complete PROVE SuiteInv'
<1>1. /\ pc' = "idle" /\ UNCHANGED <<suite, heads, original, under, unclean, qdisc>>
      /\ stuck' = (stuck \/ qdisc # 0) /\ args' = args /\ SameBuilds(suite, suite')
  BY Zenon DEF Kill, callerVars, outputVars, args, SameBuilds
<1>2. ControlInv'
  BY Zenon, <1>1 DEF SuiteInv, ControlInv, Quiet, Preparing
<1>3. RestoreInv' /\ PreparationRestores' /\ ArmInv'
  BY Zenon, <1>1 DEF RestoreInv, PreparationRestores, ArmInv
<1>4. ArchiveInv'
  BY Zenon, <1>1, ArchiveKept DEF SuiteInv
<1>5. \A i : Declared(i)' = Declared(i)
  BY Zenon, <1>1 DEF Declared, CurrentPlan, Plan
<1>6. DelayInv' /\ DelayAsPlanned'
  BY Zenon, <1>1, <1>5 DEF SuiteInv, DelayInv, DelayAsPlanned
<1> QED  BY Zenon, <1>2, <1>3, <1>4, <1>6 DEF SuiteInv

-----------------------------------------------------------------------------
\* A delay is put on a loopback that had none, and taken off after its cases.
LEMMA DelayKeeps == ASSUME SuiteInv, (EnterDelay /\ pc' = "case") \/ NextDelay PROVE SuiteInv'
<1>1. /\ UNCHANGED <<checkoutVars, suite, original, heads, unclean, stuck, under>>
      /\ pc \in {"delay", "case"} /\ pc' \in {"delay", "case"} /\ args' = args /\ SameBuilds(suite, suite')
  BY Zenon DEF EnterDelay, Stop, NextDelay, RemoveDelay, callerVars, outputVars, args, SameBuilds
<1>2. op = "none"
  BY Zenon, <1>1 DEF SuiteInv, ControlInv, Quiet
<1>3. ControlInv' /\ RestoreInv' /\ ArmInv' /\ ArchiveInv' /\ PreparationRestores'
  BY Zenon, <1>1, <1>2, PreparationKept DEF SuiteInv
<1>4. \A i : Declared(i)' = Declared(i)
  BY Zenon, <1>1 DEF Declared, CurrentPlan, Plan
<1>5. DelayAsPlanned'
  BY Zenon, <1>1, <1>4 DEF SuiteInv, DelayAsPlanned
<1>6. CASE EnterDelay /\ pc' = "case"
  <2>1. /\ pc = "delay" /\ delay' = delay
        /\ args.delays[delay] = 0 \/ qdisc = 0
        /\ qdisc' = IF args.delays[delay] = 0 THEN qdisc ELSE args.delays[delay]
    BY Zenon, <1>6 DEF EnterDelay, Stop
  <2>2. DelayInv'
    BY Zenon, <1>1, <1>6, <2>1 DEF SuiteInv, DelayInv
  <2> QED  BY Zenon, <1>3, <1>5, <2>2 DEF SuiteInv
<1>7. CASE NextDelay
  <2>1. /\ pc = "case" /\ pc' = "delay"
        /\ qdisc' = IF args.delays[delay] = 0 THEN qdisc ELSE 0
    BY Zenon, <1>7 DEF NextDelay, RemoveDelay
  <2>2. DelayInv'
    BY Zenon, <1>1, <2>1 DEF SuiteInv, DelayInv
  <2> QED  BY Zenon, <1>3, <1>5, <2>2 DEF SuiteInv
<1> QED  BY Zenon, <1>6, <1>7

\* A case runs under the delay that is on the loopback.
LEMMA CaseKeeps == ASSUME SuiteInv, RunCase PROVE SuiteInv'
<1>1. PICK i \in Remaining :
        /\ under' = [j \in DOMAIN under \union {i} |-> IF j = i THEN qdisc ELSE under[j]]
        /\ CaseVerified(i) \/ CaseFailed(i)
  BY Zenon DEF RunCase
<1>2. /\ UNCHANGED <<checkoutVars, pc, original, heads, qdisc, stuck, unclean, delay>> /\ pc = "case"
  BY Zenon DEF RunCase, callerVars, netVars
<1>3. DOMAIN suite = DOMAIN EmptyDirectory("none") /\ op = "none"
  BY Zenon, <1>2 DEF SuiteInv, ControlInv, Quiet
<1>4. SameBuilds(suite, suite')
  <2>1. \/ \E x : suite' = [suite EXCEPT !.cases = x]
        \/ \E x, y : suite' = [suite EXCEPT !.failures = x, !.cases = y]
    BY Zenon, <1>1 DEF CaseVerified, CaseFailed
  <2>2. ASSUME NEW x, NEW y
        PROVE  /\ SameBuilds(suite, [suite EXCEPT !.cases = x])
               /\ SameBuilds(suite, [suite EXCEPT !.failures = x, !.cases = y])
    BY Zenon, <1>3, Updates
  <2>3. CASE \E x : suite' = [suite EXCEPT !.cases = x]
    <3>1. PICK x : suite' = [suite EXCEPT !.cases = x]
      BY Zenon, <2>3
    <3>2. SameBuilds(suite, [suite EXCEPT !.cases = x])
      BY Zenon, <2>2
    <3> QED  BY Zenon, <3>1, <3>2
  <2>4. CASE \E x, y : suite' = [suite EXCEPT !.failures = x, !.cases = y]
    <3>1. PICK x, y : suite' = [suite EXCEPT !.failures = x, !.cases = y]
      BY Zenon, <2>4
    <3>2. SameBuilds(suite, [suite EXCEPT !.failures = x, !.cases = y])
      BY Zenon, <2>2
    <3> QED  BY Zenon, <3>1, <3>2
  <2> QED  BY Zenon, <2>1, <2>3, <2>4
<1>5. ControlInv' /\ RestoreInv' /\ ArmInv' /\ ArchiveInv' /\ PreparationRestores'
  BY Zenon, <1>2, <1>3, <1>4, PreparationKept DEF SuiteInv
<1>6. args' = args /\ (\A j : Declared(j)' = Declared(j))
  BY Zenon, <1>4 DEF args, Args, Declared, CurrentPlan, Plan, SameBuilds
<1>7. DelayInv'
  BY Zenon, <1>2, <1>6 DEF SuiteInv, DelayInv
<1>8. DelayAsPlanned'
  <2>1. /\ DOMAIN under' = DOMAIN under \union {i}
        /\ \A j \in DOMAIN under' : under'[j] = IF j = i THEN qdisc ELSE under[j]
    BY Zenon, <1>1
  <2>2. Declared(i) = args.delays[delay]
    BY Zenon DEF Remaining
  <2>3. qdisc = Declared(i) \/ (Declared(i) = 0 /\ unclean)
    BY Zenon, <1>2, <2>2 DEF SuiteInv, DelayInv
  <2>4. \A j \in DOMAIN under' : under'[j] = Declared(j) \/ (Declared(j) = 0 /\ unclean)
    BY Zenon, <2>1, <2>3 DEF SuiteInv, DelayAsPlanned
  <2> QED  BY Zenon, <1>2, <1>6, <2>4 DEF DelayAsPlanned
<1> QED  BY Zenon, <1>5, <1>7, <1>8 DEF SuiteInv

-----------------------------------------------------------------------------
\* Before the first command there is no suite and no delay.
LEMMA InitSuiteInv == Init => IInv /\ CommitInv /\ SuiteInv
<1> SUFFICES ASSUME Init PROVE IInv /\ CommitInv /\ SuiteInv
  BY Zenon
<1>1. IInv
  BY Zenon, InitIInv DEF Init
<1>2. CommitInv
  BY Zenon, RefAssumption DEF Init, CheckoutInit, CommitInv, Refs
<1>3. /\ pc = "idle" /\ suite = EmptyDirectory("none") /\ under = <<>> /\ qdisc = 0
  BY Zenon DEF Init
<1>4. suite.builds = [set \in {"prior", "candidate"} |-> <<>>]
  BY Zenon, <1>3 DEF EmptyDirectory
<1>5. /\ DOMAIN suite.builds = {"prior", "candidate"}
      /\ suite.builds["prior"] = <<>> /\ suite.builds["candidate"] = <<>>
  BY Zenon, <1>4
<1>6. ControlInv
  BY Zenon, <1>3, <1>5 DEF ControlInv, Quiet, Preparing
<1>7. RestoreInv /\ PreparationRestores /\ ArmInv /\ ArchiveInv
  BY Zenon, <1>3, <1>5 DEF RestoreInv, PreparationRestores, ArmInv, ArchiveInv
<1>8. DelayInv /\ DelayAsPlanned
  BY Zenon, <1>3, NoCases DEF DelayInv, DelayAsPlanned
<1> QED  BY Zenon, <1>1, <1>2, <1>6, <1>7, <1>8 DEF SuiteInv

\* A step that changes nothing.
LEMMA StutterKeeps == ASSUME SuiteInv, UNCHANGED vars PROVE SuiteInv'
<1>1. UNCHANGED <<checkoutVars, pc, original, heads, suite, under, delay, qdisc, stuck, unclean>>
  BY Zenon DEF vars, suiteVars, callerVars, outputVars, netVars
<1>2. UNCHANGED <<selection, branch, receipt, op, ref, sha, config, captured, outcome, cut>> /\ args' = args
  BY Zenon, <1>1 DEF checkoutVars, args
<1>3. SameBuilds(suite, suite') /\ \A i : Declared(i)' = Declared(i)
  BY Zenon, <1>1 DEF SameBuilds, Declared, CurrentPlan, Plan
<1>4. ControlInv' /\ RestoreInv' /\ PreparationRestores'
  BY Zenon, <1>1, <1>2 DEF SuiteInv, ControlInv, RestoreInv, PreparationRestores
<1>5. ArmInv'
  BY ZenonT(30), <1>1, <1>2 DEF SuiteInv, ArmInv, Selecting, Building, AskedFor, Features
<1>6. ArchiveInv'
  BY Zenon, <1>1, <1>3, ArchiveKept DEF SuiteInv
<1>7. DelayInv' /\ DelayAsPlanned'
  BY Zenon, <1>1, <1>2, <1>3 DEF SuiteInv, DelayInv, DelayAsPlanned
<1> QED  BY Zenon, <1>4, <1>5, <1>6, <1>7 DEF SuiteInv

\* Every step of the operator, of a suite and of what befalls it.
LEMMA NextSuiteInv == IInv /\ CommitInv /\ SuiteInv /\ [Next]_vars => (IInv /\ CommitInv /\ SuiteInv)'
<1> SUFFICES ASSUME IInv, CommitInv, SuiteInv, [Next]_vars PROVE IInv' /\ CommitInv' /\ SuiteInv'
  BY Zenon
<1>1. [CheckoutNext]_checkoutVars
  BY Zenon, SuiteStep DEF SuiteInv
<1>2. IInv' /\ CommitInv'
  BY Zenon, <1>1, NextIInv, CommitKeeps
<1>3. CASE Operator \/ Developer \/ Abandon \/ Interrupt
  BY Zenon, <1>2, <1>3, StopKeeps
<1>4. CASE Push \/ Operate
  BY Zenon, <1>2, <1>4, OperateKeeps, HeadsKeep
<1>5. CASE \E name \in DOMAIN Suites : StartSuite(name)
  BY Zenon, <1>2, <1>5, StartKeeps
<1>6. CASE BuildPrior \/ BuildCandidate \/ ArchivePrior \/ ArchiveCandidate \/ FinishPreparation \/ FailPreparation
  BY Zenon, <1>2, <1>6, BuildCalled, ArchiveKeeps, RestoreCalled
<1>7. CASE Smoke \/ Complete \/ RecordAssessment \/ Damage
  BY Zenon, <1>2, <1>7, DirectoryKeeps
<1>8. CASE Declare
  BY Zenon, <1>2, <1>8, DirectoryKeeps, StopKeeps
<1>9. CASE EnterDelay \/ NextDelay
  BY Zenon, <1>2, <1>9, DelayKeeps, StopKeeps
<1>10. CASE RunCase
  BY Zenon, <1>2, <1>10, CaseKeeps
<1>11. CASE Kill
  BY Zenon, <1>2, <1>11, KillCompleteKeeps, StopKeeps
<1>12. CASE UNCHANGED vars
  BY Zenon, <1>2, <1>12, StutterKeeps
<1> QED  BY Zenon, <1>3, <1>4, <1>5, <1>6, <1>7, <1>8, <1>9, <1>10, <1>11, <1>12 DEF Next

\* What holds of the working copy and of the suites at every step.
LEMMA SuiteInvariant == Spec => [](IInv /\ CommitInv /\ SuiteInv)
BY InitSuiteInv, NextSuiteInv, PTL DEF Spec

\* Features f are what a side in this mode needs.
Suffices(f, mode, hard, group) ==
  /\ f.hard = hard
  /\ mode # "inline" => f.ordered
  /\ mode = "pipeline" => f.pipelined /\ f.group
  /\ group => f.group

\* What a build makes of the features a mode needs.
LEMMA FeaturesSuffice ==
  ASSUME NEW mode, NEW hard, NEW group \in BOOLEAN
  PROVE  Suffices(Features(BuildConfig(mode, hard, group)), mode, hard, group)
BY Zenon DEF Suffices, Features, BuildConfig

\* An archived build that was asked for has what its arm needs.
LEMMA ArchiveInvArms == ControlInv /\ ArchiveInv => ArmsAsRequested
<1> SUFFICES ASSUME ControlInv, ArchiveInv, NEW set \in DOMAIN suite.builds, suite.builds[set] # <<>>
             PROVE  LET wanted == IF set = "prior" THEN args.prior ELSE args.candidate
                        mode == IF set = "prior" THEN args.prior_mode ELSE args.candidate_mode
                        hard == IF set = "prior" THEN args.prior_hard_state ELSE args.candidate_hard_state
                        archived == suite.builds[set]
                        binary == archived.binaries["rafter"]
                    IN /\ IF wanted \in Shas THEN binary.rev = wanted ELSE binary.rev \in heads
                       /\ archived.rev = binary.rev /\ archived.config = binary.config
                       /\ binary.config.hard = hard
                       /\ mode # "inline" => binary.config.ordered
                       /\ mode = "pipeline" => binary.config.pipelined /\ binary.config.group
                       /\ set = "candidate" \/ args.prior_peer_batch_size > 1 => binary.config.group
  BY Zenon DEF ArmsAsRequested
<1> DEFINE b == suite.builds[set]
           f == b.config
<1>1. set \in {"prior", "candidate"}
  BY Zenon DEF ControlInv
<1>2. CASE set = "prior"
  <2>1. /\ b.binaries["rafter"].rev = b.rev /\ b.binaries["rafter"].config = f
        /\ f = Features(BuildConfig(args.prior_mode, args.prior_hard_state, args.prior_peer_batch_size > 1))
        /\ IF args.prior \in Shas THEN b.rev = args.prior ELSE b.rev \in heads
    BY Zenon, <1>2 DEF ArchiveInv, ArchivedAs, AskedFor, PriorConfig
  <2>2. (args.prior_peer_batch_size > 1) \in BOOLEAN
    OBVIOUS
  <2>3. Suffices(f, args.prior_mode, args.prior_hard_state, args.prior_peer_batch_size > 1)
    <3>1. Suffices(Features(BuildConfig(args.prior_mode, args.prior_hard_state, args.prior_peer_batch_size > 1)),
                   args.prior_mode, args.prior_hard_state, args.prior_peer_batch_size > 1)
      BY Zenon, <2>2, FeaturesSuffice
    <3> HIDE DEF f
    <3> QED  BY Zenon, <2>1, <3>1
  <2> QED  BY Zenon, <1>2, <2>1, <2>3 DEF Suffices
<1>3. CASE set = "candidate"
  <2>1. /\ b.binaries["rafter"].rev = b.rev /\ b.binaries["rafter"].config = f
        /\ f = Features(BuildConfig(args.candidate_mode, args.candidate_hard_state, TRUE))
        /\ IF args.candidate \in Shas THEN b.rev = args.candidate ELSE b.rev \in heads
    BY Zenon, <1>3 DEF ArchiveInv, ArchivedAs, AskedFor, CandidateConfig
  <2>2. Suffices(f, args.candidate_mode, args.candidate_hard_state, TRUE)
    <3>1. Suffices(Features(BuildConfig(args.candidate_mode, args.candidate_hard_state, TRUE)),
                   args.candidate_mode, args.candidate_hard_state, TRUE)
      BY Zenon, FeaturesSuffice
    <3> HIDE DEF f
    <3> QED  BY Zenon, <2>1, <3>1
  <2> QED  BY Zenon, <1>3, <2>1, <2>2 DEF Suffices
<1> QED  BY Zenon, <1>1, <1>2, <1>3

-----------------------------------------------------------------------------
\* What suites do to the working copy is what its own commands may do
\* (paired.main only calls select_rafter, build and restore_rafter_selection),
\* so what holds of every use of the working copy holds under suites.
THEOREM SuitesImplementCheckout == Spec => CheckoutSpec
<1>1. Init => CheckoutInit
  BY Zenon DEF Init
<1>2. IInv /\ CommitInv /\ SuiteInv /\ [Next]_vars => [CheckoutNext]_checkoutVars
  BY Zenon, SuiteStep DEF SuiteInv
<1> QED  BY <1>1, <1>2, SuiteInvariant, PTL DEF Spec, CheckoutSpec

\* Under suites, too, a receipt that matches the checkout is true of every
\* binary, and a mixed checkout is one whose publication was cut short and is
\* never built from.
THEOREM SuitesKeepCheckout == Spec => []ReceiptTruthful /\ []SelectionWhole
BY SuitesImplementCheckout, ReceiptsTruthful, SelectionsWhole, PTL

\* However a preparation ends, short of a kill or a failing restore, the
\* captured selection is back and no receipt is left (PreparationRestores; the
\* finally of prepare_builds_and_smokes).
THEOREM PreparationsRestore == Spec => []PreparationRestores
<1>1. SuiteInv => PreparationRestores
  BY Zenon DEF SuiteInv
<1> QED  BY <1>1, SuiteInvariant, PTL

\* Both arms are archived as they were asked for, whether they share a build or
\* not and however often the branch moves meanwhile (ArmsAsRequested; the
\* builds and identical_build of paired.py).
THEOREM ArmsBuiltAsRequested == Spec => []ArmsAsRequested
<1>1. SuiteInv => ArmsAsRequested
  BY Zenon, ArchiveInvArms DEF SuiteInv
<1> QED  BY <1>1, SuiteInvariant, PTL

\* A case runs under its declared delay and the loopback is given back without
\* one, except for what a kill or a failing tc left (DelayAsPlanned;
\* loopback_delay in network.py).
THEOREM DelaysAsPlanned == Spec => []DelayAsPlanned
<1>1. SuiteInv => DelayAsPlanned
  BY Zenon DEF SuiteInv
<1> QED  BY <1>1, SuiteInvariant, PTL

-----------------------------------------------------------------------------
(* The order of the cases.                                                 *)

\* A repetition runs every arm, in the declared order from some arm on.
LEMMA Rotated ==
  ASSUME NEW S, NEW arms \in Seq(S), Len(arms) > 0, NEW r \in 0..(Len(arms) - 1)
  PROVE  /\ Len(OrderedArms(arms, r)) = Len(arms)
         /\ \A p \in 1..Len(arms) :
              OrderedArms(arms, r)[p] = arms[IF p + r <= Len(arms) THEN p + r ELSE p + r - Len(arms)]
<1>1. Len(arms) \in Nat
  OBVIOUS
<1>2. r % Len(arms) = r
  BY <1>1
<1>3. OrderedArms(arms, r) = SubSeq(arms, r + 1, Len(arms)) \o SubSeq(arms, 1, r)
  BY Zenon, <1>2 DEF OrderedArms
<1>4. /\ SubSeq(arms, r + 1, Len(arms)) \in Seq(S) /\ Len(SubSeq(arms, r + 1, Len(arms))) = Len(arms) - r
      /\ SubSeq(arms, 1, r) \in Seq(S) /\ Len(SubSeq(arms, 1, r)) = r
  BY <1>1
<1>5. ASSUME NEW p \in 1..Len(arms), p <= Len(arms) - r PROVE OrderedArms(arms, r)[p] = arms[p + r]
  BY <1>1, <1>3, <1>4, <1>5
<1>6. ASSUME NEW p \in 1..Len(arms), p > Len(arms) - r PROVE OrderedArms(arms, r)[p] = arms[p + r - Len(arms)]
  BY <1>1, <1>3, <1>4, <1>6
<1>7. Len(OrderedArms(arms, r)) = Len(arms)
  <2> DEFINE front == SubSeq(arms, r + 1, Len(arms))
             back == SubSeq(arms, 1, r)
  <2>1. Len(front \o back) = Len(front) + Len(back)
    <3> HIDE DEF front, back
    <3> QED  BY <1>4 DEF front, back
  <2>2. (Len(arms) - r) + r = Len(arms)
    BY <1>1
  <2> QED  BY Zenon, <1>3, <1>4, <2>1, <2>2
<1>8. ASSUME NEW p \in 1..Len(arms)
      PROVE  OrderedArms(arms, r)[p] = arms[IF p + r <= Len(arms) THEN p + r ELSE p + r - Len(arms)]
  <2>1. p + r <= Len(arms) <=> p <= Len(arms) - r
    BY <1>1
  <2>2. p > Len(arms) - r <=> ~(p <= Len(arms) - r)
    BY <1>1
  <2>3. CASE p <= Len(arms) - r
    BY Zenon, <1>5, <2>1, <2>3
  <2>4. CASE ~(p <= Len(arms) - r)
    BY Zenon, <1>6, <2>1, <2>2, <2>4
  <2> QED  BY Zenon, <2>3, <2>4
<1> QED  BY Zenon, <1>7, <1>8

\* In as many repetitions as there are arms, each arm runs exactly once at each
\* place of the order, for any number of arms: what ordered_arms rotates for,
\* and what PositionsBalanced checks of whole plans.
THEOREM EveryPlaceOnce ==
  ASSUME NEW S, NEW arms \in Seq(S), Len(arms) > 0, IsInjective(arms),
         NEW p \in 1..Len(arms), NEW arm \in Range(arms)
  PROVE  \E r \in 0..(Len(arms) - 1) :
           /\ OrderedArms(arms, r)[p] = arm
           /\ \A q \in 0..(Len(arms) - 1) : OrderedArms(arms, q)[p] = arm => q = r
<1>1. PICK i \in 1..Len(arms) : arms[i] = arm
  BY DEF Range
<1>2. Len(arms) \in Nat
  OBVIOUS
<1>3. \A j \in 1..Len(arms) : arms[j] = arm => j = i
  BY <1>1 DEF IsInjective
<1> DEFINE r == IF i >= p THEN i - p ELSE i - p + Len(arms)
<1>4. r \in 0..(Len(arms) - 1) /\ (IF p + r <= Len(arms) THEN p + r ELSE p + r - Len(arms)) = i
  BY <1>2
<1>5. OrderedArms(arms, r)[p] = arm
  BY <1>1, <1>4, Rotated
<1>6. ASSUME NEW q \in 0..(Len(arms) - 1), OrderedArms(arms, q)[p] = arm PROVE q = r
  <2>1. arms[IF p + q <= Len(arms) THEN p + q ELSE p + q - Len(arms)] = arm
    BY Zenon, <1>6, Rotated
  <2>2. (IF p + q <= Len(arms) THEN p + q ELSE p + q - Len(arms)) = i
    BY <1>2, <1>3, <2>1
  <2> QED  BY <1>2, <2>2
<1> QED  BY Zenon, <1>4, <1>5, <1>6
=============================================================================
