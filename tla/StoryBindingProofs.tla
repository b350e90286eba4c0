------------------------- MODULE StoryBindingProofs --------------------------
(***************************************************************************)
(* Proofs about StoryBinding, for any finite set of jobs, any number of    *)
(* workers and any bounds: IndInv is inductive, so a role is filled soundly *)
(* and with the newest candidate, and is not given up; and a replay never   *)
(* replaces what a role holds.                                              *)
(*                                                                         *)
(* Each action is a step of one actor, or of the environment.  What no step *)
(* undoes (Grows) keeps what the actors know that it does not move (Kept).  *)
(***************************************************************************)
EXTENDS StoryBinding, FiniteSetTheorems, WellFoundedInduction, TLAPS

Grows ==
    /\ target' = target /\ outputs' = outputs
    /\ \A j \in Jobs : status[j] = "succeeded" => status'[j] = "succeeded"
    /\ edited => edited'
    /\ role # None => role' # None \/ edited'

Kept(a) == pc'[a] = pc[a] /\ job'[a] = job[a] /\ index'[a] = index[a]

-----------------------------------------------------------------------------
(* Sets and orders.                                                         *)

\* A finite set of naturals that is not empty has a largest element: one with
\* the fewest above it.
LEMMA LargestExists ==
    ASSUME NEW S \in SUBSET Nat, IsFiniteSet(S), S # {}
    PROVE  \E m \in S : \A k \in S : k <= m
<1> DEFINE D == [m \in S |-> {k \in S : m < k}]
           F == {D[m] : m \in S}
<1>1. PICK m \in S : \A k \in S : ~(<<D[k], D[m]>> \in StrictSubsetOrdering(S))
  <2>1. \A k \in S : D[k] \in SUBSET S
    OBVIOUS
  <2> HIDE DEF D
  <2>2. F # {} /\ F \subseteq SUBSET S
    BY <2>1
  <2>3. SUBSET S = FiniteSubsetsOf(S)
    BY FS_FiniteSubsetsOfFinite
  <2>4. IsWellFoundedOn(StrictSubsetOrdering(S), FiniteSubsetsOf(S))
    BY FS_StrictSubsetOrderingWellFounded
  <2>5. \E X \in F : \A Y \in F : ~(<<Y, X>> \in StrictSubsetOrdering(S))
    <3> HIDE DEF F
    <3>1. F # {} /\ F \subseteq FiniteSubsetsOf(S)
      BY <2>2, <2>3
    <3> QED BY <3>1, <2>4, WFMin
  <2> QED BY <2>5
<1>2. ASSUME NEW k \in S, m < k PROVE FALSE
  <2>1. D[k] \subseteq D[m] /\ k \in D[m] /\ k \notin D[k]
    <3>1. k \in Nat /\ m \in Nat /\ ~(k < k)
      OBVIOUS
    <3>2. \A l \in S : k < l => m < l
      BY <1>2, <3>1
    <3>3. D[k] = {l \in S : k < l} /\ D[m] = {l \in S : m < l}
      OBVIOUS
    <3> HIDE DEF D, F
    <3> QED BY <1>2, <3>1, <3>2, <3>3
  <2>2. D[k] \in SUBSET S /\ D[m] \in SUBSET S /\ D[k] # D[m]
    BY <2>1
  <2>3. <<D[k], D[m]>> \in StrictSubsetOrdering(S)
    BY <2>1, <2>2 DEF StrictSubsetOrdering
  <2> QED BY <2>3, <1>1
<1>3. ASSUME NEW k \in S PROVE k <= m
  <2> HIDE DEF D, F
  <2>1. k \in Nat /\ m \in Nat
    OBVIOUS
  <2>2. ~(m < k)
    BY <1>2, Zenon
  <2> QED BY <2>1, <2>2
<1> QED BY <1>3

\* max() over candidates is one of them.
LEMMA WinnerIsLargest ==
    ASSUME NEW S \in SUBSET Jobs, S # {}
    PROVE  SelectWinner(S) \in S /\ \A k \in S : k <= SelectWinner(S)
<1>1. S \in SUBSET Nat /\ IsFiniteSet(S)
  BY BindingAssumption, FS_Subset
<1>2. \E m \in S : \A k \in S : k <= m
  BY <1>1, LargestExists
<1> QED BY <1>2 DEF SelectWinner

\* With an asset or with outputs, a job has outputs.
LEMMA UsableMeansOutputs ==
    ASSUME TypeOK, Document, NEW j \in Jobs
    PROVE  HasUsableOutput(j) <=> outputs[j]
BY DEF TypeOK, Document, HasUsableOutput

\* What a new index holds.
LEMMA NewIndex ==
    ASSUME TypeOK, Document
    PROVE  /\ BuildIndex \in Indexes /\ BuildIndex.built
           /\ BuildIndex.candidates \subseteq {j \in Succeeded : SceneBound(j)}
           /\ ~BuildIndex.tainted =>
                /\ BuildIndex.known \subseteq BuildIndex.candidates
                /\ \A j \in Succeeded : SceneBound(j) => j \in BuildIndex.candidates
           /\ \A k \in BuildIndex.known : outputs[k]
           /\ \A j \in Pending : SceneBound(j) => j \in BuildIndex.candidates
<1>1. BuildIndex \in Indexes /\ BuildIndex.built
  BY DEF BuildIndex, Indexes, Succeeded
<1>2. BuildIndex.candidates \subseteq {j \in Succeeded : SceneBound(j)}
  BY DEF BuildIndex
<1>3. ASSUME ~BuildIndex.tainted, NEW j \in Succeeded, SceneBound(j)
      PROVE  j \in BuildIndex.candidates
  <2>1. row[j] # "opaque" /\ row[j] # "poison" /\ j \in Jobs
    BY <1>3 DEF BuildIndex, Succeeded
  <2>2. row[j] = "good"
    BY <2>1 DEF TypeOK
  <2> QED BY <2>2, <1>3 DEF BuildIndex
<1>4. \A k \in BuildIndex.known : k \in Succeeded /\ SceneBound(k) /\ HasUsableOutput(k)
  BY DEF BuildIndex
<1>5. \A k \in BuildIndex.known : outputs[k]
  BY <1>4, UsableMeansOutputs DEF Succeeded
<1>6. \A j \in Pending : SceneBound(j) => j \in BuildIndex.candidates
  BY DEF Pending, BuildIndex
<1> QED BY <1>1, <1>2, <1>3, <1>4, <1>5, <1>6

\* Candidates stay candidates.
LEMMA AbleGrows ==
    ASSUME Grows
    PROVE  /\ Succeeded \subseteq Succeeded' /\ Able \subseteq Able'
           /\ \A j : SceneBound(j)' <=> SceneBound(j)
           /\ \A j : Outranked(j) => Outranked(j)'
<1>1. Succeeded \subseteq Succeeded'
  BY DEF Grows, Succeeded
<1>2. \A j : SceneBound(j)' <=> SceneBound(j)
  BY DEF Grows, SceneBound
<1>3. Able \subseteq Able'
  BY <1>1, <1>2 DEF Able, Grows
<1> QED BY <1>1, <1>2, <1>3 DEF Outranked

\* A job that is new among the succeeded is not done.
LEMMA AbleThatIsDone ==
    ASSUME IndInv, Grows, NEW j \in Able', done[j]
    PROVE  j \in Able
<1>1. j \in Jobs /\ SceneBound(j) /\ outputs[j]
  BY AbleGrows DEF Able, Succeeded, Grows
<1>2. status[j] = "succeeded"
  BY <1>1 DEF IndInv, Document
<1> QED BY <1>1, <1>2 DEF Able, Succeeded

\* What an actor that is not moved knows stays true.
LEMMA OthersKeep ==
    ASSUME IndInv, Grows, NEW b \in Actors, Kept(b)
    PROVE  Indexed(b)' /\ Follows(b)'
<1>1. Indexed(b) /\ Follows(b) /\ TypeOK
  BY DEF IndInv
<1>2. Indexed(b)'
  BY <1>1, AbleGrows DEF Indexed, Kept, Grows
<1>3. job[b] \in Able' /\ job[b] \in Succeeded => job[b] \in Able
  BY AbleGrows DEF Able, Grows
<1>4. Follows(b)'
  BY <1>1, <1>3, AbleGrows DEF Follows, Kept, Grows
<1> QED BY <1>2, <1>4

\* Losers stay outranked while nobody finishes.
LEMMA LosersKeep ==
    ASSUME IndInv, Grows, UNCHANGED done
    PROVE  LosersAreOutranked'
<1> SUFFICES ASSUME role' = None, ~edited', NEW j \in Able', done'[j]
             PROVE  Outranked(j)'
  BY DEF LosersAreOutranked
<1>1. role = None /\ ~edited
  BY DEF Grows
<1>2. j \in Able /\ done[j]
  BY AbleThatIsDone
<1>3. Outranked(j)
  BY <1>1, <1>2 DEF IndInv, LosersAreOutranked
<1> QED BY <1>3, AbleGrows

\* A pass that is not moved.
LEMMA PassKeeps ==
    ASSUME IndInv, Grows, todo' \subseteq todo, index'[Loop] = index[Loop]
    PROVE  PassIsIndexed'
BY AbleGrows DEF IndInv, PassIsIndexed

\* What was bound by replay stays as it was chosen.
LEMMA ReplayedKeeps ==
    ASSUME IndInv, Grows, UNCHANGED replayed
    PROVE  ReplayTakesTheNewest'
BY DEF IndInv, ReplayTakesTheNewest, Grows

\* A role whose document is not touched.
LEMMA RoleKeeps ==
    ASSUME IndInv, Grows, UNCHANGED <<story, scene, role, jobIds>>,
           \A j \in Jobs : asset[j] => asset'[j]
    PROVE  BoundRoleIsSound'
<1>1. ASSUME role # None PROVE status'[role] = "succeeded" /\ asset'[role] /\ SceneBound(role)'
  <2>1. role \in Jobs
    BY <1>1 DEF IndInv, TypeOK
  <2> QED BY <1>1, <2>1, AbleGrows DEF IndInv, BoundRoleIsSound, Grows
<1> QED BY <1>1 DEF IndInv, BoundRoleIsSound

-----------------------------------------------------------------------------
(* Workers.                                                                 *)

\* An actor that moves leaves the others alone.
LEMMA OneActor ==
    ASSUME IndInv, Grows, NEW a \in Actors, \A b \in Actors \ {a} : Kept(b),
           Indexed(a)', Follows(a)'
    PROVE  \A b \in Actors : Indexed(b)' /\ Follows(b)'
BY OthersKeep

\* mark_succeeded writes the row.
LEMMA MarkSucceededKeeps ==
    ASSUME IndInv, NEW w \in Workers, MarkSucceeded(w)
    PROVE  IndInv'
<1>1. TypeOK /\ Document /\ w \in Actors /\ w # Loop
  BY BindingAssumption DEF IndInv, Actors
<1>2. PICK j \in Jobs :
        /\ status[j] = "running" /\ status' = [status EXCEPT ![j] = "succeeded"]
        /\ job' = [job EXCEPT ![w] = j]
  BY DEF MarkSucceeded
<1>3. /\ pc[w] = "idle" /\ pc' = [pc EXCEPT ![w] = "sync"]
      /\ UNCHANGED <<target, outputs, row, asset, done, story, readable, scene, role, jobIds,
                     edited, index, todo, replayed, crashes, edits, faults>>
  BY DEF MarkSucceeded, Go, fixed, doc, counters
<1>4. Grows
  BY <1>1, <1>2, <1>3 DEF Grows, TypeOK
<1>5. TypeOK'
  BY <1>1, <1>2, <1>3 DEF TypeOK, Pcs
<1>6. \A b \in Actors \ {w} : Kept(b)
  BY <1>1, <1>2, <1>3 DEF Kept, TypeOK
<1>7. /\ pc'[w] = "sync" /\ job'[w] = j /\ index'[w] = index[w] /\ ~index[w].built
  BY <1>1, <1>2, <1>3 DEF TypeOK, IndInv, Indexed
<1>8. j \in Succeeded'
  BY <1>1, <1>2 DEF Succeeded, TypeOK
<1>9. Indexed(w)' /\ Follows(w)'
  <2>1. Indexed(w)
    BY <1>1 DEF IndInv
  <2>2. Indexed(w)'
    BY <1>3, <1>4, <1>7, <2>1, AbleGrows DEF Indexed
  <2> QED BY <1>7, <1>8, <2>2 DEF Follows
<1>10. Document'
  BY <1>1, <1>2, <1>3 DEF Document, TypeOK
<1> QED BY <1>1, <1>3, <1>4, <1>5, <1>6, <1>9, <1>10, OneActor, LosersKeep, PassKeeps,
           ReplayedKeeps, RoleKeeps DEF IndInv

\* Its assets are written, or the call fails.
LEMMA SyncAssetKeeps ==
    ASSUME IndInv, NEW w \in Workers, SyncAsset(w)
    PROVE  IndInv'
<1>1. TypeOK /\ Document /\ w \in Actors /\ w # Loop
  BY BindingAssumption DEF IndInv, Actors
<1>2. /\ pc[w] = "sync"
      /\ UNCHANGED <<target, outputs, status, row, done, story, readable, scene, role, jobIds,
                     edited, index, todo, replayed, crashes, edits>>
  BY DEF SyncAsset, fixed, doc, counters
<1>3. PICK j \in Jobs : j = job[w] /\ j \in Succeeded
  BY <1>1, <1>2 DEF IndInv, Follows, Succeeded
<1>4. \/ /\ asset' = [asset EXCEPT ![j] = outputs[j]]
         /\ pc' = [pc EXCEPT ![w] = "bind"] /\ job' = job /\ faults' = faults
      \/ /\ asset' = asset /\ faults' = faults + 1
         /\ pc' = [pc EXCEPT ![w] = "idle"] /\ job' = [job EXCEPT ![w] = None]
  BY <1>3 DEF SyncAsset, Go, counters
<1>5. Grows
  BY <1>2 DEF Grows
<1>6. TypeOK'
  <2>1. asset' \in [Jobs -> BOOLEAN]
    BY <1>1, <1>4 DEF TypeOK
  <2>2. pc' \in [Actors -> Pcs] /\ job' \in [Actors -> Jobs \cup {None}] /\ faults' \in Nat
    BY <1>1, <1>4 DEF TypeOK, Pcs
  <2> QED BY <1>1, <1>2, <2>1, <2>2 DEF TypeOK
<1>7. (\A i \in Jobs : asset[i] => asset'[i]) /\ Document'
  <2>1. \A i \in Jobs : (asset[i] => asset'[i]) /\ (asset'[i] => outputs[i])
    BY <1>1, <1>4 DEF Document, TypeOK
  <2> QED BY <1>1, <1>2, <2>1 DEF Document
<1>8. \A b \in Actors \ {w} : Kept(b)
  BY <1>1, <1>2, <1>4 DEF Kept, TypeOK
<1>9. Indexed(w)' /\ Follows(w)'
  <2>1. Indexed(w) /\ ~index[w].built
    BY <1>1, <1>2 DEF IndInv, Indexed
  <2>2. Indexed(w)'
    BY <1>2, <1>5, <2>1, AbleGrows DEF Indexed
  <2>3. pc'[w] = "idle" \/ (pc'[w] = "bind" /\ job'[w] \in Succeeded')
    BY <1>1, <1>3, <1>4, <1>5, AbleGrows DEF TypeOK
  <2> QED BY <2>2, <2>3 DEF Follows
<1> QED BY <1>1, <1>2, <1>5, <1>6, <1>7, <1>8, <1>9, OneActor, LosersKeep, PassKeeps,
           ReplayedKeeps, RoleKeeps DEF IndInv

\* A role that is bound now, by either route.
LEMMA BindIsSound ==
    ASSUME IndInv, NEW j \in Jobs, CanBind(j), Bind(j),
           UNCHANGED <<target, outputs, status, row, asset, done, story, readable, scene, edited>>
    PROVE  /\ Grows /\ BoundRoleIsSound' /\ Document' /\ role' # None
           /\ role' \in Jobs /\ jobIds' \subseteq Jobs
<1>1. role' = j /\ jobIds' = jobIds \cup {j} /\ j # None /\ TypeOK /\ Document
  BY BindingAssumption DEF Bind, IndInv
<1>2. Grows
  BY <1>1 DEF Grows
<1>3. BoundRoleIsSound'
  BY <1>1, <1>2, AbleGrows DEF BoundRoleIsSound, CanBind, Bindable, DocReadable
<1>4. Document'
  BY <1>1 DEF Document
<1> QED BY <1>1, <1>2, <1>3, <1>4 DEF TypeOK

\* bind_job replaces what the role holds.
LEMMA LiveBindKeeps ==
    ASSUME IndInv, NEW w \in Workers, LiveBind(w)
    PROVE  IndInv'
<1>1. TypeOK /\ Document /\ w \in Actors /\ w # Loop
  BY BindingAssumption DEF IndInv, Actors
<1>2. /\ pc[w] = "bind" /\ pc' = [pc EXCEPT ![w] = "converge"]
      /\ UNCHANGED <<target, outputs, status, row, asset, done, story, readable, scene, edited,
                     job, index, todo, replayed, crashes, edits, faults>>
  BY DEF LiveBind, Go, fixed, jobState, counters
<1>3. PICK j \in Jobs : j = job[w] /\ j \in Succeeded
  BY <1>1, <1>2 DEF IndInv, Follows, Succeeded
<1>4. /\ Grows /\ BoundRoleIsSound' /\ Document'
      /\ role' \in Jobs \cup {None} /\ jobIds' \subseteq Jobs
  <2>1. CASE CanBind(j)
    BY <1>2, <1>3, <2>1, BindIsSound DEF LiveBind
  <2>2. CASE ~CanBind(j)
    <3>1. UNCHANGED <<role, jobIds>>
      BY <1>3, <2>2 DEF LiveBind
    <3>2. Grows
      BY <1>2, <3>1 DEF Grows
    <3>3. Document'
      BY <1>1, <1>2, <3>1 DEF Document
    <3> QED BY <1>1, <1>2, <3>1, <3>2, <3>3, RoleKeeps DEF TypeOK
  <2> QED BY <2>1, <2>2
<1>5. TypeOK'
  BY <1>1, <1>2, <1>4 DEF TypeOK, Pcs
<1>6. \A b \in Actors \ {w} : Kept(b)
  BY <1>1, <1>2 DEF Kept, TypeOK
<1>7. Indexed(w)' /\ Follows(w)'
  <2>1. Indexed(w) /\ pc'[w] = "converge"
    BY <1>1, <1>2 DEF IndInv, TypeOK
  <2>2. Indexed(w)'
    BY <1>2, <1>4, <2>1, AbleGrows DEF Indexed
  <2> QED BY <1>2, <1>3, <1>4, <2>1, <2>2, AbleGrows DEF Follows
<1> QED BY <1>1, <1>2, <1>4, <1>5, <1>6, <1>7, OneActor, LosersKeep, PassKeeps,
           ReplayedKeeps DEF IndInv

-----------------------------------------------------------------------------
(* The retry loop.                                                          *)

\* One index for all that is pending.
LEMMA TickStartKeeps ==
    ASSUME IndInv, TickStart
    PROVE  IndInv'
<1>1. TypeOK /\ Document /\ Loop \in Actors
  BY DEF IndInv, Actors
<1>2. /\ pc[Loop] = "idle" /\ todo' = Pending /\ index' = [index EXCEPT ![Loop] = BuildIndex]
      /\ UNCHANGED <<target, outputs, status, row, asset, done, story, readable, scene, role,
                     jobIds, edited, pc, job, replayed, crashes, edits, faults>>
  BY DEF TickStart, fixed, jobState, doc, counters
<1>3. Grows
  BY <1>2 DEF Grows
<1>4. index'[Loop] = BuildIndex /\ \A b \in Actors \ {Loop} : Kept(b)
  BY <1>1, <1>2 DEF Kept, TypeOK
<1>5. Pending \subseteq Succeeded /\ Succeeded \subseteq Jobs
  BY DEF Pending, Succeeded
<1>6. TypeOK'
  <2>1. index' \in [Actors -> Indexes]
    BY <1>1, <1>2, NewIndex DEF TypeOK
  <2> QED BY <1>1, <1>2, <1>5, <2>1 DEF TypeOK
<1>7. Document'
  BY <1>1, <1>2 DEF Document
<1>8. Indexed(Loop)' /\ Follows(Loop)'
  <2>1. pc'[Loop] = "idle" /\ Loop \notin Workers
    BY <1>2, BindingAssumption
  <2>2. Follows(Loop)'
    BY <2>1 DEF Follows
  <2>3. BuildIndex.candidates \subseteq {j \in Succeeded' : SceneBound(j)'}
    BY <1>1, <1>3, NewIndex, AbleGrows
  <2>4. /\ ~BuildIndex.tainted => BuildIndex.known \subseteq BuildIndex.candidates
        /\ \A k \in BuildIndex.known : outputs'[k]
    BY <1>1, <1>2, NewIndex
  <2> HIDE DEF BuildIndex
  <2>5. Indexed(Loop)'
    BY <1>4, <2>1, <2>3, <2>4 DEF Indexed
  <2> QED BY <2>2, <2>5
<1>9. PassIsIndexed'
  <2>1. \A j \in Pending : SceneBound(j)' => j \in BuildIndex.candidates
    BY <1>1, <1>3, NewIndex, AbleGrows
  <2> QED BY <1>1, <1>2, <1>3, <1>4, <1>5, <2>1, NewIndex, AbleGrows DEF PassIsIndexed
<1> QED BY <1>1, <1>2, <1>3, <1>4, <1>6, <1>7, <1>8, <1>9, OneActor, LosersKeep,
           ReplayedKeeps, RoleKeeps DEF IndInv

\* The next job of the pass.
LEMMA TickNextKeeps ==
    ASSUME IndInv, TickNext
    PROVE  IndInv'
<1>1. TypeOK /\ Document /\ Loop \in Actors
  BY DEF IndInv, Actors
<1>2. PICK j \in todo : todo' = todo \ {j} /\ job' = [job EXCEPT ![Loop] = j]
                      /\ pc' = [pc EXCEPT ![Loop] = "converge"]
  BY DEF TickNext, Go
<1>3. UNCHANGED <<target, outputs, status, row, asset, done, story, readable, scene, role,
                  jobIds, edited, index, replayed, crashes, edits, faults>>
  BY DEF TickNext, fixed, jobState, doc, counters
<1>4. Grows
  BY <1>3 DEF Grows
<1>5. TypeOK'
  <2>1. j \in Jobs
    BY <1>1 DEF TypeOK
  <2> QED BY <1>1, <1>2, <1>3, <2>1 DEF TypeOK, Pcs
<1>6. /\ pc'[Loop] = "converge" /\ job'[Loop] = j /\ index'[Loop] = index[Loop]
      /\ \A b \in Actors \ {Loop} : Kept(b)
  BY <1>1, <1>2, <1>3 DEF Kept, TypeOK
<1>7. j \in Succeeded /\ (SceneBound(j) => j \in index[Loop].candidates)
  BY DEF IndInv, PassIsIndexed
<1>8. Indexed(Loop)' /\ Follows(Loop)'
  <2>1. Indexed(Loop)
    BY <1>1 DEF IndInv
  <2>2. Indexed(Loop)'
    BY <1>3, <1>4, <1>6, <1>7, <2>1, AbleGrows DEF Indexed
  <2> QED BY <1>4, <1>6, <1>7, <2>2, AbleGrows DEF Follows
<1>9. Document'
  BY <1>1, <1>3 DEF Document
<1>10. PassIsIndexed'
  BY <1>2, <1>4, <1>6, PassKeeps
<1> QED BY <1>1, <1>3, <1>4, <1>5, <1>6, <1>8, <1>9, <1>10, OneActor, LosersKeep,
           ReplayedKeeps, RoleKeeps DEF IndInv

-----------------------------------------------------------------------------
(* Convergence.                                                             *)

\* What the moves of one actor do to the actors' state.
Moves(a) ==
    /\ pc' \in [Actors -> Pcs] /\ job' \in [Actors -> Jobs \cup {None}]
    /\ index' \in [Actors -> Indexes]
    /\ \A b \in Actors \ {a} : Kept(b)
    /\ Indexed(a)' /\ Follows(a)' /\ PassIsIndexed'

\* An actor that is done with a job forgets it, and a pass its index at its end.
LEMMA ReturnMoves ==
    ASSUME IndInv, Grows, NEW a \in Actors, Return(a), UNCHANGED todo
    PROVE  Moves(a)
<1>1. TypeOK /\ Indexed(a)
  BY DEF IndInv
<1>2. /\ pc' = [pc EXCEPT ![a] = "idle"] /\ job' = [job EXCEPT ![a] = None]
      /\ index' = IF a = Loop /\ todo # {} THEN index ELSE [index EXCEPT ![a] = NoIndex]
  BY DEF Return, Go
<1>3. NoIndex \in Indexes
  BY DEF NoIndex, Indexes
<1>4. /\ pc' \in [Actors -> Pcs] /\ job' \in [Actors -> Jobs \cup {None}]
      /\ index' \in [Actors -> Indexes]
  BY <1>1, <1>2, <1>3 DEF TypeOK, Pcs
<1>5. \A b \in Actors \ {a} : Kept(b)
  BY <1>1, <1>2 DEF Kept, TypeOK
<1>6. pc'[a] = "idle"
  BY <1>1, <1>2 DEF TypeOK
<1>7. CASE a = Loop /\ todo # {}
  <2>1. index'[a] = index[a] /\ a \notin Workers
    BY <1>2, <1>7, BindingAssumption
  <2>2. Indexed(a)' /\ Follows(a)'
    BY <1>1, <1>6, <2>1, AbleGrows DEF Indexed, Follows, Grows
  <2> QED BY <1>4, <1>5, <1>7, <2>1, <2>2, PassKeeps DEF Moves
<1>8. CASE ~(a = Loop /\ todo # {})
  <2>1. index'[a] = NoIndex
    BY <1>1, <1>2, <1>8 DEF TypeOK
  <2>2. Indexed(a)' /\ Follows(a)'
    BY <1>6, <2>1 DEF Indexed, Follows, NoIndex
  <2>3. PassIsIndexed'
    <3>1. CASE a = Loop
      BY <1>8, <3>1 DEF PassIsIndexed
    <3>2. CASE a # Loop
      BY <1>5, <3>2, PassKeeps DEF Kept, Actors
    <3> QED BY <3>1, <3>2
  <2> QED BY <1>4, <1>5, <2>2, <2>3 DEF Moves
<1> QED BY <1>7, <1>8

\* An actor that goes on with its job and its index.
LEMMA GoMoves ==
    ASSUME IndInv, Grows, NEW a \in Actors, NEW p \in Pcs, Go(a, p),
           UNCHANGED <<job, index, todo>>, pc[a] \notin {"idle", "sync"},
           p \notin {"idle", "sync"},
           p \in {"precheck", "choose", "replay", "recheck"} => SceneBound(job[a]),
           p = "choose" => outputs[job[a]],
           p \in {"replay", "recheck"} => \A k \in index[a].known : k <= job[a],
           p = "replayAgain" => role' # None \/ edited',
           p = "finish" /\ job[a] \in Able => role' # None \/ edited' \/ Outranked(job[a])
    PROVE  Moves(a)
<1>1. TypeOK /\ Indexed(a) /\ Follows(a)
  BY DEF IndInv
<1>2. pc' = [pc EXCEPT ![a] = p]
  BY DEF Go
<1>3. pc' \in [Actors -> Pcs] /\ pc'[a] = p /\ \A b \in Actors \ {a} : Kept(b)
  BY <1>1, <1>2 DEF Kept, TypeOK
<1>4. job[a] \in Succeeded
  BY <1>1 DEF Follows
<1>5. Indexed(a)'
  BY <1>1, <1>3, AbleGrows DEF Indexed, Grows
<1>6. job[a] \in Able' => job[a] \in Able
  BY <1>4 DEF Able, Grows, SceneBound
<1>7. Follows(a)'
  BY <1>3, <1>4, <1>6, AbleGrows DEF Follows, Grows
<1>8. PassIsIndexed'
  BY PassKeeps
<1> QED BY <1>1, <1>3, <1>5, <1>7, <1>8 DEF Moves, TypeOK

\* A move that touches neither the document nor the end of a completion.
LEMMA MoveKeeps ==
    ASSUME IndInv, NEW a \in Actors, Moves(a),
           UNCHANGED <<target, outputs, status, row, done, story, readable, scene, role, jobIds,
                       edited, todo, replayed>>,
           asset' \in [Jobs -> BOOLEAN],
           \A j \in Jobs : (asset[j] => asset'[j]) /\ (asset'[j] => outputs[j]),
           crashes' \in Nat, edits' \in Nat, faults' \in Nat
    PROVE  IndInv'
<1>1. TypeOK /\ Document
  BY DEF IndInv
<1>2. Grows
  BY DEF Grows
<1>3. TypeOK'
  BY <1>1 DEF TypeOK, Moves
<1>4. Document'
  BY <1>1 DEF Document
<1>5. \A b \in Actors : Indexed(b)' /\ Follows(b)'
  BY <1>2, OneActor DEF Moves
<1> QED BY <1>2, <1>3, <1>4, <1>5, LosersKeep, ReplayedKeeps, RoleKeeps DEF IndInv, Moves

\* What an actor in the middle of a convergence knows of its job.
LEMMA JobFacts ==
    ASSUME IndInv, NEW a \in Actors, pc[a] # "idle"
    PROVE  /\ job[a] \in Jobs /\ job[a] \in Succeeded
           /\ job[a] \in Able <=> SceneBound(job[a]) /\ outputs[job[a]]
BY DEF IndInv, Follows, Succeeded, Able

\* converge_job reads the row and syncs the asset.
LEMMA ConvergeKeeps ==
    ASSUME IndInv, NEW a \in Actors, Converge(a)
    PROVE  IndInv'
<1>1. TypeOK /\ Document
  BY DEF IndInv
<1>2. /\ pc[a] = "converge"
      /\ UNCHANGED <<target, outputs, status, row, done, story, readable, scene, role, jobIds,
                     edited, todo, replayed>>
  BY DEF Converge, fixed, doc
<1>3. Grows
  BY <1>2 DEF Grows
<1>4. PICK j \in Jobs : j = job[a]
  BY <1>2, JobFacts
<1>5. CASE /\ asset' = [asset EXCEPT ![j] = @ \/ outputs[j]]
           /\ Go(a, IF SceneBound(j) THEN "precheck" ELSE "finish")
           /\ UNCHANGED <<job, index, counters>>
  <2>1. /\ asset' \in [Jobs -> BOOLEAN]
        /\ \A i \in Jobs : (asset[i] => asset'[i]) /\ (asset'[i] => outputs[i])
    BY <1>1, <1>5 DEF TypeOK, Document
  <2>2. Moves(a)
    <3>1. CASE SceneBound(j)
      <4>1. Go(a, "precheck")
        BY <1>5, <3>1
      <4> QED BY <1>2, <1>3, <1>4, <1>5, <3>1, <4>1, GoMoves DEF Pcs
    <3>2. CASE ~SceneBound(j)
      <4>1. Go(a, "finish") /\ job[a] \notin Able
        BY <1>4, <1>5, <3>2 DEF Able
      <4> QED BY <1>2, <1>3, <1>5, <4>1, GoMoves DEF Pcs
    <3> QED BY <3>1, <3>2
  <2> QED BY <1>1, <1>2, <1>5, <2>1, <2>2, MoveKeeps DEF TypeOK, counters
<1>6. CASE Return(a) /\ asset' = asset /\ crashes' = crashes /\ edits' = edits
           /\ faults' \in {faults, faults + 1}
  <2>1. Moves(a)
    BY <1>2, <1>3, <1>6, ReturnMoves
  <2>2. faults' \in Nat
    BY <1>1, <1>6 DEF TypeOK
  <2>3. \A i \in Jobs : asset'[i] => outputs[i]
    BY <1>1, <1>6 DEF Document
  <2> QED BY <1>1, <1>2, <1>6, <2>1, <2>2, <2>3, MoveKeeps DEF TypeOK
<1> QED BY <1>4, <1>5, <1>6 DEF Converge, counters

\* A move that changes nothing but what the actor does.
LEMMA PlainMoveKeeps ==
    ASSUME IndInv, NEW a \in Actors, Moves(a), UNCHANGED <<fixed, jobState, doc, todo, replayed,
           counters>>
    PROVE  IndInv'
<1>1. TypeOK /\ \A j \in Jobs : asset[j] => outputs[j]
  BY DEF IndInv, Document
<1>2. UNCHANGED <<target, outputs, status, row, asset, done, story, readable, scene, role, jobIds,
                  edited, todo, replayed, crashes, edits, faults>>
  BY DEF fixed, jobState, doc, counters
<1> QED BY <1>1, <1>2, MoveKeeps DEF TypeOK

\* The first read of the story.
LEMMA PreCheckKeeps ==
    ASSUME IndInv, NEW a \in Actors, PreCheck(a)
    PROVE  IndInv'
<1>1. TypeOK /\ Document
  BY DEF IndInv
<1>2. pc[a] = "precheck" /\ UNCHANGED <<fixed, jobState, doc, todo, replayed, counters>>
  BY DEF PreCheck
<1>3. Grows /\ role' = role /\ edited' = edited
  BY <1>2 DEF Grows, fixed, jobState, doc
<1>4. PICK j \in Jobs : j = job[a] /\ SceneBound(j)
  BY <1>2, JobFacts DEF IndInv, Follows
<1>5. CASE /\ story = "deleted" \/ ~scene
           /\ Go(a, "finish") /\ UNCHANGED <<job, index>>
  <2>1. edited
    BY <1>1, <1>5 DEF Document
  <2> QED BY <1>2, <1>3, <1>5, <2>1, GoMoves, PlainMoveKeeps DEF Pcs
<1>6. CASE Return(a)
  BY <1>2, <1>3, <1>6, ReturnMoves, PlainMoveKeeps
<1>7. CASE /\ j \in jobIds \/ role # None
           /\ Go(a, "replayAgain") /\ UNCHANGED <<job, index>>
  <2>1. role # None
    BY <1>1, <1>7 DEF Document
  <2> QED BY <1>2, <1>3, <1>7, <2>1, GoMoves, PlainMoveKeeps DEF Pcs
<1>8. CASE HasUsableOutput(j) /\ Go(a, "choose") /\ UNCHANGED <<job, index>>
  <2>1. outputs[j]
    BY <1>1, <1>8, UsableMeansOutputs
  <2> QED BY <1>2, <1>3, <1>4, <1>8, <2>1, GoMoves, PlainMoveKeeps DEF Pcs
<1> QED BY <1>4, <1>5, <1>6, <1>7, <1>8 DEF PreCheck

\* A job gives way only to a newer one that can fill the role; the one that is
\* chosen is the newest the index knows of.
LEMMA ChooseKeeps ==
    ASSUME IndInv, NEW a \in Actors, Choose(a)
    PROVE  IndInv'
<1>1. TypeOK /\ Document /\ Indexed(a) /\ Follows(a)
  BY DEF IndInv
<1>2. pc[a] = "choose" /\ UNCHANGED <<fixed, jobState, doc, todo, replayed, counters>>
  BY DEF Choose
<1>3. Grows
  BY <1>2 DEF Grows, fixed, jobState, doc
<1>4. PICK j \in Jobs : j = job[a] /\ j \in Succeeded /\ SceneBound(j) /\ outputs[j]
  BY <1>1, <1>2, JobFacts DEF Follows
<1>5. PICK ix \in Indexes : ix = IF index[a].built THEN index[a] ELSE BuildIndex
  BY <1>1, NewIndex DEF TypeOK
<1>6. /\ ix.built /\ ix.candidates \subseteq {k \in Succeeded : SceneBound(k)}
      /\ \A k \in ix.known : outputs[k]
      /\ ~ix.tainted => ix.known \subseteq ix.candidates /\ j \in ix.candidates
  <2>1. CASE index[a].built
    BY <1>1, <1>2, <1>4, <1>5, <2>1 DEF Indexed
  <2>2. CASE ~index[a].built
    <3>1. ix = BuildIndex
      BY <1>5, <2>2
    <3> HIDE DEF BuildIndex
    <3> QED BY <1>1, <1>4, <3>1, NewIndex
  <2> QED BY <2>1, <2>2
<1>7. PICK usable \in SUBSET Jobs : usable = {k \in ix.candidates : HasUsableOutput(k)}
  BY <1>6 DEF Succeeded
<1>8. /\ \A k \in usable : k \in Able
      /\ ~ix.tainted => j \in usable /\ ix.known \subseteq usable
  <2>1. \A k \in Jobs : HasUsableOutput(k) <=> outputs[k]
    BY <1>1, UsableMeansOutputs
  <2>2. ix.candidates \subseteq Jobs
    BY <1>6 DEF Succeeded
  <2>3. \A k \in usable : k \in Able
    BY <1>6, <1>7, <2>1, <2>2 DEF Able
  <2>4. ASSUME ~ix.tainted PROVE j \in usable /\ ix.known \subseteq usable
    BY <1>4, <1>6, <1>7, <2>1, <2>2, <2>4
  <2> QED BY <2>3, <2>4
<1>9. /\ ix.tainted => Return(a)
      /\ ~ix.tainted =>
           \/ usable # {} /\ SelectWinner(usable) # j
              /\ Go(a, "finish") /\ UNCHANGED <<job, index>>
           \/ (usable = {} \/ SelectWinner(usable) = j)
              /\ Go(a, "replay") /\ index' = [index EXCEPT ![a] = ix] /\ UNCHANGED job
  BY <1>4, <1>5, <1>7 DEF Choose
<1>10. CASE ix.tainted
  BY <1>2, <1>3, <1>9, <1>10, ReturnMoves, PlainMoveKeeps
<1>11. CASE ~ix.tainted
  <2>1. /\ j \in usable /\ SelectWinner(usable) \in usable
        /\ \A k \in usable : k <= SelectWinner(usable)
    BY <1>8, <1>11, WinnerIsLargest
  <2>2. CASE SelectWinner(usable) # j /\ Go(a, "finish") /\ UNCHANGED <<job, index>>
    <3>1. j < SelectWinner(usable)
      <4>1. j \in Nat /\ SelectWinner(usable) \in Nat /\ j <= SelectWinner(usable)
        BY <2>1, BindingAssumption
      <4> QED BY <2>2, <4>1
    <3>2. Outranked(job[a])
      BY <1>4, <1>8, <2>1, <3>1 DEF Outranked
    <3> QED BY <1>2, <1>3, <2>2, <3>2, GoMoves, PlainMoveKeeps DEF Pcs
  <2>3. CASE /\ SelectWinner(usable) = j
             /\ Go(a, "replay") /\ index' = [index EXCEPT ![a] = ix] /\ UNCHANGED job
    <3>1. \A k \in ix.known : k <= j
      BY <1>8, <1>11, <2>1, <2>3
    <3>2. /\ pc' \in [Actors -> Pcs] /\ job' \in [Actors -> Jobs \cup {None}]
          /\ index' \in [Actors -> Indexes]
      BY <1>1, <2>3 DEF Go, TypeOK, Pcs
    <3>3. /\ pc'[a] = "replay" /\ job'[a] = j /\ index'[a] = ix
          /\ \A b \in Actors \ {a} : Kept(b)
      BY <1>1, <1>4, <2>3 DEF Go, TypeOK, Kept
    <3>4. Indexed(a)'
      BY <1>3, <1>6, <1>11, <3>3, AbleGrows DEF Indexed, Grows
    <3>5. Follows(a)'
      BY <1>3, <1>4, <3>1, <3>3, AbleGrows DEF Follows
    <3>6. PassIsIndexed'
      <4>1. CASE a = Loop
        <5>1. CASE index[a].built
          <6>1. index'[Loop] = index[Loop]
            BY <1>5, <3>3, <4>1, <5>1
          <6> QED BY <1>2, <1>3, <6>1, PassKeeps
        <5>2. CASE ~index[a].built
          BY <1>2, <4>1, <5>2 DEF IndInv, PassIsIndexed
        <5> QED BY <5>1, <5>2
      <4>2. CASE a # Loop
        BY <1>2, <1>3, <3>3, <4>2, PassKeeps DEF Kept, Actors
      <4> QED BY <4>1, <4>2
    <3> QED BY <1>2, <3>2, <3>3, <3>4, <3>5, <3>6, PlainMoveKeeps DEF Moves
  <2> QED BY <1>9, <1>11, <2>1, <2>2, <2>3
<1> QED BY <1>10, <1>11

\* replay_job_safely: the role is looked at again under the lock.
LEMMA ReplayKeeps ==
    ASSUME IndInv, NEW a \in Actors, Replay(a)
    PROVE  IndInv'
<1>1. TypeOK /\ Document /\ Indexed(a) /\ Follows(a)
  BY DEF IndInv
<1>2. /\ pc[a] \in {"replay", "replayAgain"}
      /\ UNCHANGED <<target, outputs, status, row, asset, done, story, readable, scene, edited,
                     todo, crashes, edits, faults>>
  BY DEF Replay, fixed, jobState, counters
<1>3. PICK j \in Jobs : j = job[a]
  BY <1>2, JobFacts
<1>4. CASE row[j] # "good"
  <2>1. Return(a) /\ UNCHANGED <<role, jobIds, replayed>>
    BY <1>3, <1>4 DEF Replay
  <2>2. Grows
    BY <1>2, <2>1 DEF Grows
  <2> QED BY <1>2, <2>1, <2>2, ReturnMoves, PlainMoveKeeps DEF fixed, jobState, doc, counters
<1>5. CASE row[j] = "good" /\ ~ReplayBinds(j)
  <2>1. /\ UNCHANGED <<role, jobIds, replayed, job, index>>
        /\ Go(a, IF pc[a] = "replayAgain" THEN "finish" ELSE "recheck")
    BY <1>3, <1>5 DEF Replay
  <2>2. Grows
    BY <1>2, <2>1 DEF Grows
  <2>3. Moves(a)
    <3>1. CASE pc[a] = "replayAgain"
      <4>1. Go(a, "finish") /\ (role' # None \/ edited')
        BY <1>1, <1>2, <2>1, <3>1 DEF Follows
      <4> QED BY <1>2, <2>1, <2>2, <4>1, GoMoves DEF Pcs
    <3>2. CASE pc[a] = "replay"
      <4>1. /\ Go(a, "recheck") /\ SceneBound(job[a])
            /\ \A k \in index[a].known : k <= job[a]
        BY <1>1, <2>1, <3>2 DEF Follows
      <4> QED BY <1>2, <2>1, <2>2, <4>1, GoMoves DEF Pcs
    <3> QED BY <1>2, <3>1, <3>2
  <2> QED BY <1>2, <2>1, <2>3, PlainMoveKeeps DEF fixed, jobState, doc, counters
<1>6. CASE row[j] = "good" /\ ReplayBinds(j)
  <2>1. /\ Bind(j) /\ CanBind(j) /\ role = None /\ UNCHANGED <<job, index>>
        /\ replayed' = [job |-> j, known |-> index[a].known, chosen |-> pc[a] = "replay"]
        /\ Go(a, "finish")
    BY <1>3, <1>6 DEF Replay, ReplayBinds
  <2>2. /\ Grows /\ BoundRoleIsSound' /\ Document' /\ role' # None
        /\ role' \in Jobs /\ jobIds' \subseteq Jobs
    BY <1>2, <2>1, BindIsSound
  <2>3. Moves(a)
    BY <1>2, <2>1, <2>2, GoMoves DEF Pcs
  <2>4. replayed' \in [job : Jobs \cup {None}, known : SUBSET Jobs, chosen : BOOLEAN]
    <3>1. index[a].known \in SUBSET Jobs
      BY <1>1 DEF TypeOK, Indexes
    <3> QED BY <2>1, <3>1
  <2>5. TypeOK'
    BY <1>1, <1>2, <2>2, <2>3, <2>4 DEF TypeOK, Moves
  <2>6. ReplayTakesTheNewest'
    <3>1. CASE pc[a] = "replay"
      <4>1. \A k \in index[a].known : k <= j
        BY <1>1, <1>3, <3>1 DEF Follows
      <4> QED BY <2>1, <4>1 DEF ReplayTakesTheNewest
    <3>2. CASE pc[a] = "replayAgain"
      <4>1. edited' /\ ~replayed'.chosen
        BY <1>1, <1>2, <2>1, <3>2 DEF Follows
      <4> QED BY <4>1 DEF ReplayTakesTheNewest
    <3> QED BY <1>2, <3>1, <3>2
  <2>7. \A b \in Actors : Indexed(b)' /\ Follows(b)'
    BY <2>2, <2>3, OneActor DEF Moves
  <2> QED BY <1>2, <2>2, <2>3, <2>5, <2>6, <2>7, LosersKeep DEF IndInv, Moves
<1> QED BY <1>4, <1>5, <1>6

\* The story is read again.
LEMMA ReCheckKeeps ==
    ASSUME IndInv, NEW a \in Actors, ReCheck(a)
    PROVE  IndInv'
<1>1. TypeOK /\ Document
  BY DEF IndInv
<1>2. pc[a] = "recheck" /\ UNCHANGED <<fixed, jobState, doc, todo, replayed, counters>>
  BY DEF ReCheck
<1>3. Grows /\ role' = role /\ edited' = edited
  BY <1>2 DEF Grows, fixed, jobState, doc
<1>4. CASE /\ story = "deleted" \/ (DocReadable /\ (~scene \/ role # None))
           /\ Go(a, "finish") /\ UNCHANGED <<job, index>>
  <2>1. role' # None \/ edited'
    BY <1>1, <1>3, <1>4 DEF Document
  <2> QED BY <1>2, <1>3, <1>4, <2>1, GoMoves, PlainMoveKeeps DEF Pcs
<1>5. CASE Return(a)
  BY <1>2, <1>3, <1>5, ReturnMoves, PlainMoveKeeps
<1> QED BY <1>4, <1>5 DEF ReCheck

\* mark_completion_done.
LEMMA FinishKeeps ==
    ASSUME IndInv, NEW a \in Actors, Finish(a)
    PROVE  IndInv'
<1>1. TypeOK /\ Document /\ Follows(a)
  BY DEF IndInv
<1>2. /\ pc[a] = "finish" /\ Return(a) /\ done' = [done EXCEPT ![job[a]] = TRUE]
      /\ UNCHANGED <<target, outputs, status, row, asset, story, readable, scene, role, jobIds,
                     edited, todo, replayed, crashes, edits, faults>>
  BY DEF Finish, fixed, doc, counters
<1>3. PICK j \in Jobs : j = job[a] /\ j \in Succeeded
  BY <1>2, JobFacts
<1>4. Grows
  BY <1>2 DEF Grows
<1>5. Moves(a)
  BY <1>2, <1>4, ReturnMoves
<1>6. \A i \in Jobs : done'[i] => done[i] \/ i = j
  BY <1>1, <1>2, <1>3 DEF TypeOK
<1>7. TypeOK'
  <2>1. done' \in [Jobs -> BOOLEAN]
    BY <1>1, <1>2 DEF TypeOK
  <2> QED BY <1>1, <1>2, <1>5, <2>1 DEF TypeOK, Moves
<1>8. Document'
  BY <1>1, <1>2, <1>3, <1>6 DEF Document, Succeeded
<1>9. LosersAreOutranked'
  <2> SUFFICES ASSUME role' = None, ~edited', NEW i \in Able', done'[i]
               PROVE  Outranked(i)'
    BY DEF LosersAreOutranked
  <2>1. role = None /\ ~edited /\ Able' = Able
    BY <1>2 DEF Able, Succeeded, SceneBound
  <2>2. i \in Jobs
    BY DEF Able, Succeeded
  <2>3. Outranked(i)
    <3>1. CASE i = j
      BY <1>1, <1>2, <1>3, <2>1, <3>1 DEF Follows
    <3>2. CASE i # j
      BY <1>6, <2>1, <2>2, <3>2 DEF IndInv, LosersAreOutranked
    <3> QED BY <3>1, <3>2
  <2> QED BY <1>4, <2>3, AbleGrows
<1>10. \A b \in Actors : Indexed(b)' /\ Follows(b)'
  BY <1>4, <1>5, OneActor DEF Moves
<1>11. BoundRoleIsSound'
  BY <1>2, <1>4, RoleKeeps
<1> QED BY <1>2, <1>4, <1>5, <1>7, <1>8, <1>9, <1>10, <1>11, ReplayedKeeps DEF IndInv, Moves

-----------------------------------------------------------------------------
(* The environment.                                                         *)

\* The story or its scene is gone, or another scene has its place.
LEMMA EditKeeps ==
    ASSUME IndInv, DeleteStory \/ RegenerateScenes
    PROVE  IndInv'
<1>1. TypeOK /\ Document
  BY DEF IndInv
<1>2. /\ role' = None /\ jobIds' = {} /\ edited' = TRUE /\ edits' = edits + 1
      /\ UNCHANGED <<target, outputs, status, row, asset, done, readable, pc, job, index, todo,
                     replayed, crashes, faults>>
      /\ story' \in {"present", "deleted"} /\ scene' \in BOOLEAN
  BY <1>1 DEF DeleteStory, RegenerateScenes, fixed, jobState, actors, TypeOK, DocReadable
<1>3. Grows
  BY <1>2 DEF Grows
<1>4. TypeOK'
  BY <1>1, <1>2 DEF TypeOK
<1>5. BoundRoleIsSound' /\ Document' /\ LosersAreOutranked'
  BY <1>1, <1>2 DEF BoundRoleIsSound, Document, LosersAreOutranked
<1>6. \A b \in Actors : Kept(b)
  BY <1>2 DEF Kept
<1> QED BY <1>2, <1>3, <1>4, <1>5, <1>6, OthersKeep, PassKeeps, ReplayedKeeps DEF IndInv

\* A file or a row that cannot be read, or can be again.
LEMMA FaultKeeps ==
    ASSUME IndInv, StoryHiccup \/ RowFault
    PROVE  IndInv'
<1>1. TypeOK /\ Document
  BY DEF IndInv
<1>2. UNCHANGED <<target, outputs, status, asset, done, story, scene, role, jobIds, edited, pc,
                  job, index, todo, replayed, crashes, edits>>
  BY DEF StoryHiccup, RowFault, fixed, jobState, doc, actors
<1>3. Grows
  BY <1>2 DEF Grows
<1>4. TypeOK'
  <2>1. readable' \in BOOLEAN
    BY <1>1 DEF StoryHiccup, RowFault, doc, TypeOK
  <2>2. faults' \in Nat
    BY <1>1 DEF StoryHiccup, RowFault, TypeOK
  <2>3. row' \in [Jobs -> {"good", "poison", "opaque"}]
    BY <1>1 DEF StoryHiccup, RowFault, jobState, TypeOK
  <2> QED BY <1>1, <1>2, <2>1, <2>2, <2>3 DEF TypeOK
<1>5. Document'
  BY <1>1, <1>2 DEF Document
<1>6. \A b \in Actors : Kept(b)
  BY <1>2 DEF Kept
<1> QED BY <1>2, <1>3, <1>4, <1>5, <1>6, OthersKeep, PassKeeps, ReplayedKeeps, LosersKeep,
           RoleKeeps DEF IndInv

\* A crash forgets what every actor was at.
LEMMA CrashKeeps ==
    ASSUME IndInv, Crash
    PROVE  IndInv'
<1>1. TypeOK /\ Document
  BY DEF IndInv
<1>2. /\ UNCHANGED <<target, outputs, status, row, asset, done, story, readable, scene, role,
                     jobIds, edited, replayed, edits, faults>>
      /\ pc' = [a \in Actors |-> "idle"] /\ job' = [a \in Actors |-> None]
      /\ index' = [a \in Actors |-> NoIndex] /\ todo' = {} /\ crashes' = crashes + 1
  BY DEF Crash, fixed, jobState, doc
<1>3. Grows
  BY <1>2 DEF Grows
<1>4. TypeOK'
  <2>1. NoIndex \in Indexes
    BY DEF NoIndex, Indexes
  <2> QED BY <1>1, <1>2, <2>1 DEF TypeOK, Pcs
<1>5. Document'
  BY <1>1, <1>2 DEF Document
<1>6. \A b \in Actors : Indexed(b)' /\ Follows(b)'
  BY <1>2 DEF Indexed, Follows, NoIndex
<1>7. PassIsIndexed'
  BY <1>2 DEF PassIsIndexed
<1> QED BY <1>2, <1>3, <1>4, <1>5, <1>6, <1>7, LosersKeep, ReplayedKeeps, RoleKeeps DEF IndInv

-----------------------------------------------------------------------------
(* The theorems.                                                            *)

LEMMA InitIsSound == ASSUME Init PROVE IndInv
<1>1. NoIndex \in Indexes
  BY DEF NoIndex, Indexes
<1>2. TypeOK
  <2>1. /\ status \in [Jobs -> {"running", "succeeded"}]
        /\ row \in [Jobs -> {"good", "poison", "opaque"}]
        /\ asset \in [Jobs -> BOOLEAN] /\ done \in [Jobs -> BOOLEAN]
    BY DEF Init
  <2>2. /\ pc \in [Actors -> Pcs] /\ job \in [Actors -> Jobs \cup {None}]
        /\ index \in [Actors -> Indexes]
    BY <1>1 DEF Init, Pcs
  <2>3. replayed \in [job : Jobs \cup {None}, known : SUBSET Jobs, chosen : BOOLEAN]
    BY DEF Init
  <2>4. {readable, scene, edited} \subseteq BOOLEAN
    BY DEF Init
  <2>5. {crashes, edits, faults} \subseteq Nat
    BY DEF Init
  <2> QED BY <2>1, <2>2, <2>3, <2>4, <2>5 DEF Init, TypeOK
<1>3. \A a \in Actors : Indexed(a) /\ Follows(a)
  BY DEF Init, Indexed, Follows, NoIndex
<1>4. BoundRoleIsSound /\ Document /\ PassIsIndexed
  BY DEF Init, BoundRoleIsSound, Document, PassIsIndexed
<1>5. LosersAreOutranked /\ ReplayTakesTheNewest
  BY DEF Init, LosersAreOutranked, ReplayTakesTheNewest, Able, Succeeded
<1> QED BY <1>2, <1>3, <1>4, <1>5 DEF IndInv

LEMMA StepKeeps == ASSUME IndInv, NEW a \in Actors, Step(a) PROVE IndInv'
BY ConvergeKeeps, PreCheckKeeps, ChooseKeeps, ReplayKeeps, ReCheckKeeps, FinishKeeps DEF Step

LEMMA StutterKeeps == ASSUME IndInv, UNCHANGED vars PROVE IndInv'
<1>1. TypeOK /\ Document
  BY DEF IndInv
<1>2. UNCHANGED <<target, outputs, status, row, asset, done, story, readable, scene, role, jobIds,
                  edited, pc, job, index, todo, replayed, crashes, edits, faults>>
  BY DEF vars, fixed, jobState, doc, actors, counters
<1>3. Grows /\ \A b \in Actors : Kept(b)
  BY <1>2 DEF Grows, Kept
<1>4. TypeOK' /\ Document'
  BY <1>1, <1>2 DEF TypeOK, Document
<1> QED BY <1>2, <1>3, <1>4, OthersKeep, PassKeeps, ReplayedKeeps, LosersKeep, RoleKeeps DEF IndInv

LEMMA NextKeeps == ASSUME IndInv, [Next]_vars PROVE IndInv'
<1>1. CASE \E w \in Workers : Worker(w)
  <2>1. Workers \subseteq Actors
    BY DEF Actors
  <2> QED BY <1>1, <2>1, MarkSucceededKeeps, SyncAssetKeeps, LiveBindKeeps, StepKeeps DEF Worker
<1>2. CASE RetryLoop
  <2>1. Loop \in Actors
    BY DEF Actors
  <2> QED BY <1>2, <2>1, TickStartKeeps, TickNextKeeps, StepKeeps DEF RetryLoop
<1>3. CASE Environment
  BY <1>3, EditKeeps, FaultKeeps, CrashKeeps DEF Environment
<1>4. CASE Idle \/ UNCHANGED vars
  BY <1>4, StutterKeeps DEF Idle
<1> QED BY <1>1, <1>2, <1>3, <1>4 DEF Next

\* The newest of the jobs that could fill the role has lost to nobody.
LEMMA RolesFollow == ASSUME IndInv PROVE RolesAreKept
<1>1. RoleNeverAbandoned
  <2> SUFFICES ASSUME role = None, ~edited, Able # {} PROVE \E j \in Able : ~done[j]
    BY DEF RoleNeverAbandoned
  <2>1. Able \in SUBSET Jobs
    BY DEF Able, Succeeded
  <2>2. Able \in SUBSET Nat /\ IsFiniteSet(Able)
    BY <2>1, BindingAssumption, FS_Subset
  <2>3. PICK m \in Able : \A k \in Able : k <= m
    BY <2>2, LargestExists
  <2>4. ~Outranked(m)
    <3>1. \A k \in Able : ~(m < k)
      BY <2>2, <2>3
    <3> QED BY <3>1 DEF Outranked
  <2> QED BY <2>4 DEF IndInv, LosersAreOutranked
<1> QED BY <1>1 DEF RolesAreKept, IndInv

\* Whatever fails, crashes or loses a choice: a bound role is sound, a role is
\* not given up while a job could fill it, and a replay takes the newest
\* candidate (binding.py, replay_selection.py), for any jobs and workers.
THEOREM RolesKept == Spec => []RolesAreKept
<1>1. Init => IndInv
  BY InitIsSound
<1>2. IndInv /\ [Next]_vars => IndInv'
  BY NextKeeps
<1>3. IndInv => RolesAreKept
  BY RolesFollow
<1> QED BY <1>1, <1>2, <1>3, PTL DEF Spec

\* The role changes only by a live binding or by an edit once it is bound.
LEMMA RoleMoves ==
    ASSUME IndInv, [Next]_vars, role # None, role' # role
    PROVE  edits' # edits \/ \E w \in Workers : pc[w] = "bind" /\ role' = job[w]
<1>1. ASSUME NEW w \in Workers, LiveBind(w) PROVE pc[w] = "bind" /\ role' = job[w]
  BY <1>1 DEF LiveBind, Bind
<1>2. ASSUME NEW a \in Actors, Step(a) PROVE FALSE
  BY <1>2 DEF Step, Converge, PreCheck, Choose, Replay, ReplayBinds, ReCheck, Finish, doc
<1>3. ASSUME DeleteStory \/ RegenerateScenes PROVE edits' # edits
  BY <1>3 DEF DeleteStory, RegenerateScenes, IndInv, TypeOK
<1>4. ASSUME \/ \E w \in Workers : MarkSucceeded(w) \/ SyncAsset(w)
             \/ TickStart \/ TickNext \/ StoryHiccup \/ RowFault \/ Crash \/ Idle
             \/ UNCHANGED vars
      PROVE  FALSE
  BY <1>4 DEF MarkSucceeded, SyncAsset, TickStart, TickNext, StoryHiccup, RowFault, Crash, Idle,
              vars, doc
<1> QED BY <1>1, <1>2, <1>3, <1>4 DEF Next, Worker, RetryLoop, Environment, Actors

\* An old result never replaces what a role holds (binding.py:112-116).
THEOREM ReplayOverwritesNothing == Spec => ReplayNeverOverwrites
<1>1. Init => IndInv
  BY InitIsSound
<1>2. IndInv /\ [Next]_vars => IndInv'
  BY NextKeeps
<1>3. IndInv /\ [Next]_vars =>
        [ role # None /\ role' # role
          => \/ edits' # edits
             \/ \E w \in Workers : pc[w] = "bind" /\ role' = job[w] ]_vars
  BY RoleMoves
<1> QED BY <1>1, <1>2, <1>3, PTL DEF Spec, ReplayNeverOverwrites
=============================================================================
