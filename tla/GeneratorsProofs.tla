--------------------------- MODULE GeneratorsProofs ---------------------------
(***************************************************************************)
(* Proofs that the generators keep what Generators promises, for any jobs, *)
(* requests, errors, rates and limits.                                     *)
(*                                                                         *)
(* For each medium, in the order references, remote request, assembly,     *)
(* narration, text, video, music, image: <Medium>Init, one lemma per       *)
(* alternative of an action where it has several and one per action, then  *)
(* <Medium>Kept, that a step of the composition keeps the invariant of the *)
(* medium at work, and <Medium>Consequences, what follows from it.  The    *)
(* theorems at the end use these and, for a property of steps, the lemma   *)
(* that says it of one step (RetriesStep, ImageKeepsHealthy and the like). *)
(***************************************************************************)
EXTENDS Generators, Sequences, TLAPS, FiniteSetTheorems

-----------------------------------------------------------------------------
(* One medium at work.  A step of the composition is a step of the medium    *)
(* that is at work, or leaves its variables alone.                           *)

LEMMA ImageStep ==
    ASSUME medium = "image", [Next]_vars
    PROVE  /\ medium' = "image"
           /\ (\E j \in Jobs : Image!Work(j) \/ Image!Cancel(j)) \/ UNCHANGED Image!vars
<1>1. ASSUME NEW j \in Jobs, Work(j) \/ Cancel(j)
      PROVE  medium' = "image" /\ (Image!Work(j) \/ Image!Cancel(j))
  BY <1>1 DEF Work, Cancel, Only
<1>2. CASE UNCHANGED vars
  BY <1>2 DEF vars, jobVars, imageVars, Image!vars, Image!runtimeVars, Image!jobVars
<1>3. CASE Rest
  BY <1>3, <1>2 DEF Rest
<1>4. ASSUME Speak \/ CancelSpeech \/ CallProvider \/ Transport \/ Assemble \/ Encoder
               \/ MuxFails \/ Condition \/ EditReferences
      PROVE  FALSE
  BY <1>4 DEF Speak, CancelSpeech, CallProvider, Transport, Assemble, Encoder, MuxFails,
              Condition, EditReferences, Only
<1> QED
  BY <1>1, <1>2, <1>3, <1>4 DEF Next

LEMMA MusicStep ==
    ASSUME medium = "music", [Next]_vars
    PROVE  /\ medium' = "music"
           /\ (\E j \in Jobs : Music!Work(j) \/ Music!Cancel(j)) \/ UNCHANGED Music!vars
<1>1. ASSUME NEW j \in Jobs, Work(j) \/ Cancel(j)
      PROVE  medium' = "music" /\ (Music!Work(j) \/ Music!Cancel(j))
  BY <1>1 DEF Work, Cancel, Only
<1>2. CASE UNCHANGED vars
  BY <1>2 DEF vars, jobVars, musicVars, Music!vars, Music!modelVars, Music!jobVars
<1>3. CASE Rest
  BY <1>3, <1>2 DEF Rest
<1>4. ASSUME Speak \/ CancelSpeech \/ CallProvider \/ Transport \/ Assemble \/ Encoder
               \/ MuxFails \/ Condition \/ EditReferences
      PROVE  FALSE
  BY <1>4 DEF Speak, CancelSpeech, CallProvider, Transport, Assemble, Encoder, MuxFails,
              Condition, EditReferences, Only
<1> QED
  BY <1>1, <1>2, <1>3, <1>4 DEF Next

LEMMA TextStep ==
    ASSUME medium = "text", [Next]_vars
    PROVE  /\ medium' = "text"
           /\ (\E j \in Jobs : Text!Work(j) \/ Text!Cancel(j)) \/ UNCHANGED Text!vars
<1>1. ASSUME NEW j \in Jobs, Work(j) \/ Cancel(j)
      PROVE  medium' = "text" /\ (Text!Work(j) \/ Text!Cancel(j))
  BY <1>1 DEF Work, Cancel, Only
<1>2. CASE UNCHANGED vars
  BY <1>2 DEF vars, jobVars, textVars, Text!vars, Text!jobVars
<1>3. CASE Rest
  BY <1>3, <1>2 DEF Rest
<1>4. ASSUME Speak \/ CancelSpeech \/ CallProvider \/ Transport \/ Assemble \/ Encoder
               \/ MuxFails \/ Condition \/ EditReferences
      PROVE  FALSE
  BY <1>4 DEF Speak, CancelSpeech, CallProvider, Transport, Assemble, Encoder, MuxFails,
              Condition, EditReferences, Only
<1> QED
  BY <1>1, <1>2, <1>3, <1>4 DEF Next

LEMMA VideoStep ==
    ASSUME medium = "video", [Next]_vars
    PROVE  /\ medium' = "video"
           /\ (\E j \in Jobs : Video!Work(j) \/ Video!Cancel(j)) \/ UNCHANGED Video!vars
<1>1. ASSUME NEW j \in Jobs, Work(j) \/ Cancel(j)
      PROVE  medium' = "video" /\ (Video!Work(j) \/ Video!Cancel(j))
  BY <1>1 DEF Work, Cancel, Only
<1>2. CASE UNCHANGED vars
  BY <1>2 DEF vars, jobVars, videoVars, Video!vars, Video!request, Video!model
<1>3. CASE Rest
  BY <1>3, <1>2 DEF Rest
<1>4. ASSUME Speak \/ CancelSpeech \/ CallProvider \/ Transport \/ Assemble \/ Encoder
               \/ MuxFails \/ Condition \/ EditReferences
      PROVE  FALSE
  BY <1>4 DEF Speak, CancelSpeech, CallProvider, Transport, Assemble, Encoder, MuxFails,
              Condition, EditReferences, Only
<1> QED
  BY <1>1, <1>2, <1>3, <1>4 DEF Next

LEMMA SpeechStep ==
    ASSUME medium = "speech", [Next]_vars
    PROVE  medium' = "speech" /\ (Speech!Step \/ Speech!Cancel \/ UNCHANGED Speech!vars)
<1>1. CASE Speak \/ CancelSpeech
  BY <1>1 DEF Speak, CancelSpeech, Only
<1>2. CASE UNCHANGED vars
  BY <1>2 DEF vars, speechVars, jobVars, Speech!vars, Speech!job
<1>3. CASE Rest
  BY <1>3, <1>2 DEF Rest
<1>4. ASSUME NEW j \in Jobs, Work(j) \/ Cancel(j)
      PROVE  FALSE
  BY <1>4 DEF Work, Cancel, Only
<1>5. ASSUME CallProvider \/ Transport \/ Assemble \/ Encoder \/ MuxFails
               \/ Condition \/ EditReferences
      PROVE  FALSE
  BY <1>5
     DEF CallProvider, Transport, Assemble, Encoder, MuxFails, Condition, EditReferences,
         Only
<1> QED
  BY <1>1, <1>2, <1>3, <1>4, <1>5 DEF Next

LEMMA ProviderStep ==
    ASSUME medium = "remote", [Next]_vars
    PROVE  medium' = "remote" /\ (Provider!Next \/ UNCHANGED Provider!vars)
<1>1. CASE CallProvider \/ Transport
  BY <1>1 DEF CallProvider, Transport, Only, Provider!Next
<1>2. CASE UNCHANGED vars
  BY <1>2 DEF vars, providerVars, Provider!vars
<1>3. CASE Rest
  BY <1>3, <1>2 DEF Rest
<1>4. ASSUME NEW j \in Jobs, Work(j) \/ Cancel(j)
      PROVE  FALSE
  BY <1>4 DEF Work, Cancel, Only
<1>5. ASSUME Speak \/ CancelSpeech \/ Assemble \/ Encoder \/ MuxFails
               \/ Condition \/ EditReferences
      PROVE  FALSE
  BY <1>5 DEF Speak, CancelSpeech, Assemble, Encoder, MuxFails, Condition, EditReferences, Only
<1> QED
  BY <1>1, <1>2, <1>3, <1>4, <1>5 DEF Next

LEMMA AssemblyStep ==
    ASSUME medium = "assembly", [Next]_vars
    PROVE  medium' = "assembly" /\ (Assembly!Next \/ UNCHANGED Assembly!vars)
<1>1. CASE Assemble \/ Encoder \/ MuxFails
  BY <1>1 DEF Assemble, Encoder, MuxFails, Only, Assembly!Next
<1>2. CASE UNCHANGED vars
  BY <1>2 DEF vars, assemblyVars, Assembly!vars, Assembly!timeline
<1>3. CASE Rest
  BY <1>3, <1>2 DEF Rest
<1>4. ASSUME NEW j \in Jobs, Work(j) \/ Cancel(j)
      PROVE  FALSE
  BY <1>4 DEF Work, Cancel, Only
<1>5. ASSUME Speak \/ CancelSpeech \/ CallProvider \/ Transport \/ Condition
               \/ EditReferences
      PROVE  FALSE
  BY <1>5 DEF Speak, CancelSpeech, CallProvider, Transport, Condition, EditReferences, Only
<1> QED
  BY <1>1, <1>2, <1>3, <1>4, <1>5 DEF Next

LEMMA ReferencesStep ==
    ASSUME medium = "references", [Next]_vars
    PROVE  medium' = "references" /\ (Refs!Serve \/ Refs!Edit \/ UNCHANGED Refs!vars)
<1>1. CASE Condition \/ EditReferences
  BY <1>1 DEF Condition, EditReferences, Only
<1>2. CASE UNCHANGED vars
  BY <1>2 DEF vars, referenceVars, Refs!vars
<1>3. CASE Rest
  BY <1>3, <1>2 DEF Rest
<1>4. ASSUME NEW j \in Jobs, Work(j) \/ Cancel(j)
      PROVE  FALSE
  BY <1>4 DEF Work, Cancel, Only
<1>5. ASSUME Speak \/ CancelSpeech \/ CallProvider \/ Transport \/ Assemble
               \/ Encoder \/ MuxFails
      PROVE  FALSE
  BY <1>5 DEF Speak, CancelSpeech, CallProvider, Transport, Assemble, Encoder, MuxFails, Only
<1> QED
  BY <1>1, <1>2, <1>3, <1>4, <1>5 DEF Next

-----------------------------------------------------------------------------
(* References of an image job.                                              *)

\* The instance's finite sets are those of the library's theorems.
LEMMA RefsFinite ==
    ASSUME NEW S
    PROVE  Refs!IsFiniteSet(S) = IsFiniteSet(S)
BY DEF Refs!IsFiniteSet, IsFiniteSet

LEMMA RefsCardinality ==
    ASSUME NEW S
    PROVE  Refs!Cardinality(S) = Cardinality(S)
BY DEF Refs!Cardinality, Cardinality

\* A choice among references of which there are not two is all of them.
LEMMA OneReference ==
    ASSUME NEW refs, IsFiniteSet(refs), ~(Cardinality(refs) > 1), NEW r \in refs
    PROVE  refs = {r}
<1>1. Cardinality(refs) \in Nat /\ Cardinality(refs) # 0
  BY FS_CardinalityType, FS_EmptySet
<1>2. Cardinality(refs) = 1
  BY <1>1
<1>3. PICK x : refs = {x}
  BY <1>2, FS_Singleton
<1> QED
  BY <1>3

LEMMA NoneIsNoReference == Refs!None \notin References
BY ReferencesAssumption DEF Refs!None

LEMMA ReferencesInit == Init /\ medium = "references" => Refs!ReferencesInv
<1> SUFFICES ASSUME Init, medium = "references"
             PROVE  Refs!ReferencesInv
  OBVIOUS
<1>1. Refs!Init
  BY DEF Init
<1>2. \A n, T : T \in Refs!AtMost(n, References) => T \subseteq References /\ IsFiniteSet(T)
  BY RefsFinite DEF Refs!AtMost
<1>3. /\ job \in [project : Projects, refs : SUBSET References, steps : 1..MaxSteps,
                  clash : BOOLEAN, img2img : BOOLEAN]
      /\ IsFiniteSet(job.refs)
  BY <1>1, <1>2 DEF Refs!Init
<1>4. bible \subseteq References /\ IsFiniteSet(bible)
  BY <1>1, <1>2 DEF Refs!Init
<1>5. store \in [Assets -> Refs!Kinds] /\ chosenAs \in Refs!Kinds
  BY <1>1 DEF Refs!Init, Refs!Kinds
<1>6. /\ pc = "queued" /\ primary = Refs!None /\ primary \in References \cup {Refs!None}
      /\ applied = FALSE /\ denoise = 0 /\ denoise \in 0..MaxSteps
  BY <1>1, ReferencesAssumption DEF Refs!Init
<1>7. Refs!TypeOK
  BY <1>3, <1>4, <1>5, <1>6 DEF Refs!TypeOK
<1> QED
  BY <1>3, <1>4, <1>6, <1>7, RefsFinite DEF Refs!ReferencesInv

\* An edit changes neither the job nor what was chosen for it.
LEMMA EditKeeps == Refs!ReferencesInv /\ Refs!Edit => Refs!ReferencesInv'
<1> SUFFICES ASSUME Refs!ReferencesInv, Refs!Edit
             PROVE  Refs!ReferencesInv'
  OBVIOUS
<1>1. UNCHANGED <<job, pc, primary, chosenAs, applied, denoise>>
  BY DEF Refs!Edit, Refs!EditBible, Refs!DeleteAsset
<1>2. bible' \subseteq References /\ IsFiniteSet(bible')
  <2>1. CASE Refs!EditBible
    BY <2>1, RefsFinite DEF Refs!EditBible, Refs!AtMost
  <2>2. CASE UNCHANGED bible
    BY <2>2, RefsFinite DEF Refs!ReferencesInv, Refs!TypeOK
  <2> QED
    BY <2>1, <2>2 DEF Refs!Edit, Refs!DeleteAsset
<1>3. store' \in [Assets -> Refs!Kinds]
  BY DEF Refs!Edit, Refs!EditBible, Refs!DeleteAsset, Refs!ReferencesInv, Refs!TypeOK,
         Refs!Kinds
<1>4. Refs!TypeOK'
  <2>1. Refs!TypeOK
    BY DEF Refs!ReferencesInv
  <2> QED
    BY <1>1, <1>2, <1>3, <2>1 DEF Refs!TypeOK
<1> QED
  BY <1>1, <1>2, <1>4, RefsFinite DEF Refs!ReferencesInv, Refs!Effective

LEMMA ResolveKeeps == Refs!ReferencesInv /\ Refs!Resolve => Refs!ReferencesInv'
<1> SUFFICES ASSUME Refs!ReferencesInv, Refs!Resolve
             PROVE  Refs!ReferencesInv'
  OBVIOUS
<1> DEFINE refs == Refs!Effective(Refs!Considered)
<1>1. UNCHANGED <<job, bible, store, applied, denoise>> /\ pc = "queued"
  BY DEF Refs!Resolve
<1>2. refs \subseteq References /\ IsFiniteSet(refs) /\ Refs!Effective(job.refs) \subseteq refs
  <2>1. Refs!Considered \subseteq References
    BY DEF Refs!Considered, Refs!ReferencesInv, Refs!TypeOK
  <2>2. IsFiniteSet(Refs!Considered)
    <3>1. IsFiniteSet(job.refs) /\ IsFiniteSet(bible)
      BY RefsFinite DEF Refs!ReferencesInv
    <3> QED
      BY <3>1, FS_Union, Zenon DEF Refs!Considered
  <2>3. refs \subseteq Refs!Considered
    BY DEF Refs!Effective
  <2>4. Refs!Effective(job.refs) \subseteq refs
    BY DEF Refs!Effective, Refs!Considered
  <2> QED
    BY <2>1, <2>2, <2>3, <2>4, FS_Subset
<1>3. CASE refs = {} /\ pc' = "resolved" /\ UNCHANGED <<primary, chosenAs>>
  <2>1. Refs!TypeOK'
    BY <1>1, <1>3 DEF Refs!ReferencesInv, Refs!TypeOK
  <2> QED
    BY <1>1, <1>2, <1>3, <2>1 DEF Refs!ReferencesInv, Refs!Effective
<1>4. CASE pc' = "refused" /\ UNCHANGED <<primary, chosenAs>>
  <2>1. Refs!TypeOK'
    BY <1>1, <1>4 DEF Refs!ReferencesInv, Refs!TypeOK
  <2> QED
    BY <1>1, <1>4, <2>1 DEF Refs!ReferencesInv, Refs!Effective
<1>5. ASSUME NEW r \in refs, ~Refs!CannotCondition(refs), ~Refs!AssetRefused(r),
             pc' = "resolved", primary' = r, chosenAs' = store[r.asset]
      PROVE  Refs!ReferencesInv'
  <2>1. refs = {r}
    <3>1. ~(Cardinality(refs) > 1)
      BY <1>5, RefsCardinality DEF Refs!CannotCondition
    <3> QED
      BY <1>2, <1>5, <3>1, OneReference
  <2>2. Refs!Effective(job.refs) \subseteq {r}
    BY <1>2, <2>1
  <2>3. r \in References /\ r # Refs!None
    BY <1>2, NoneIsNoReference
  <2>4. store[r.asset] \in Refs!Kinds
    BY <2>3, ReferencesAssumption DEF Refs!ReferencesInv, Refs!TypeOK
  <2>5. store[r.asset] = [project |-> job.project, media |-> "image"]
    BY <1>5, <2>4 DEF Refs!AssetRefused, Refs!Kinds
  <2>6. Refs!TypeOK'
    BY <1>1, <1>5, <2>3, <2>4 DEF Refs!ReferencesInv, Refs!TypeOK
  <2> QED
    BY <1>1, <1>5, <2>2, <2>3, <2>5, <2>6 DEF Refs!ReferencesInv, Refs!Effective
<1> QED
  BY <1>3, <1>4, <1>5 DEF Refs!Resolve

\* int(num_inference_steps * (1 - strength)) is at most num_inference_steps.
LEMMA DenoisingStepsType ==
    ASSUME Refs!TypeOK, primary # Refs!None
    PROVE  Refs!DenoisingSteps \in 0..MaxSteps
<1>1. PICK s \in 1..MaxSteps : job.steps = s
  BY DEF Refs!TypeOK
<1>2. PICK k \in 0..10 : primary.strength = k
  BY ReferencesAssumption DEF Refs!TypeOK
<1>3. (s * (10 - k)) \div 10 \in 0..s
  <2>1. s * (10 - k) \in 0..(s * 10)
    BY <1>1, <1>2, ReferencesAssumption
  <2> QED
    BY <2>1, ReferencesAssumption
<1> QED
  BY <1>1, <1>2, <1>3, ReferencesAssumption DEF Refs!DenoisingSteps

LEMMA InspectKeeps == Refs!ReferencesInv /\ Refs!Inspect => Refs!ReferencesInv'
<1> SUFFICES ASSUME Refs!ReferencesInv, Refs!Inspect
             PROVE  Refs!ReferencesInv'
  OBVIOUS
<1>1. UNCHANGED <<job, bible, store, primary, chosenAs>> /\ pc = "resolved"
  BY DEF Refs!Inspect
<1>2. CASE pc' = "refused" /\ UNCHANGED <<applied, denoise>>
  <2>1. Refs!TypeOK'
    BY <1>1, <1>2 DEF Refs!ReferencesInv, Refs!TypeOK
  <2> QED
    BY <1>1, <1>2, <2>1 DEF Refs!ReferencesInv, Refs!Effective
<1>3. CASE /\ ~Refs!InspectionRefuses /\ Refs!ReferenceCapable
           /\ pc' = "generating" /\ applied' = TRUE /\ denoise' = Refs!DenoisingSteps
  <2>1. primary # Refs!None /\ denoise' \in 0..MaxSteps /\ denoise' >= 1
    BY <1>3, DenoisingStepsType, ReferencesAssumption
       DEF Refs!InspectionRefuses, Refs!ReferenceCapable, Refs!ReferencesInv
  <2>2. Refs!TypeOK'
    BY <1>1, <1>3, <2>1 DEF Refs!ReferencesInv, Refs!TypeOK
  <2> QED
    BY <1>1, <1>3, <2>1, <2>2 DEF Refs!ReferencesInv, Refs!Effective
<1>4. CASE /\ ~Refs!InspectionRefuses /\ ~Refs!ReferenceCapable
           /\ pc' = "generating" /\ applied' = FALSE /\ denoise' = job.steps
  <2>1. primary = Refs!None
    BY <1>4 DEF Refs!InspectionRefuses
  <2>2. denoise' \in 0..MaxSteps
    BY <1>4, ReferencesAssumption DEF Refs!ReferencesInv, Refs!TypeOK
  <2>3. Refs!TypeOK'
    BY <1>1, <1>4, <2>2 DEF Refs!ReferencesInv, Refs!TypeOK
  <2> QED
    BY <1>1, <1>4, <2>1, <2>3 DEF Refs!ReferencesInv, Refs!Effective
<1>5. Refs!ReferenceCapable \in BOOLEAN
  BY DEF Refs!ReferenceCapable, Refs!ReferencesInv, Refs!TypeOK
<1> QED
  BY <1>2, <1>3, <1>4, <1>5 DEF Refs!Inspect

LEMMA ReferencesKept ==
    medium = "references" /\ Refs!ReferencesInv /\ [Next]_vars =>
        (medium = "references" /\ Refs!ReferencesInv)'
<1> SUFFICES ASSUME medium = "references", Refs!ReferencesInv, [Next]_vars
             PROVE  (medium = "references" /\ Refs!ReferencesInv)'
  OBVIOUS
<1>1. CASE UNCHANGED Refs!vars
  <2>1. Refs!TypeOK'
    BY <1>1 DEF Refs!vars, Refs!ReferencesInv, Refs!TypeOK
  <2> QED
    BY <1>1, <2>1, ReferencesStep DEF Refs!vars, Refs!ReferencesInv, Refs!Effective
<1> QED
  BY <1>1, ReferencesStep, EditKeeps, ResolveKeeps, InspectKeeps DEF Refs!Serve

\* What the composite properties ask of the references of a job.
LEMMA ReferencesConsequences ==
    ASSUME Refs!ReferencesInv
    PROVE  Refs!NeverSilentlyDropped /\ Refs!OnlyOwnImagesApplied /\ Refs!ConditioningIsSound
<1>1. Refs!NeverSilentlyDropped
  <2> SUFFICES ASSUME pc = "generating", ~applied, NEW r \in job.refs
               PROVE  r.strength = 0
    BY DEF Refs!NeverSilentlyDropped
  <2>1. Refs!Effective(job.refs) = {}
    BY DEF Refs!ReferencesInv
  <2>2. r \in References
    BY DEF Refs!ReferencesInv, Refs!TypeOK, Refs!AtMost
  <2>3. r.strength \in 0..10
    BY <2>2, ReferencesAssumption
  <2> QED
    BY <2>1, <2>3 DEF Refs!Effective
<1>2. Refs!OnlyOwnImagesApplied
  BY DEF Refs!ReferencesInv, Refs!OnlyOwnImagesApplied
<1>3. Refs!ConditioningIsSound
  BY DEF Refs!ReferencesInv, Refs!ConditioningIsSound, Refs!Effective
<1> QED
  BY <1>1, <1>2, <1>3

-----------------------------------------------------------------------------
(* A request to a provider.                                                 *)

LEMMA ProviderInit == Init /\ medium = "remote" => Provider!ProviderInv
<1> SUFFICES ASSUME Init, medium = "remote"
             PROVE  Provider!ProviderInv
  OBVIOUS
<1>1. Provider!Init
  BY DEF Init
<1>2. /\ pc = "new" /\ current = 0 /\ slept = <<>> /\ verdicts = <<>> /\ answer = 0
      /\ raised = Provider!NoError /\ disclosed = FALSE
      /\ thread = [a \in Provider!Attempts |-> "unborn"]
      /\ error = [a \in Provider!Attempts |-> Provider!NoError]
      /\ call \in Provider!CallSpace /\ (call.kind = "audio" => ~call.local)
  BY <1>1 DEF Provider!Init
<1>3. Len(slept) = 0 /\ Len(verdicts) = 0 /\ DOMAIN slept = {} /\ DOMAIN verdicts = {}
  BY <1>2
<1>4. Provider!TypeOK
  <2>1. 0 \in 0..(MaxRetries + 1) /\ Len(slept) <= MaxRetries
    BY <1>3, PolicyAssumption
  <2>2. slept \in Seq(Int) /\ verdicts \in Seq(Provider!Categories \cup {"foreign", "interrupt"})
    BY <1>2
  <2>3. \A a \in Provider!Attempts : error[a] = Provider!NoError
    BY <1>2
  <2>4. thread \in [Provider!Attempts -> {"unborn", "running", "answered", "raised"}]
    BY <1>2
  <2> QED
    BY <1>2, <2>1, <2>2, <2>3, <2>4 DEF Provider!TypeOK, Provider!Ends
<1>5. Provider!CountsAgree
  BY <1>2, <1>3, PolicyAssumption DEF Provider!CountsAgree, Provider!Justified, Provider!Ends
<1>6. Provider!ThreadsArePermitted
  BY <1>2 DEF Provider!ThreadsArePermitted
<1>7. Provider!NoLateAnswer /\ Provider!BackoffIsBounded /\ Provider!AudioErrorsAreClean
  BY <1>2, <1>3 DEF Provider!NoLateAnswer, Provider!BackoffIsBounded,
                    Provider!AudioErrorsAreClean
<1>8. DOMAIN error = Provider!Attempts
  BY <1>2
<1> QED
  BY <1>4, <1>5, <1>6, <1>7, <1>8 DEF Provider!ProviderInv

\* Refused or let through, the request has no thread yet.
LEMMA GateKeeps == Provider!ProviderInv /\ Provider!Gate => Provider!ProviderInv'
<1> SUFFICES ASSUME Provider!ProviderInv, Provider!Gate
             PROVE  Provider!ProviderInv'
  OBVIOUS
<1>1. /\ pc = "new" /\ pc' = (IF Provider!Permitted THEN "ready" ELSE "error")
      /\ disclosed' = (call.kind = "image" /\ ~Provider!ImageCredentialRefused)
      /\ UNCHANGED <<call, thread, error, current, slept, verdicts, answer, raised>>
  BY DEF Provider!Gate
<1>2. Provider!TypeOK'
  BY <1>1 DEF Provider!ProviderInv, Provider!TypeOK, Provider!Ends
<1>3. Provider!CountsAgree'
  BY <1>1 DEF Provider!ProviderInv, Provider!CountsAgree, Provider!Justified, Provider!Ends
<1>4. \A a \in Provider!Attempts : thread[a] = "unborn"
  BY <1>1 DEF Provider!ProviderInv, Provider!ThreadsArePermitted
<1>5. Provider!ThreadsArePermitted'
  <2>1. Provider!Permitted' = Provider!Permitted
    BY <1>1 DEF Provider!Permitted, Provider!ImageGate, Provider!AudioGate,
                Provider!ImageCredentialRefused, Provider!AudioCredentialRefused,
                Provider!ImageOptIn, Provider!AudioOptIn
  <2>2. Provider!Permitted => disclosed' = (call.kind = "image")
    BY <1>1 DEF Provider!Permitted, Provider!ImageGate
  <2>3. /\ pc' # "new" /\ \A a \in Provider!Attempts : thread'[a] = "unborn"
        /\ pc' \in {"ready", "waiting", "backoff"} => Provider!Permitted
    BY <1>1, <1>4
  <2>4. call'.kind = "audio" => ~call'.local
    BY <1>1 DEF Provider!ProviderInv, Provider!ThreadsArePermitted
  <2>5. pc' \in {"ready", "waiting", "backoff"} =>
            Provider!Permitted' /\ disclosed' = (call'.kind = "image")
    BY <1>1, <2>1, <2>2, <2>3
  <2> QED
    BY <2>3, <2>4, <2>5 DEF Provider!ThreadsArePermitted
<1>6. (Provider!NoLateAnswer /\ Provider!BackoffIsBounded /\ Provider!AudioErrorsAreClean)'
  <2>1. raised.words = {} /\ raised.id = {}
    BY <1>1 DEF Provider!ProviderInv, Provider!CountsAgree, Provider!NoError
  <2> QED
    BY <1>1, <2>1 DEF Provider!ProviderInv, Provider!NoLateAnswer, Provider!BackoffIsBounded,
                      Provider!AudioErrorsAreClean
<1> QED
  BY <1>1, <1>2, <1>3, <1>5, <1>6 DEF Provider!ProviderInv

\* What was let through stays let through: no step touches the request.
LEMMA PermittedKept ==
    UNCHANGED <<call, disclosed>> =>
        Provider!Permitted' = Provider!Permitted /\ UNCHANGED disclosed
BY DEF Provider!Permitted, Provider!ImageGate, Provider!AudioGate,
       Provider!ImageCredentialRefused, Provider!AudioCredentialRefused,
       Provider!ImageOptIn, Provider!AudioOptIn

LEMMA StartAttemptKeeps == Provider!ProviderInv /\ Provider!StartAttempt => Provider!ProviderInv'
<1> SUFFICES ASSUME Provider!ProviderInv, Provider!StartAttempt
             PROVE  Provider!ProviderInv'
  OBVIOUS
<1>1. /\ pc = "ready" /\ pc' = "waiting" /\ current' = current + 1
      /\ thread' = [thread EXCEPT ![current + 1] = "running"]
      /\ UNCHANGED <<call, error, slept, verdicts, answer, raised, disclosed>>
  BY DEF Provider!StartAttempt
<1>2. /\ current \in 0..MaxRetries /\ current' \in 1..(MaxRetries + 1)
      /\ current' \in Provider!Attempts /\ current' - 1 = current
  BY <1>1, PolicyAssumption DEF Provider!ProviderInv, Provider!TypeOK, Provider!CountsAgree,
                                Provider!Attempts
<1>3. /\ thread' \in [Provider!Attempts -> {"unborn", "running", "answered", "raised"}]
      /\ \A a \in Provider!Attempts : thread'[a] = "raised" => thread[a] = "raised"
  BY <1>1, <1>2 DEF Provider!ProviderInv, Provider!TypeOK
<1>4. Provider!TypeOK'
  BY <1>1, <1>2, <1>3, PolicyAssumption DEF Provider!ProviderInv, Provider!TypeOK, Provider!Ends
<1>5. Provider!CountsAgree'
  BY <1>1, <1>2 DEF Provider!ProviderInv, Provider!CountsAgree, Provider!Justified, Provider!Ends
<1>6. Provider!ThreadsArePermitted'
  BY <1>1, <1>3, PermittedKept DEF Provider!ProviderInv, Provider!ThreadsArePermitted
<1>7. (Provider!NoLateAnswer /\ Provider!BackoffIsBounded /\ Provider!AudioErrorsAreClean)'
  BY <1>1 DEF Provider!ProviderInv, Provider!NoLateAnswer, Provider!BackoffIsBounded,
              Provider!AudioErrorsAreClean
<1> QED
  BY <1>1, <1>4, <1>5, <1>6, <1>7 DEF Provider!ProviderInv

\* A transport that ends, in time or late, changes the state of its own thread.
LEMMA TransportKeeps ==
    ASSUME NEW a \in Provider!Attempts, Provider!ProviderInv,
           Provider!TransportAnswers(a) \/ Provider!TransportRaises(a)
    PROVE  Provider!ProviderInv'
<1>1. /\ thread[a] = "running"
      /\ UNCHANGED <<call, pc, current, slept, verdicts, answer, raised, disclosed>>
  BY DEF Provider!TransportAnswers, Provider!TransportRaises
<1>2. PICK o \in {"answered", "raised"} : thread' = [thread EXCEPT ![a] = o]
  BY DEF Provider!TransportAnswers, Provider!TransportRaises
<1>3. /\ DOMAIN error' = Provider!Attempts
      /\ \A b \in Provider!Attempts :
            error'[b] = error[b] \/ (b = a /\ error'[b] \in TransportErrors)
      /\ o = "raised" => error'[a] \in TransportErrors
  <2>1. CASE Provider!TransportAnswers(a)
    <3>1. thread'[a] = "answered"
      BY <2>1 DEF Provider!TransportAnswers, Provider!ProviderInv, Provider!TypeOK
    <3>2. o # "raised"
      BY <1>2, <3>1 DEF Provider!ProviderInv, Provider!TypeOK
    <3> QED
      BY <2>1, <3>2 DEF Provider!TransportAnswers, Provider!ProviderInv
  <2>2. CASE Provider!TransportRaises(a)
    <3>1. PICK e \in TransportErrors : error' = [error EXCEPT ![a] = e]
      BY <2>2 DEF Provider!TransportRaises
    <3> QED
      BY <3>1 DEF Provider!ProviderInv
  <2> QED
    BY <2>1, <2>2
<1>4. /\ thread' \in [Provider!Attempts -> {"unborn", "running", "answered", "raised"}]
      /\ thread'[a] = o /\ \A b \in Provider!Attempts \ {a} : thread'[b] = thread[b]
  BY <1>2 DEF Provider!ProviderInv, Provider!TypeOK
<1>5. Provider!TypeOK'
  BY <1>1, <1>3, <1>4 DEF Provider!ProviderInv, Provider!TypeOK
<1>6. Provider!CountsAgree'
  BY <1>1 DEF Provider!ProviderInv, Provider!CountsAgree, Provider!Justified
<1>7. Provider!ThreadsArePermitted'
  <2>1. Provider!Permitted /\ disclosed = (call.kind = "image") /\ pc # "new"
    BY <1>1 DEF Provider!ProviderInv, Provider!ThreadsArePermitted
  <2>2. \A b \in Provider!Attempts : thread'[b] = "raised" => error'[b] \in TransportErrors
    BY <1>3, <1>4 DEF Provider!ProviderInv, Provider!ThreadsArePermitted
  <2> QED
    BY <1>1, <2>1, <2>2, PermittedKept DEF Provider!ProviderInv, Provider!ThreadsArePermitted
<1>8. Provider!NoLateAnswer'
  <2>1. pc = "returned" => current \in Provider!Attempts
    BY PolicyAssumption DEF Provider!ProviderInv, Provider!TypeOK, Provider!CountsAgree,
                            Provider!Attempts
  <2>2. pc = "returned" => thread'[current] = "answered"
    BY <1>1, <1>4, <2>1 DEF Provider!ProviderInv, Provider!NoLateAnswer
  <2> QED
    BY <1>1, <2>2 DEF Provider!ProviderInv, Provider!NoLateAnswer
<1>9. (Provider!BackoffIsBounded /\ Provider!AudioErrorsAreClean)'
  BY <1>1 DEF Provider!ProviderInv, Provider!BackoffIsBounded, Provider!AudioErrorsAreClean
<1> QED
  BY <1>3, <1>5, <1>6, <1>7, <1>8, <1>9 DEF Provider!ProviderInv

\* outcome is local to the attempt that is returned.
LEMMA ReturnKeeps == Provider!ProviderInv /\ Provider!Return => Provider!ProviderInv'
<1> SUFFICES ASSUME Provider!ProviderInv, Provider!Return
             PROVE  Provider!ProviderInv'
  OBVIOUS
<1>1. /\ pc = "waiting" /\ pc' = "returned"
      /\ UNCHANGED <<call, thread, error, current, slept, verdicts, raised, disclosed>>
      /\ answer' = current /\ thread[current] = "answered"
  BY DEF Provider!Return, Provider!AnswerOf
<1>2. Provider!TypeOK'
  BY <1>1 DEF Provider!ProviderInv, Provider!TypeOK, Provider!Ends
<1>3. Provider!CountsAgree'
  BY <1>1 DEF Provider!ProviderInv, Provider!CountsAgree, Provider!Justified, Provider!Ends
<1>4. Provider!ThreadsArePermitted'
  BY <1>1, PermittedKept DEF Provider!ProviderInv, Provider!ThreadsArePermitted
<1>5. (Provider!NoLateAnswer /\ Provider!BackoffIsBounded /\ Provider!AudioErrorsAreClean)'
  BY <1>1 DEF Provider!ProviderInv, Provider!NoLateAnswer, Provider!BackoffIsBounded,
              Provider!AudioErrorsAreClean
<1> QED
  BY <1>1, <1>2, <1>3, <1>4, <1>5 DEF Provider!ProviderInv

\* Whatever the provider asks for, and however often it failed.
LEMMA BackoffType ==
    ASSUME NEW e, IsError(e), current \in 1..(MaxRetries + 1)
    PROVE  Provider!Backoff(e) \in 0..Cap
<1>1. \A h \in Int : Provider!Greatest(0, Provider!Least(h, Cap)) \in 0..Cap
  BY PolicyAssumption DEF Provider!Greatest, Provider!Least
<1>2. CASE e.after # {}
  <2> DEFINE S == {Provider!Greatest(0, Provider!Least(h, Cap)) : h \in e.after}
  <2>1. S # {} /\ S \subseteq 0..Cap
    BY <1>1, <1>2 DEF IsError
  <2>2. (CHOOSE n \in S : TRUE) \in S
    BY <2>1
  <2> QED
    BY <1>2, <2>1, <2>2 DEF Provider!Backoff
<1>3. CASE e.after = {}
  <2>1. current - 1 \in 0..MaxRetries
    BY PolicyAssumption
  <2>2. Base * Multiplier^(current - 1) \in Nat
    BY <2>1, PolicyAssumption
  <2> DEFINE n == Base * Multiplier^(current - 1)
  <2> HIDE DEF n
  <2>3. n \in Nat => Provider!Least(n, Cap) \in 0..Cap
    BY PolicyAssumption DEF Provider!Least
  <2> QED
    BY <1>3, <2>2, <2>3 DEF Provider!Backoff, n
<1> QED
  BY <1>2, <1>3

\* Raise it, or sleep and try again.
LEMMA SettleKeeps ==
    ASSUME NEW e, IsError(e), Provider!ProviderInv, pc = "waiting", Provider!Settle(e),
           UNCHANGED <<call, thread, error, current, answer, disclosed>>
    PROVE  Provider!ProviderInv'
<1>1. /\ current \in 1..(MaxRetries + 1) /\ Len(verdicts) = current - 1
      /\ Len(slept) = current - 1 /\ Provider!Justified /\ raised = Provider!NoError
      /\ verdicts \in Seq(Provider!Categories \cup {"foreign", "interrupt"})
      /\ slept \in Seq(Int) /\ answer = 0
  BY PolicyAssumption
     DEF Provider!ProviderInv, Provider!TypeOK, Provider!CountsAgree, Provider!Ends
<1>2. /\ verdicts' = Append(verdicts, e.category)
      /\ verdicts' \in Seq(Provider!Categories \cup {"foreign", "interrupt"})
      /\ Len(verdicts') = current
  BY <1>1 DEF Provider!Settle, IsError
<1>3. Provider!ThreadsArePermitted'
  BY PermittedKept DEF Provider!ProviderInv, Provider!ThreadsArePermitted, Provider!Settle
<1>4. CASE Provider!GivesUp(e) /\ raised' = Provider!Leaves(e) /\ pc' = "error" /\ UNCHANGED slept
  <2>1. Provider!TypeOK'
    BY <1>2, <1>4 DEF Provider!ProviderInv, Provider!TypeOK, Provider!Ends
  <2>2. Provider!CountsAgree'
    BY <1>1, <1>4 DEF Provider!CountsAgree, Provider!Ends
  <2>3. Provider!AudioErrorsAreClean'
    <3>1. CASE call.kind = "audio" /\ e.category # "interrupt"
      <4>1. raised' = [e EXCEPT !.words = e.words \ {Secret}, !.id = e.id \ {Secret}]
        BY <1>4, <3>1 DEF Provider!Leaves, Provider!Redact
      <4>2. Secret \notin raised'.words /\ Secret \notin raised'.id
        BY <4>1 DEF IsError
      <4> QED
        BY <4>2 DEF Provider!AudioErrorsAreClean
    <3>2. CASE ~(call.kind = "audio" /\ e.category # "interrupt")
      BY <1>4, <3>2 DEF Provider!Leaves, Provider!AudioErrorsAreClean
    <3> QED
      BY <3>1, <3>2
  <2>4. (Provider!NoLateAnswer /\ Provider!BackoffIsBounded)'
    BY <1>4 DEF Provider!ProviderInv, Provider!NoLateAnswer, Provider!BackoffIsBounded
  <2> QED
    BY <1>3, <2>1, <2>2, <2>3, <2>4 DEF Provider!ProviderInv
<1>5. CASE /\ ~Provider!GivesUp(e) /\ slept' = Append(slept, Provider!Backoff(e))
           /\ pc' = "backoff" /\ UNCHANGED raised
  <2>1. Provider!Backoff(e) \in 0..Cap
    BY <1>1, BackoffType
  <2>2. /\ slept' \in Seq(Int) /\ Len(slept') = current
        /\ \A i \in DOMAIN slept' :
              slept'[i] = (IF i \in DOMAIN slept THEN slept[i] ELSE Provider!Backoff(e))
    BY <1>1, <1>5, <2>1, PolicyAssumption
  <2>3. current <= MaxRetries /\ e.category \in Provider!Retryable
    BY <1>1, <1>5, PolicyAssumption DEF Provider!GivesUp
  <2>4. Provider!TypeOK'
    BY <1>2, <1>5, <2>2, <2>3 DEF Provider!ProviderInv, Provider!TypeOK
  <2>5. Provider!Justified'
    BY <1>1, <1>2, <2>3 DEF Provider!Justified
  <2>6. Provider!CountsAgree'
    BY <1>1, <1>2, <1>5, <2>2, <2>3, <2>5 DEF Provider!CountsAgree
  <2>7. Provider!BackoffIsBounded'
    BY <2>1, <2>2 DEF Provider!ProviderInv, Provider!BackoffIsBounded
  <2>8. (Provider!NoLateAnswer /\ Provider!AudioErrorsAreClean)'
    BY <1>5 DEF Provider!NoLateAnswer, Provider!AudioErrorsAreClean
  <2> QED
    BY <1>3, <2>4, <2>6, <2>7, <2>8 DEF Provider!ProviderInv
<1> QED
  BY <1>4, <1>5 DEF Provider!Settle

LEMMA AttemptFailsKeeps == Provider!ProviderInv /\ Provider!AttemptFails => Provider!ProviderInv'
<1> SUFFICES ASSUME Provider!ProviderInv, Provider!AttemptFails
             PROVE  Provider!ProviderInv'
  OBVIOUS
<1>1. /\ pc = "waiting" /\ thread[current] = "raised"
      /\ UNCHANGED <<call, thread, error, current, answer, disclosed>>
  BY DEF Provider!AttemptFails
<1>2. current \in Provider!Attempts
  BY <1>1, PolicyAssumption DEF Provider!ProviderInv, Provider!TypeOK, Provider!CountsAgree,
                                Provider!Attempts
<1>3. error[current] \in TransportErrors
  BY <1>1, <1>2 DEF Provider!ProviderInv, Provider!ThreadsArePermitted
<1>4. CASE call.local /\ raised' = error[current] /\ pc' = "error" /\ UNCHANGED <<slept, verdicts>>
  <2>1. Provider!TypeOK'
    BY <1>1, <1>4 DEF Provider!ProviderInv, Provider!TypeOK, Provider!Ends
  <2>2. Provider!CountsAgree'
    BY <1>1, <1>4 DEF Provider!ProviderInv, Provider!CountsAgree, Provider!Ends
  <2>3. Provider!ThreadsArePermitted' /\ call.kind # "audio"
    BY <1>1, <1>4, PermittedKept DEF Provider!ProviderInv, Provider!ThreadsArePermitted
  <2>4. (Provider!NoLateAnswer /\ Provider!BackoffIsBounded /\ Provider!AudioErrorsAreClean)'
    BY <1>1, <1>4, <2>3 DEF Provider!ProviderInv, Provider!NoLateAnswer,
                            Provider!BackoffIsBounded, Provider!AudioErrorsAreClean
  <2> QED
    BY <1>1, <2>1, <2>2, <2>3, <2>4 DEF Provider!ProviderInv
<1>5. CASE Provider!Settle(error[current])
  BY <1>1, <1>3, <1>5, SettleKeeps, PolicyAssumption DEF IsError
<1> QED
  BY <1>4, <1>5 DEF Provider!AttemptFails

LEMMA TimeOutKeeps == Provider!ProviderInv /\ Provider!TimeOut => Provider!ProviderInv'
<1> SUFFICES ASSUME Provider!ProviderInv, Provider!TimeOut
             PROVE  Provider!ProviderInv'
  OBVIOUS
<1>1. IsError(Provider!TimedOut)
  BY DEF IsError, Provider!TimedOut, Provider!Categories, Provider!Retryable
<1>2. /\ pc = "waiting" /\ Provider!Settle(Provider!TimedOut)
      /\ UNCHANGED <<call, thread, error, current, answer, disclosed>>
  BY DEF Provider!TimeOut
<1> QED
  BY <1>1, <1>2, SettleKeeps

LEMMA WakeUpKeeps == Provider!ProviderInv /\ Provider!WakeUp => Provider!ProviderInv'
<1> SUFFICES ASSUME Provider!ProviderInv, Provider!WakeUp
             PROVE  Provider!ProviderInv'
  OBVIOUS
<1>1. /\ pc = "backoff" /\ pc' = "ready"
      /\ UNCHANGED <<call, thread, error, current, slept, verdicts, answer, raised, disclosed>>
  BY DEF Provider!WakeUp
<1>2. Provider!TypeOK'
  BY <1>1 DEF Provider!ProviderInv, Provider!TypeOK
<1>3. Provider!CountsAgree'
  BY <1>1 DEF Provider!ProviderInv, Provider!CountsAgree, Provider!Justified, Provider!Ends
<1>4. Provider!ThreadsArePermitted'
  BY <1>1, PermittedKept DEF Provider!ProviderInv, Provider!ThreadsArePermitted
<1>5. (Provider!NoLateAnswer /\ Provider!BackoffIsBounded /\ Provider!AudioErrorsAreClean)'
  BY <1>1 DEF Provider!ProviderInv, Provider!NoLateAnswer, Provider!BackoffIsBounded,
              Provider!AudioErrorsAreClean
<1> QED
  BY <1>1, <1>2, <1>3, <1>4, <1>5 DEF Provider!ProviderInv

LEMMA ProviderKept ==
    medium = "remote" /\ Provider!ProviderInv /\ [Next]_vars =>
        (medium = "remote" /\ Provider!ProviderInv)'
<1> SUFFICES ASSUME medium = "remote", Provider!ProviderInv, [Next]_vars
             PROVE  (medium = "remote" /\ Provider!ProviderInv)'
  OBVIOUS
<1>1. medium' = "remote" /\ (Provider!Next \/ UNCHANGED Provider!vars)
  BY ProviderStep
<1>2. CASE UNCHANGED Provider!vars
  <2>1. UNCHANGED <<call, pc, thread, error, current, slept, verdicts, answer, raised, disclosed>>
    BY <1>2 DEF Provider!vars
  <2>2. Provider!TypeOK' /\ Provider!CountsAgree'
    BY <2>1 DEF Provider!ProviderInv, Provider!TypeOK, Provider!CountsAgree, Provider!Justified
  <2>3. Provider!ThreadsArePermitted'
    BY <2>1, PermittedKept DEF Provider!ProviderInv, Provider!ThreadsArePermitted
  <2>4. (Provider!NoLateAnswer /\ Provider!BackoffIsBounded /\ Provider!AudioErrorsAreClean)'
    BY <2>1 DEF Provider!ProviderInv, Provider!NoLateAnswer, Provider!BackoffIsBounded,
                Provider!AudioErrorsAreClean
  <2> QED
    BY <1>1, <2>1, <2>2, <2>3, <2>4 DEF Provider!ProviderInv
<1>3. CASE Provider!Caller
  BY <1>1, <1>3, GateKeeps, StartAttemptKeeps, ReturnKeeps, AttemptFailsKeeps, TimeOutKeeps,
     WakeUpKeeps DEF Provider!Caller
<1>4. CASE Provider!Over
  BY <1>1, <1>2, <1>4 DEF Provider!Over
<1>5. ASSUME NEW a \in Provider!Attempts, Provider!TransportAnswers(a) \/ Provider!TransportRaises(a)
      PROVE  Provider!ProviderInv'
  BY <1>5, TransportKeeps
<1> QED
  BY <1>1, <1>2, <1>3, <1>4, <1>5 DEF Provider!Next

\* A second attempt: every one before it failed in a way worth a retry.
LEMMA RetriesStep ==
    ASSUME medium = "remote", Provider!ProviderInv, [Next]_vars
    PROVE  Provider!RetriesAreJustified
<1>1. CASE UNCHANGED current
  BY <1>1 DEF Provider!RetriesAreJustified, Provider!ProviderInv, Provider!TypeOK
<1>2. CASE Provider!StartAttempt
  BY <1>2 DEF Provider!StartAttempt, Provider!RetriesAreJustified, Provider!ProviderInv,
              Provider!CountsAgree, Provider!Justified, Provider!Ends
<1> QED
  BY <1>1, <1>2, ProviderStep
     DEF Provider!Next, Provider!Caller, Provider!Gate, Provider!Return, Provider!AttemptFails,
         Provider!TimeOut, Provider!WakeUp, Provider!Over, Provider!TransportAnswers,
         Provider!TransportRaises, Provider!vars

\* No thread is started for a request its gate refuses.
LEMMA ProviderConsequences ==
    ASSUME Provider!ProviderInv
    PROVE  /\ Provider!NoLateAnswer /\ Provider!ConsentBeforeSending
           /\ Provider!AudioErrorsAreClean /\ Provider!BackoffIsBounded /\ Provider!TypeOK
<1>1. call.kind \in {"image", "audio"}
  BY DEF Provider!ProviderInv, Provider!TypeOK, Provider!CallSpace, Provider!Kinds
<1>2. Provider!ConsentBeforeSending
  BY <1>1 DEF Provider!ProviderInv, Provider!ThreadsArePermitted, Provider!Permitted,
              Provider!ImageGate, Provider!AudioGate, Provider!ImageOptIn,
              Provider!AudioOptIn, Provider!ConsentBeforeSending
<1> QED
  BY <1>2 DEF Provider!ProviderInv

-----------------------------------------------------------------------------
(* A delivery of the assembly generator.                                    *)

LEMMA AssemblyCardinality ==
    ASSUME NEW S
    PROVE  Assembly!Cardinality(S) = Cardinality(S)
BY DEF Assembly!Cardinality, Cardinality

\* frame_count = max(1, ...) of a scene.
LEMMA SceneFramesType ==
    ASSUME NEW d \in Int, NEW r \in Int
    PROVE  Assembly!SceneFrames(d, Assembly!Fps(r)) \in Nat \ {0}
<1>1. Assembly!Fps(r) \in Int
  BY DEF Assembly!Fps
<1>2. \A f \in Int : Assembly!Rounded(d, f) \in Int
  <2> SUFFICES ASSUME NEW f \in Int
               PROVE  Assembly!Rounded(d, f) \in Int
    OBVIOUS
  <2>1. d * f \in Int
    OBVIOUS
  <2>2. \A n \in Int : n \div 100 \in Int
    OBVIOUS
  <2>3. (d * f) \div 100 \in Int
    BY <2>1, <2>2
  <2> QED
    BY <2>3 DEF Assembly!Rounded
<1> QED
  BY <1>1, <1>2 DEF Assembly!SceneFrames

\* The frames of all scenes are finitely many, and there is one.
LEMMA FramesOfScenes ==
    ASSUME Assembly!TimelineIsAdmitted
    PROVE  /\ Assembly!FrameCountOfClips \in Nat \ {0}
           /\ Assembly!FrameTotal \in Nat
<1> DEFINE k(i) == Assembly!SceneFrames(scenes[i], Assembly!Fps(rate))
           pictures(i) == {i} \X (1..k(i))
<1> HIDE DEF pictures
<1>1. PICK n \in 1..MaxScenes + 1 : scenes \in [1..n -> Durations]
  BY DEF Assembly!TimelineIsAdmitted
<1>2. n \in Nat \ {0} /\ DOMAIN scenes = 1..n
  BY <1>1, TimelineAssumption
<1>3. ASSUME NEW i \in 1..n
      PROVE  k(i) \in Nat \ {0}
  <2>1. scenes[i] \in Durations
    BY <1>1, <1>3
  <2>2. rate \in TimelineRates
    BY DEF Assembly!TimelineIsAdmitted
  <2>3. scenes[i] \in Int /\ rate \in Int
    <3>1. scenes[i] \in Nat /\ rate \in Int
      BY <2>1, <2>2, TimelineAssumption
    <3> QED
      BY <3>1
  <2>4. Assembly!SceneFrames(scenes[i], Assembly!Fps(rate)) \in Nat \ {0}
    BY <2>3, SceneFramesType
  <2> QED
    BY <2>4
<1> HIDE DEF k
<1>4. ASSUME NEW S \in SUBSET (1..n)
      PROVE  IsFiniteSet(Assembly!FramesOf(S))
  <2>1. IsFiniteSet(S)
    <3>1. IsFiniteSet(1..n)
      BY <1>2, FS_Interval
    <3> QED
      BY <3>1, FS_Subset
  <2>2. ASSUME NEW i \in S
        PROVE  IsFiniteSet(pictures(i))
    <3>1. k(i) \in Nat \ {0}
      BY <1>3
    <3>2. IsFiniteSet(1..k(i))
      BY <3>1, FS_Interval
    <3>3. IsFiniteSet({i})
      BY FS_Singleton
    <3> QED
      BY <3>2, <3>3, FS_Product DEF pictures
  <2>3. [i \in S |-> pictures(i)] \in Surjection(S, {pictures(i) : i \in S})
    BY DEF Surjection
  <2>4. IsFiniteSet({pictures(i) : i \in S})
    BY <2>1, <2>3, FS_Surjection
  <2>5. IsFiniteSet(UNION {pictures(i) : i \in S})
    BY <2>2, <2>4, FS_UNION
  <2>6. Assembly!FramesOf(S) = UNION {pictures(i) : i \in S}
    BY DEF Assembly!FramesOf, pictures, k
  <2> QED
    BY <2>5, <2>6
<1>5. <<1, 1>> \in Assembly!FramesOf(1..n)
  <2>1. 1 \in 1..n /\ 1 \in 1..k(1)
    BY <1>2, <1>3
  <2>2. <<1, 1>> \in pictures(1)
    BY <2>1 DEF pictures
  <2>3. <<1, 1>> \in UNION {pictures(i) : i \in 1..n}
    BY <2>1, <2>2
  <2> QED
    BY <2>3 DEF Assembly!FramesOf, pictures, k
<1>6. Cardinality(Assembly!FramesOf(1..n)) \in Nat \ {0}
  BY <1>4, <1>5, FS_CardinalityType, FS_EmptySet
<1>7. Cardinality(Assembly!FramesOf({i \in DOMAIN scenes : scenes[i] > 0})) \in Nat
  <2>1. {i \in DOMAIN scenes : scenes[i] > 0} \in SUBSET (1..n)
    BY <1>2
  <2> QED
    BY <1>4, <2>1, FS_CardinalityType
<1> QED
  BY <1>2, <1>6, <1>7, AssemblyCardinality DEF Assembly!FrameCountOfClips, Assembly!FrameTotal

\* _build_clips renders what validate_request counted.
LEMMA ClipsAreCounted ==
    ASSUME \A i \in DOMAIN scenes : scenes[i] > 0
    PROVE  Assembly!FrameCountOfClips = Assembly!FrameTotal
<1>1. {i \in DOMAIN scenes : scenes[i] > 0} = DOMAIN scenes
  OBVIOUS
<1> QED
  BY <1>1 DEF Assembly!FrameCountOfClips, Assembly!FrameTotal

LEMMA AssemblyInit == Init /\ medium = "assembly" => Assembly!AssemblyInv
<1> SUFFICES ASSUME Init, medium = "assembly"
             PROVE  Assembly!AssemblyInv
  OBVIOUS
<1>1. Assembly!Init
  BY DEF Init
<1>2. PICK n \in 1..MaxScenes + 1 : scenes \in [1..n -> Durations]
  BY <1>1 DEF Assembly!Init
<1>3. Assembly!TimelineIsAdmitted
  BY <1>1, <1>2 DEF Assembly!Init, Assembly!TimelineIsAdmitted, Assembly!Working
<1>4. Assembly!TypeOK /\ Assembly!FilesFollowPhases /\ Assembly!FramesWithinBudget
  BY <1>1, TimelineAssumption
     DEF Assembly!Init, Assembly!TypeOK, Assembly!FilesFollowPhases, Assembly!Working,
         Assembly!FramesWithinBudget, Assembly!File
<1> QED
  BY <1>3, <1>4 DEF Assembly!AssemblyInv

\* What the steps after validate_request need of the timeline.
LEMMA TimelineKept ==
    ASSUME Assembly!TimelineIsAdmitted, UNCHANGED Assembly!timeline,
           phase' \in {"clips"} \cup Assembly!Working => phase \in {"clips"} \cup Assembly!Working,
           phase' \in Assembly!Working => phase \in Assembly!Working
    PROVE  Assembly!TimelineIsAdmitted'
<1>1. UNCHANGED <<scenes, rate>>
  BY DEF Assembly!timeline
<1>2. Assembly!FrameTotal' = Assembly!FrameTotal
  BY <1>1 DEF Assembly!FrameTotal, Assembly!FramesOf
<1> QED
  BY <1>1, <1>2 DEF Assembly!TimelineIsAdmitted

LEMMA ValidateKeeps == Assembly!AssemblyInv /\ Assembly!Validate => Assembly!AssemblyInv'
<1> SUFFICES ASSUME Assembly!AssemblyInv, Assembly!Validate
             PROVE  Assembly!AssemblyInv'
  OBVIOUS
<1>1. /\ phase = "validate" /\ phase' \in {"clips", "refused"} /\ reason' \in {reason, "budget"}
      /\ phase' = "clips" => Assembly!FrameTotal <= MaxFrames
      /\ UNCHANGED <<scenes, rate, framesOut, staging, partial, preview, output>>
  BY DEF Assembly!Validate, Assembly!WithinBudget, Assembly!timeline
<1>2. Assembly!FrameTotal' = Assembly!FrameTotal
  BY <1>1 DEF Assembly!FrameTotal, Assembly!FramesOf
<1>3. Assembly!TimelineIsAdmitted'
  BY <1>1, <1>2 DEF Assembly!AssemblyInv, Assembly!TimelineIsAdmitted, Assembly!Working
<1>4. (Assembly!TypeOK /\ Assembly!FilesFollowPhases /\ Assembly!FramesWithinBudget)'
  BY <1>1 DEF Assembly!AssemblyInv, Assembly!TypeOK, Assembly!FilesFollowPhases,
              Assembly!Working, Assembly!FramesWithinBudget
<1> QED
  BY <1>3, <1>4 DEF Assembly!AssemblyInv

LEMMA BuildClipsKeeps == Assembly!AssemblyInv /\ Assembly!BuildClips => Assembly!AssemblyInv'
<1> SUFFICES ASSUME Assembly!AssemblyInv, Assembly!BuildClips
             PROVE  Assembly!AssemblyInv'
  OBVIOUS
<1>1. /\ phase = "clips" /\ reason' \in {reason, "scenes"}
      /\ \/ phase' = "refused" /\ staging' = staging
         \/ phase' = "render" /\ staging' = {} /\ \A i \in DOMAIN scenes : scenes[i] > 0
      /\ UNCHANGED <<scenes, rate, framesOut, partial, preview, output>>
  BY DEF Assembly!BuildClips, Assembly!timeline
<1>2. Assembly!FrameTotal' = Assembly!FrameTotal
  BY <1>1 DEF Assembly!FrameTotal, Assembly!FramesOf
<1>3. Assembly!TimelineIsAdmitted'
  BY <1>1, <1>2 DEF Assembly!AssemblyInv, Assembly!TimelineIsAdmitted, Assembly!Working
<1>4. framesOut = 0
  BY <1>1 DEF Assembly!AssemblyInv, Assembly!FilesFollowPhases
<1>5. Assembly!TypeOK'
  BY <1>1 DEF Assembly!AssemblyInv, Assembly!TypeOK, Assembly!File, Assembly!FilesFollowPhases
<1>6. Assembly!FilesFollowPhases'
  BY <1>1, <1>4 DEF Assembly!AssemblyInv, Assembly!FilesFollowPhases, Assembly!Working
<1>7. Assembly!FramesWithinBudget'
  BY <1>1 DEF Assembly!AssemblyInv, Assembly!FramesWithinBudget
<1> QED
  BY <1>3, <1>5, <1>6, <1>7 DEF Assembly!AssemblyInv

\* What a step inside the try block leaves when it raises.
LEMMA RaiseKeeps ==
    ASSUME Assembly!AssemblyInv, phase \in Assembly!Working, UNCHANGED <<Assembly!timeline, framesOut>>,
           NEW w \in {"render", "budget", "mix", "mux", "timeout", "quality"},
           Assembly!Raise(w), partial' = "none"
    PROVE  Assembly!AssemblyInv'
<1>1. /\ phase' = "failed" /\ reason' = w /\ staging' = {"gone"}
      /\ preview' = "none" /\ output' = "none" /\ partial' = "none" /\ framesOut' = framesOut
  BY DEF Assembly!Raise, Assembly!LeaveStaging, Assembly!CleanUp
<1>2. Assembly!TimelineIsAdmitted'
  BY <1>1, TimelineKept DEF Assembly!AssemblyInv, Assembly!Working
<1>3. Assembly!TypeOK'
  BY <1>1 DEF Assembly!AssemblyInv, Assembly!TypeOK, Assembly!File
<1>4. Assembly!FilesFollowPhases'
  BY <1>1 DEF Assembly!AssemblyInv, Assembly!FilesFollowPhases, Assembly!Working
<1>5. Assembly!FramesWithinBudget'
  BY <1>1 DEF Assembly!AssemblyInv, Assembly!FramesWithinBudget
<1> QED
  BY <1>2, <1>3, <1>4, <1>5 DEF Assembly!AssemblyInv

LEMMA RenderFrameKeeps == Assembly!AssemblyInv /\ Assembly!RenderFrame => Assembly!AssemblyInv'
<1> SUFFICES ASSUME Assembly!AssemblyInv, Assembly!RenderFrame
             PROVE  Assembly!AssemblyInv'
  OBVIOUS
<1>1. /\ phase = "render" /\ framesOut < Assembly!FrameCountOfClips
      /\ framesOut' = framesOut + 1
      /\ preview' = IF framesOut = 0 THEN "complete" ELSE preview
      /\ staging' = {"video part"}
      /\ UNCHANGED <<Assembly!timeline, phase, reason, partial, output>>
  BY DEF Assembly!RenderFrame
<1>2. /\ framesOut \in Nat /\ Assembly!FrameCountOfClips \in Nat
      /\ Assembly!FrameCountOfClips <= MaxFrames
  BY <1>1, FramesOfScenes, ClipsAreCounted
     DEF Assembly!AssemblyInv, Assembly!TypeOK, Assembly!TimelineIsAdmitted, Assembly!Working
<1>3. preview' = "complete"
  <2>1. CASE framesOut = 0
    BY <1>1, <2>1
  <2>2. CASE framesOut # 0
    <3>1. framesOut > 0
      BY <1>2, <2>2
    <3> QED
      BY <1>1, <2>2, <3>1 DEF Assembly!AssemblyInv, Assembly!FilesFollowPhases, Assembly!Working
  <2> QED
    BY <2>1, <2>2
<1>4. framesOut < Assembly!FrameCountOfClips /\ framesOut' = framesOut + 1
  BY <1>1
<1>5. PICK total : total = Assembly!FrameCountOfClips
  OBVIOUS
<1>6. framesOut' \in Nat /\ framesOut' <= MaxFrames
  <2>1. framesOut \in Nat /\ total \in Nat /\ total <= MaxFrames /\ MaxFrames \in Nat
    BY <1>2, <1>5, TimelineAssumption
  <2>2. framesOut < total /\ framesOut' = framesOut + 1
    BY <1>4, <1>5
  <2> QED
    BY <2>1, <2>2
<1>7. /\ phase = "render" /\ staging' = {"video part"}
      /\ UNCHANGED <<Assembly!timeline, phase, reason, partial, output>>
  BY <1>1
<1>8. Assembly!TimelineIsAdmitted'
  BY <1>1, TimelineKept DEF Assembly!AssemblyInv, Assembly!Working
<1>9. Assembly!TypeOK'
  BY <1>3, <1>6, <1>7 DEF Assembly!AssemblyInv, Assembly!TypeOK, Assembly!File
<1>10. Assembly!FilesFollowPhases'
  BY <1>3, <1>7 DEF Assembly!AssemblyInv, Assembly!FilesFollowPhases, Assembly!Working
<1>11. Assembly!FramesWithinBudget'
  BY <1>6 DEF Assembly!FramesWithinBudget
<1> QED
  BY <1>8, <1>9, <1>10, <1>11 DEF Assembly!AssemblyInv

LEMMA RenderEndsKeeps == Assembly!AssemblyInv /\ Assembly!RenderEnds => Assembly!AssemblyInv'
<1> SUFFICES ASSUME Assembly!AssemblyInv, Assembly!RenderEnds
             PROVE  Assembly!AssemblyInv'
  OBVIOUS
<1>1. /\ phase = "render" /\ framesOut = Assembly!FrameCountOfClips
      /\ staging' = {"video"} /\ phase' = "mix"
      /\ UNCHANGED <<Assembly!timeline, reason, framesOut, partial, preview, output>>
  BY DEF Assembly!RenderEnds
<1>2. framesOut > 0
  BY <1>1, FramesOfScenes DEF Assembly!AssemblyInv
<1>3. /\ phase = "render" /\ staging' = {"video"} /\ phase' = "mix"
      /\ UNCHANGED <<Assembly!timeline, reason, framesOut, partial, preview, output>>
  BY <1>1
<1>4. Assembly!TimelineIsAdmitted'
  BY <1>1, TimelineKept DEF Assembly!AssemblyInv, Assembly!Working
<1>5. Assembly!TypeOK'
  BY <1>1 DEF Assembly!AssemblyInv, Assembly!TypeOK, Assembly!File
<1>6. Assembly!FilesFollowPhases'
  BY <1>2, <1>3 DEF Assembly!AssemblyInv, Assembly!FilesFollowPhases, Assembly!Working
<1>7. Assembly!FramesWithinBudget'
  BY <1>1 DEF Assembly!AssemblyInv, Assembly!FramesWithinBudget
<1> QED
  BY <1>4, <1>5, <1>6, <1>7 DEF Assembly!AssemblyInv

LEMMA FfmpegWritesKeeps == Assembly!AssemblyInv /\ Assembly!FfmpegWrites => Assembly!AssemblyInv'
<1> SUFFICES ASSUME Assembly!AssemblyInv, Assembly!FfmpegWrites
             PROVE  Assembly!AssemblyInv'
  OBVIOUS
<1>1. /\ phase = "mux" /\ partial' = "partly"
      /\ UNCHANGED <<Assembly!timeline, phase, reason, framesOut, staging, preview, output>>
  BY DEF Assembly!FfmpegWrites
<1>2. Assembly!TimelineIsAdmitted'
  BY <1>1, TimelineKept DEF Assembly!AssemblyInv, Assembly!Working
<1>3. Assembly!TypeOK'
  BY <1>1 DEF Assembly!AssemblyInv, Assembly!TypeOK, Assembly!File
<1>4. Assembly!FilesFollowPhases'
  BY <1>1 DEF Assembly!AssemblyInv, Assembly!TypeOK, Assembly!FilesFollowPhases, Assembly!Working
<1>5. Assembly!FramesWithinBudget'
  BY <1>1 DEF Assembly!AssemblyInv, Assembly!FramesWithinBudget
<1> QED
  BY <1>2, <1>3, <1>4, <1>5 DEF Assembly!AssemblyInv

LEMMA FfmpegEndsKeeps == Assembly!AssemblyInv /\ Assembly!FfmpegEnds => Assembly!AssemblyInv'
<1> SUFFICES ASSUME Assembly!AssemblyInv, Assembly!FfmpegEnds
             PROVE  Assembly!AssemblyInv'
  OBVIOUS
<1>1. /\ phase = "mux" /\ partial' = "complete"
      /\ UNCHANGED <<Assembly!timeline, phase, reason, framesOut, staging, preview, output>>
  BY DEF Assembly!FfmpegEnds
<1>2. Assembly!TimelineIsAdmitted'
  BY <1>1, TimelineKept DEF Assembly!AssemblyInv, Assembly!Working
<1>3. Assembly!TypeOK'
  BY <1>1 DEF Assembly!AssemblyInv, Assembly!TypeOK, Assembly!File
<1>4. Assembly!FilesFollowPhases'
  BY <1>1 DEF Assembly!AssemblyInv, Assembly!TypeOK, Assembly!FilesFollowPhases, Assembly!Working
<1>5. Assembly!FramesWithinBudget'
  BY <1>1 DEF Assembly!AssemblyInv, Assembly!FramesWithinBudget
<1> QED
  BY <1>2, <1>3, <1>4, <1>5 DEF Assembly!AssemblyInv

LEMMA ReplaceKeeps == Assembly!AssemblyInv /\ Assembly!Replace => Assembly!AssemblyInv'
<1> SUFFICES ASSUME Assembly!AssemblyInv, Assembly!Replace
             PROVE  Assembly!AssemblyInv'
  OBVIOUS
<1>1. /\ phase = "mux" /\ phase' = "evaluate" /\ output' = "complete" /\ partial' = "none"
      /\ staging' = {"gone"}
      /\ UNCHANGED <<Assembly!timeline, reason, framesOut, preview>>
  BY DEF Assembly!Replace, Assembly!UnlinkPartial, Assembly!LeaveStaging
<1>2. Assembly!TimelineIsAdmitted'
  BY <1>1, TimelineKept DEF Assembly!AssemblyInv, Assembly!Working
<1>3. Assembly!TypeOK'
  BY <1>1 DEF Assembly!AssemblyInv, Assembly!TypeOK, Assembly!File
<1>4. Assembly!FilesFollowPhases'
  BY <1>1 DEF Assembly!AssemblyInv, Assembly!TypeOK, Assembly!FilesFollowPhases, Assembly!Working
<1>5. Assembly!FramesWithinBudget'
  BY <1>1 DEF Assembly!AssemblyInv, Assembly!FramesWithinBudget
<1> QED
  BY <1>2, <1>3, <1>4, <1>5 DEF Assembly!AssemblyInv

LEMMA RenderFailsKeeps == Assembly!AssemblyInv /\ Assembly!RenderFails => Assembly!AssemblyInv'
<1> SUFFICES ASSUME Assembly!AssemblyInv, Assembly!RenderFails
             PROVE  Assembly!AssemblyInv'
  OBVIOUS
<1>1. /\ phase = "render" /\ Assembly!Raise("render")
      /\ UNCHANGED <<Assembly!timeline, framesOut, partial>>
  BY DEF Assembly!RenderFails
<1>2. partial' = "none" /\ phase \in Assembly!Working
  BY <1>1 DEF Assembly!AssemblyInv, Assembly!FilesFollowPhases, Assembly!Working
<1> QED
  BY <1>1, <1>2, RaiseKeeps

LEMMA MuxFailsKeeps == Assembly!AssemblyInv /\ Assembly!MuxFails => Assembly!AssemblyInv'
<1> SUFFICES ASSUME Assembly!AssemblyInv, Assembly!MuxFails
             PROVE  Assembly!AssemblyInv'
  OBVIOUS
<1>1. /\ phase = "mux" /\ \E why_ \in {"mux", "timeout"} : Assembly!Raise(why_)
      /\ partial' = "none" /\ UNCHANGED <<Assembly!timeline, framesOut>>
  BY DEF Assembly!MuxFails, Assembly!UnlinkPartial
<1>2. phase \in Assembly!Working
  BY <1>1 DEF Assembly!Working
<1> QED
  BY <1>1, <1>2, RaiseKeeps

LEMMA BuildAudioMixKeeps ==
    Assembly!AssemblyInv /\ Assembly!BuildAudioMix => Assembly!AssemblyInv'
<1> SUFFICES ASSUME Assembly!AssemblyInv, Assembly!BuildAudioMix
             PROVE  Assembly!AssemblyInv'
  OBVIOUS
<1>1. /\ phase = "mix" /\ UNCHANGED <<Assembly!timeline, framesOut, partial>>
      /\ partial = "none" /\ phase \in Assembly!Working
  BY DEF Assembly!BuildAudioMix, Assembly!AssemblyInv, Assembly!FilesFollowPhases,
         Assembly!Working
<1>2. CASE Assembly!Raise("budget") \/ Assembly!Raise("mix")
  BY <1>1, <1>2, RaiseKeeps
<1>3. CASE /\ phase' = "mux" /\ UNCHANGED <<reason, preview, output>>
           /\ staging' = IF audio = "sound" THEN staging \cup {"audio"} ELSE staging
  <2>1. staging \subseteq {"video part", "video", "audio"} /\ staging # {"gone"}
    BY <1>1 DEF Assembly!AssemblyInv, Assembly!TypeOK, Assembly!FilesFollowPhases
  <2>2. staging' \subseteq {"video part", "video", "audio"} /\ staging' # {"gone"}
    BY <1>3, <2>1
  <2>3. Assembly!TimelineIsAdmitted'
    BY <1>1, <1>3, TimelineKept DEF Assembly!AssemblyInv, Assembly!Working
  <2>4. Assembly!TypeOK'
    BY <1>1, <1>3, <2>2 DEF Assembly!AssemblyInv, Assembly!TypeOK, Assembly!File
  <2>5. Assembly!FilesFollowPhases'
    BY <1>1, <1>3, <2>2 DEF Assembly!AssemblyInv, Assembly!FilesFollowPhases, Assembly!Working
  <2>6. Assembly!FramesWithinBudget'
    BY <1>1 DEF Assembly!AssemblyInv, Assembly!FramesWithinBudget
  <2> QED
    BY <2>3, <2>4, <2>5, <2>6 DEF Assembly!AssemblyInv
<1> QED
  BY <1>2, <1>3 DEF Assembly!BuildAudioMix

LEMMA EvaluateKeeps == Assembly!AssemblyInv /\ Assembly!Evaluate => Assembly!AssemblyInv'
<1> SUFFICES ASSUME Assembly!AssemblyInv, Assembly!Evaluate
             PROVE  Assembly!AssemblyInv'
  OBVIOUS
<1>1. /\ phase = "evaluate" /\ UNCHANGED <<Assembly!timeline, framesOut, partial>>
      /\ partial = "none" /\ phase \in Assembly!Working
  BY DEF Assembly!Evaluate, Assembly!AssemblyInv, Assembly!FilesFollowPhases, Assembly!Working
<1>2. CASE Assembly!Raise("quality")
  BY <1>1, <1>2, RaiseKeeps
<1>3. CASE phase' = "done" /\ UNCHANGED <<reason, staging, preview, output>>
  <2>1. Assembly!TimelineIsAdmitted'
    BY <1>1, <1>3, TimelineKept DEF Assembly!AssemblyInv, Assembly!Working
  <2>2. staging = {"gone"}
    BY <1>1 DEF Assembly!AssemblyInv, Assembly!FilesFollowPhases
  <2>3. Assembly!TypeOK'
    BY <1>1, <1>3, <2>2 DEF Assembly!AssemblyInv, Assembly!TypeOK, Assembly!File
  <2>4. Assembly!FilesFollowPhases'
    BY <1>1, <1>3 DEF Assembly!AssemblyInv, Assembly!FilesFollowPhases, Assembly!Working
  <2>5. Assembly!FramesWithinBudget'
    BY <1>1 DEF Assembly!AssemblyInv, Assembly!FramesWithinBudget
  <2> QED
    BY <2>1, <2>3, <2>4, <2>5 DEF Assembly!AssemblyInv
<1> QED
  BY <1>2, <1>3 DEF Assembly!Evaluate

LEMMA AssemblyStutters == Assembly!AssemblyInv /\ UNCHANGED Assembly!vars => Assembly!AssemblyInv'
<1> SUFFICES ASSUME Assembly!AssemblyInv, UNCHANGED Assembly!vars
             PROVE  Assembly!AssemblyInv'
  OBVIOUS
<1>1. UNCHANGED <<Assembly!timeline, phase, reason, framesOut, staging, partial, preview, output>>
  BY DEF Assembly!vars
<1>2. Assembly!TimelineIsAdmitted'
  BY <1>1, TimelineKept DEF Assembly!AssemblyInv
<1>3. (Assembly!TypeOK /\ Assembly!FilesFollowPhases /\ Assembly!FramesWithinBudget)'
  <2> phase' = phase /\ reason' = reason /\ framesOut' = framesOut /\ staging' = staging
      /\ partial' = partial /\ preview' = preview /\ output' = output
    BY <1>1
  <2>1. Assembly!TypeOK'
    <3>1. Assembly!TypeOK
      BY DEF Assembly!AssemblyInv
    <3> QED
      BY <3>1, ZenonT(60) DEF Assembly!TypeOK
  <2>2. Assembly!FilesFollowPhases'
    BY DEF Assembly!AssemblyInv, Assembly!FilesFollowPhases, Assembly!Working
  <2>3. Assembly!FramesWithinBudget'
    BY DEF Assembly!AssemblyInv, Assembly!FramesWithinBudget
  <2> QED
    BY <2>1, <2>2, <2>3
<1> QED
  BY <1>2, <1>3 DEF Assembly!AssemblyInv

LEMMA AssemblyKept ==
    ASSUME medium = "assembly", Assembly!AssemblyInv, [Next]_vars
    PROVE  medium' = "assembly" /\ Assembly!AssemblyInv'
<1>1. medium' = "assembly" /\ (Assembly!Next \/ UNCHANGED Assembly!vars)
  BY AssemblyStep
<1> QED
  BY <1>1, ValidateKeeps, BuildClipsKeeps, RenderFrameKeeps, RenderFailsKeeps, RenderEndsKeeps,
     BuildAudioMixKeeps, FfmpegWritesKeeps, FfmpegEndsKeeps, MuxFailsKeeps, ReplaceKeeps,
     EvaluateKeeps, AssemblyStutters DEF Assembly!Next, Assembly!Straight, Assembly!Ended

\* What the composite properties ask of a delivery.
LEMMA AssemblyConsequences ==
    ASSUME Assembly!AssemblyInv
    PROVE  /\ Assembly!TypeOK /\ Assembly!FramesWithinBudget
           /\ Assembly!FailedLeavesNothing /\ Assembly!DeliveryIsWhole
<1>1. Assembly!TypeOK /\ Assembly!FramesWithinBudget /\ Assembly!FilesFollowPhases
  BY DEF Assembly!AssemblyInv
<1>2. Assembly!FailedLeavesNothing
  BY <1>1 DEF Assembly!FilesFollowPhases, Assembly!Working, Assembly!FailedLeavesNothing
<1>3. Assembly!DeliveryIsWhole
  BY <1>1 DEF Assembly!FilesFollowPhases, Assembly!Working, Assembly!DeliveryIsWhole
<1> QED
  BY <1>1, <1>2, <1>3

-----------------------------------------------------------------------------
(* A narration.                                                             *)

LEMMA SpeechInit == Init /\ medium = "speech" => Speech!SpeechInv
<1> SUFFICES ASSUME Init, medium = "speech"
             PROVE  Speech!SpeechInv
  OBVIOUS
<1>1. Speech!Init
  BY DEF Init
<1>2. Speech!TypeOK
  BY <1>1 DEF Speech!Init, Speech!TypeOK, Speech!Labels, Speech!Ended
<1>3. Speech!WorkIsAdmitted /\ Speech!CountsFollowChunks /\ Speech!ChunksAreComplete
  BY <1>1 DEF Speech!Init, Speech!WorkIsAdmitted, Speech!CountsFollowChunks,
              Speech!ChunksAreComplete
<1> QED
  BY <1>2, <1>3 DEF Speech!SpeechInv

\* What a narration's budgets say depends on its request only.
LEMMA BudgetsKept ==
    ASSUME req' = req
    PROVE  /\ Speech!DurationOver' = Speech!DurationOver /\ Speech!Gaps' = Speech!Gaps
           /\ \A r : /\ Speech!GapSamples(r)' = Speech!GapSamples(r)
                     /\ Speech!EstimatedSamples(r)' = Speech!EstimatedSamples(r)
<1>1. Speech!DurationOver' = Speech!DurationOver /\ Speech!Gaps' = Speech!Gaps
  BY DEF Speech!DurationOver, Speech!Gaps
<1>2. \A r : Speech!GapSamples(r)' = Speech!GapSamples(r)
  BY DEF Speech!GapSamples
<1>3. \A r : Speech!EstimatedSamples(r)' = Speech!EstimatedSamples(r)
  BY <1>1, <1>2 DEF Speech!EstimatedSamples
<1> QED
  BY <1>1, <1>2, <1>3

\* The numbers of a narration are integers.
LEMMA SpeechNumbers ==
    ASSUME Speech!SpeechInv, NEW r \in Int
    PROVE  /\ Speech!GapSamples(r) * Speech!Gaps \in Int
           /\ Speech!EstimatedSamples(r) \in Int
<1>1. req \in [chars : Nat, chunks : Nat, gap : Nat, speed : Nat \ {0}, sound : BOOLEAN]
  BY NarrationsAssumption DEF Speech!SpeechInv, Speech!TypeOK
<1>2. Speech!Gaps \in Int
  BY <1>1 DEF Speech!Gaps
<1>3. \A a \in Int : \A b \in Nat \ {0} : a \div b \in Int
  OBVIOUS
<1>4. Speech!GapSamples(r) \in Int
  <2>1. req.gap * r \in Int
    BY <1>1
  <2>2. PICK q \in Int : q = (req.gap * r) \div 1000
    BY <1>3, <2>1
  <2> QED
    BY <2>2 DEF Speech!GapSamples, Speech!RoundDiv
<1>5. Speech!GapSamples(r) * Speech!Gaps \in Int
  BY <1>2, <1>4
<1>6. Speech!CeilDiv(req.chars * 10 * r, Speech!CharactersPerSecond * req.speed) \in Int
  <2>1. req.chars * 10 * r \in Int
    BY <1>1
  <2>2. 6 * req.speed \in Nat \ {0}
    <3>1. PICK s \in Nat \ {0} : s = req.speed
      BY <1>1
    <3> QED
      BY <3>1
  <2>3. req.chars * 10 * r + 6 * req.speed - 1 \in Int
    BY <2>1, <2>2
  <2> QED
    BY <1>3, <2>2, <2>3 DEF Speech!CeilDiv, Speech!CharactersPerSecond
<1> QED
  BY <1>5, <1>6 DEF Speech!EstimatedSamples

\* A step that neither calls the model nor admits work nor publishes.
LEMMA SpeechQuiet ==
    ASSUME Speech!SpeechInv, UNCHANGED <<Speech!job, calls, rate, samples>>,
           \/ req.sound /\ ~Speech!DurationOver
           \/ /\ blame' # "request" /\ pc' \notin {"budget", "synthesizing", "late", "joining"}
              /\ ~(pc' = "exit" /\ held' = {})
    PROVE  Speech!WorkIsAdmitted' /\ Speech!CountsFollowChunks'
<1>1. UNCHANGED <<req, calls, rate, samples>>
  BY DEF Speech!job
<1>2. /\ Speech!DurationOver' = Speech!DurationOver /\ Speech!Gaps' = Speech!Gaps
      /\ Speech!GapSamples(rate)' = Speech!GapSamples(rate)
      /\ Speech!EstimatedSamples(rate)' = Speech!EstimatedSamples(rate)
  <2>1. \A r : /\ Speech!GapSamples(r)' = Speech!GapSamples(r)
               /\ Speech!EstimatedSamples(r)' = Speech!EstimatedSamples(r)
    BY <1>1, BudgetsKept
  <2>2. PICK r : r = rate
    OBVIOUS
  <2> QED
    BY <1>1, <2>1, <2>2, BudgetsKept
<1>3. Speech!WorkIsAdmitted'
  BY <1>1, <1>2 DEF Speech!SpeechInv, Speech!WorkIsAdmitted
<1>4. Speech!CountsFollowChunks'
  BY <1>1, <1>2 DEF Speech!SpeechInv, Speech!CountsFollowChunks, Speech!MaxOutputSeconds
<1> QED
  BY <1>3, <1>4

LEMMA SpeechCancelKeeps == Speech!SpeechInv /\ Speech!Cancel => Speech!SpeechInv'
<1> SUFFICES ASSUME Speech!SpeechInv, Speech!Cancel
             PROVE  Speech!SpeechInv'
  OBVIOUS
<1>1. /\ UNCHANGED <<Speech!job, calls, rate, samples, published, blame, pc, held>>
  BY DEF Speech!Cancel
<1>2. Speech!TypeOK'
  BY <1>1 DEF Speech!SpeechInv, Speech!TypeOK, Speech!Labels, Speech!Ended, Speech!job
<1>3. Speech!WorkIsAdmitted' /\ Speech!CountsFollowChunks'
  <2>1. \/ req.sound /\ ~Speech!DurationOver
        \/ /\ blame' # "request" /\ pc' \notin {"budget", "synthesizing", "late", "joining"}
           /\ ~(pc' = "exit" /\ held' = {})
    BY <1>1 DEF Speech!SpeechInv, Speech!WorkIsAdmitted
  <2> QED
    BY <1>1, <2>1, SpeechQuiet
<1>4. Speech!ChunksAreComplete'
  BY <1>1 DEF Speech!SpeechInv, Speech!TypeOK, Speech!ChunksAreComplete, Speech!Ended, Speech!job
<1> QED
  BY <1>2, <1>3, <1>4 DEF Speech!SpeechInv

LEMMA PreflightKeeps == Speech!SpeechInv /\ Speech!Preflight => Speech!SpeechInv'
<1> SUFFICES ASSUME Speech!SpeechInv, Speech!Preflight
             PROVE  Speech!SpeechInv'
  OBVIOUS
<1>1. /\ pc = "new" /\ pc' \in {"waiting", "failed"}
      /\ UNCHANGED <<Speech!job, calls, rate, samples, published, blame, held>>
  BY DEF Speech!Preflight
<1>2. Speech!TypeOK'
  BY <1>1 DEF Speech!SpeechInv, Speech!TypeOK, Speech!Labels, Speech!Ended, Speech!job
<1>3. Speech!WorkIsAdmitted' /\ Speech!CountsFollowChunks'
  <2>1. \/ req.sound /\ ~Speech!DurationOver
        \/ /\ blame' # "request" /\ pc' \notin {"budget", "synthesizing", "late", "joining"}
           /\ ~(pc' = "exit" /\ held' = {})
    BY <1>1 DEF Speech!SpeechInv, Speech!WorkIsAdmitted
  <2> QED
    BY <1>1, <2>1, SpeechQuiet
<1>4. Speech!ChunksAreComplete'
  BY <1>1 DEF Speech!SpeechInv, Speech!TypeOK, Speech!ChunksAreComplete, Speech!Ended, Speech!job
<1> QED
  BY <1>2, <1>3, <1>4 DEF Speech!SpeechInv

LEMMA SpeechAcquireKeeps == Speech!SpeechInv /\ Speech!Acquire => Speech!SpeechInv'
<1> SUFFICES ASSUME Speech!SpeechInv, Speech!Acquire
             PROVE  Speech!SpeechInv'
  OBVIOUS
<1>1. /\ pc = "waiting" /\ pc' \in {"leased", "cancelled"}
      /\ UNCHANGED <<Speech!job, calls, rate, samples, published, blame, held>>
  BY DEF Speech!Acquire
<1>2. Speech!TypeOK'
  BY <1>1 DEF Speech!SpeechInv, Speech!TypeOK, Speech!Labels, Speech!Ended, Speech!job
<1>3. Speech!WorkIsAdmitted' /\ Speech!CountsFollowChunks'
  <2>1. \/ req.sound /\ ~Speech!DurationOver
        \/ /\ blame' # "request" /\ pc' \notin {"budget", "synthesizing", "late", "joining"}
           /\ ~(pc' = "exit" /\ held' = {})
    BY <1>1 DEF Speech!SpeechInv, Speech!WorkIsAdmitted
  <2> QED
    BY <1>1, <2>1, SpeechQuiet
<1>4. Speech!ChunksAreComplete'
  BY <1>1 DEF Speech!SpeechInv, Speech!TypeOK, Speech!ChunksAreComplete, Speech!Ended, Speech!job
<1> QED
  BY <1>2, <1>3, <1>4 DEF Speech!SpeechInv

LEMMA SpeechProbeBeforeKeeps == Speech!SpeechInv /\ Speech!ProbeBefore => Speech!SpeechInv'
<1> SUFFICES ASSUME Speech!SpeechInv, Speech!ProbeBefore
             PROVE  Speech!SpeechInv'
  OBVIOUS
<1>1. /\ pc = "leased"
      /\ \/ pc' = "checking" /\ held' = held
         \/ pc' = "exit" /\ held' \in {held \cup {"cancel"}, held \cup {"probe"}}
      /\ UNCHANGED <<Speech!job, calls, rate, samples, published, blame>>
  BY DEF Speech!ProbeBefore, Speech!Probe
<1>2. Speech!TypeOK'
  BY <1>1 DEF Speech!SpeechInv, Speech!TypeOK, Speech!Labels, Speech!Ended, Speech!job
<1>3. Speech!WorkIsAdmitted' /\ Speech!CountsFollowChunks'
  <2>1. \/ req.sound /\ ~Speech!DurationOver
        \/ /\ blame' # "request" /\ pc' \notin {"budget", "synthesizing", "late", "joining"}
           /\ ~(pc' = "exit" /\ held' = {})
    BY <1>1 DEF Speech!SpeechInv, Speech!WorkIsAdmitted
  <2> QED
    BY <1>1, <2>1, SpeechQuiet
<1>4. Speech!ChunksAreComplete'
  BY <1>1 DEF Speech!SpeechInv, Speech!TypeOK, Speech!ChunksAreComplete, Speech!Ended, Speech!job
<1> QED
  BY <1>2, <1>3, <1>4 DEF Speech!SpeechInv

LEMMA CheckControlsKeeps == Speech!SpeechInv /\ Speech!CheckControls => Speech!SpeechInv'
<1> SUFFICES ASSUME Speech!SpeechInv, Speech!CheckControls
             PROVE  Speech!SpeechInv'
  OBVIOUS
<1>1. /\ pc = "checking"
      /\ \/ pc' = "exit" /\ held' = held \cup {"validation"}
         \/ pc' = "budget" /\ held' = held /\ req.sound /\ ~Speech!DurationOver
      /\ UNCHANGED <<Speech!job, calls, rate, samples, published, blame>>
  BY DEF Speech!CheckControls
<1>2. Speech!TypeOK'
  BY <1>1 DEF Speech!SpeechInv, Speech!TypeOK, Speech!Labels, Speech!Ended, Speech!job
<1>3. Speech!WorkIsAdmitted' /\ Speech!CountsFollowChunks'
  <2>1. \/ req.sound /\ ~Speech!DurationOver
        \/ /\ blame' # "request" /\ pc' \notin {"budget", "synthesizing", "late", "joining"}
           /\ ~(pc' = "exit" /\ held' = {})
    BY <1>1 DEF Speech!SpeechInv, Speech!WorkIsAdmitted
  <2> QED
    BY <1>1, <2>1, SpeechQuiet
<1>4. Speech!ChunksAreComplete'
  BY <1>1 DEF Speech!SpeechInv, Speech!TypeOK, Speech!ChunksAreComplete, Speech!Ended, Speech!job
<1> QED
  BY <1>2, <1>3, <1>4 DEF Speech!SpeechInv

LEMMA CheckBudgetKeeps == Speech!SpeechInv /\ Speech!CheckBudget => Speech!SpeechInv'
<1> SUFFICES ASSUME Speech!SpeechInv, Speech!CheckBudget
             PROVE  Speech!SpeechInv'
  OBVIOUS
<1>1. /\ pc = "budget"
      /\ \/ pc' = "failed" /\ blame' \in {"model", "request"}
         \/ pc' = "synthesizing" /\ blame' = blame
      /\ UNCHANGED <<Speech!job, calls, rate, samples, published, held>>
  BY DEF Speech!CheckBudget, Speech!RaiseInLease
<1>2. Speech!TypeOK'
  BY <1>1 DEF Speech!SpeechInv, Speech!TypeOK, Speech!Labels, Speech!Ended, Speech!job
<1>3. Speech!WorkIsAdmitted' /\ Speech!CountsFollowChunks'
  <2>1. \/ req.sound /\ ~Speech!DurationOver
        \/ /\ blame' # "request" /\ pc' \notin {"budget", "synthesizing", "late", "joining"}
           /\ ~(pc' = "exit" /\ held' = {})
    BY <1>1 DEF Speech!SpeechInv, Speech!WorkIsAdmitted
  <2> QED
    BY <1>1, <2>1, SpeechQuiet
<1>4. Speech!ChunksAreComplete'
  BY <1>1 DEF Speech!SpeechInv, Speech!TypeOK, Speech!ChunksAreComplete, Speech!Ended, Speech!job
<1> QED
  BY <1>2, <1>3, <1>4 DEF Speech!SpeechInv

LEMMA SynthesisFailsKeeps == Speech!SpeechInv /\ Speech!SynthesisFails => Speech!SpeechInv'
<1> SUFFICES ASSUME Speech!SpeechInv, Speech!SynthesisFails
             PROVE  Speech!SpeechInv'
  OBVIOUS
<1>1. /\ pc = "synthesizing" /\ pc' = "failed" /\ blame' = "model"
      /\ UNCHANGED <<Speech!job, calls, rate, samples, published, held>>
  BY DEF Speech!SynthesisFails, Speech!RaiseInLease
<1>2. Speech!TypeOK'
  BY <1>1 DEF Speech!SpeechInv, Speech!TypeOK, Speech!Labels, Speech!Ended, Speech!job
<1>3. Speech!WorkIsAdmitted' /\ Speech!CountsFollowChunks'
  <2>1. \/ req.sound /\ ~Speech!DurationOver
        \/ /\ blame' # "request" /\ pc' \notin {"budget", "synthesizing", "late", "joining"}
           /\ ~(pc' = "exit" /\ held' = {})
    BY <1>1 DEF Speech!SpeechInv, Speech!WorkIsAdmitted
  <2> QED
    BY <1>1, <2>1, SpeechQuiet
<1>4. Speech!ChunksAreComplete'
  BY <1>1 DEF Speech!SpeechInv, Speech!TypeOK, Speech!ChunksAreComplete, Speech!Ended, Speech!job
<1> QED
  BY <1>2, <1>3, <1>4 DEF Speech!SpeechInv

LEMMA SpeechProbeAfterKeeps == Speech!SpeechInv /\ Speech!ProbeAfter => Speech!SpeechInv'
<1> SUFFICES ASSUME Speech!SpeechInv, Speech!ProbeAfter
             PROVE  Speech!SpeechInv'
  OBVIOUS
<1>1. /\ pc = "late" /\ pc' = "exit"
      /\ held' \in {held, held \cup {"cancel"}, held \cup {"probe"}}
      /\ UNCHANGED <<Speech!job, calls, rate, samples, published, blame>>
  BY DEF Speech!ProbeAfter, Speech!Probe
<1>2. Speech!TypeOK'
  BY <1>1 DEF Speech!SpeechInv, Speech!TypeOK, Speech!Labels, Speech!Ended, Speech!job
<1>3. Speech!WorkIsAdmitted' /\ Speech!CountsFollowChunks'
  <2>1. \/ req.sound /\ ~Speech!DurationOver
        \/ /\ blame' # "request" /\ pc' \notin {"budget", "synthesizing", "late", "joining"}
           /\ ~(pc' = "exit" /\ held' = {})
    BY <1>1 DEF Speech!SpeechInv, Speech!WorkIsAdmitted
  <2> QED
    BY <1>1, <2>1, SpeechQuiet
<1>4. Speech!ChunksAreComplete'
  BY <1>1 DEF Speech!SpeechInv, Speech!TypeOK, Speech!ChunksAreComplete, Speech!Ended, Speech!job
<1> QED
  BY <1>2, <1>3, <1>4 DEF Speech!SpeechInv

LEMMA SpeechExitLeaseKeeps == Speech!SpeechInv /\ Speech!ExitLease => Speech!SpeechInv'
<1> SUFFICES ASSUME Speech!SpeechInv, Speech!ExitLease
             PROVE  Speech!SpeechInv'
  OBVIOUS
<1>1. /\ pc = "exit" /\ pc' \in {"failed", "cancelled", "joining"}
      /\ pc' = "joining" => held \cap {"probe", "cancel", "validation"} = {}
      /\ UNCHANGED <<Speech!job, calls, rate, samples, published, blame, held>>
  BY DEF Speech!ExitLease, Speech!Outcome
<1>2. pc' = "joining" => held = {}
  <2>1. held \subseteq {"probe", "cancel", "validation"}
    BY DEF Speech!SpeechInv, Speech!TypeOK
  <2> QED
    BY <1>1, <2>1
<1>3. Speech!TypeOK'
  BY <1>1 DEF Speech!SpeechInv, Speech!TypeOK, Speech!Labels, Speech!Ended, Speech!job
<1>4. Speech!WorkIsAdmitted' /\ Speech!CountsFollowChunks'
  <2>1. \/ req.sound /\ ~Speech!DurationOver
        \/ /\ blame' # "request" /\ pc' \notin {"budget", "synthesizing", "late", "joining"}
           /\ ~(pc' = "exit" /\ held' = {})
    BY <1>1, <1>2 DEF Speech!SpeechInv, Speech!WorkIsAdmitted
  <2> QED
    BY <1>1, <2>1, SpeechQuiet
<1>5. Speech!ChunksAreComplete'
  BY <1>1, <1>2
     DEF Speech!SpeechInv, Speech!TypeOK, Speech!ChunksAreComplete, Speech!Ended, Speech!job
<1> QED
  BY <1>3, <1>4, <1>5 DEF Speech!SpeechInv

LEMMA SpeechPublishKeeps == Speech!SpeechInv /\ Speech!Publish => Speech!SpeechInv'
<1> SUFFICES ASSUME Speech!SpeechInv, Speech!Publish
             PROVE  Speech!SpeechInv'
  OBVIOUS
<1>1. /\ pc = "joining" /\ pc' \in {"failed", "succeeded"}
      /\ UNCHANGED <<Speech!job, calls, rate, samples, blame, held>>
      /\ published' = published \/ published' = TRUE
  BY DEF Speech!Publish
<1>2. Speech!TypeOK'
  BY <1>1 DEF Speech!SpeechInv, Speech!TypeOK, Speech!Labels, Speech!Ended, Speech!job
<1>3. Speech!WorkIsAdmitted' /\ Speech!CountsFollowChunks'
  <2>1. \/ req.sound /\ ~Speech!DurationOver
        \/ /\ blame' # "request" /\ pc' \notin {"budget", "synthesizing", "late", "joining"}
           /\ ~(pc' = "exit" /\ held' = {})
    BY <1>1 DEF Speech!SpeechInv, Speech!WorkIsAdmitted
  <2> QED
    BY <1>1, <2>1, SpeechQuiet
<1>4. Speech!ChunksAreComplete'
  BY <1>1 DEF Speech!SpeechInv, Speech!TypeOK, Speech!ChunksAreComplete, Speech!Ended, Speech!job
<1> QED
  BY <1>2, <1>3, <1>4 DEF Speech!SpeechInv

\* _coerce_sample_rate accepts positive rates only.
LEMMA ValidRate ==
    ASSUME NEW r \in Int, Speech!RateIsValid(r)
    PROVE  r > 0
<1>1. r >= 1
  BY DEF Speech!RateIsValid
<1> QED
  BY <1>1

\* The chunk that arrived is counted with all the gaps to come.
LEMMA SynthesizeChunkKeeps ==
    ASSUME Speech!SpeechInv, NEW n \in Int, NEW r \in Int, Speech!SynthesizeChunk(n, r)
    PROVE  Speech!SpeechInv'
<1>1. /\ pc = "synthesizing" /\ UNCHANGED <<Speech!job, held, published>>
      /\ UNCHANGED <<req, advertised>>
  BY DEF Speech!SynthesizeChunk, Speech!job
<1>2. req.sound /\ ~Speech!DurationOver
  BY <1>1 DEF Speech!SpeechInv, Speech!WorkIsAdmitted
<1>3. CASE pc' = "failed" /\ blame' \in {"model", "request"} /\ UNCHANGED <<calls, rate, samples>>
  <2>1. Speech!TypeOK'
    BY <1>1, <1>3 DEF Speech!SpeechInv, Speech!TypeOK, Speech!Labels, Speech!Ended
  <2>2. Speech!WorkIsAdmitted' /\ Speech!CountsFollowChunks'
    BY <1>1, <1>2, <1>3, SpeechQuiet
  <2>3. Speech!ChunksAreComplete'
    BY <1>1, <1>3 DEF Speech!SpeechInv, Speech!ChunksAreComplete, Speech!Ended
  <2> QED
    BY <2>1, <2>2, <2>3 DEF Speech!SpeechInv
<1>4. CASE /\ Speech!RateIsValid(r) /\ rate \in {0, r} /\ ~Speech!TooMuch(n, r)
           /\ rate = 0 => ~Speech!SampleBudgetOver(r)
           /\ calls' = calls + 1 /\ rate' = r /\ samples' = samples + n
           /\ pc' = IF calls + 1 = req.chunks THEN "late" ELSE "synthesizing"
           /\ UNCHANGED blame
  <2>1. calls \in Nat /\ rate \in Int /\ samples \in Int
    BY DEF Speech!SpeechInv, Speech!TypeOK
  <2>2. calls' = calls + 1 /\ samples' = samples + n /\ rate' = r
    BY <1>4
  <2>3. calls' \in Nat /\ calls' > 0 /\ samples' \in Int /\ rate' \in Int /\ r > 0
    <3>1. Speech!RateIsValid(r)
      BY <1>4
    <3>2. r > 0
      BY <3>1, ValidRate
    <3>3. calls' \in Nat /\ calls' > 0
      BY <2>1, <2>2
    <3>4. samples' \in Int
      BY <2>1, <2>2
    <3> QED
      BY <2>2, <3>2, <3>3, <3>4
  <2>4. pc' \in {"late", "synthesizing"} /\ (pc' = "late" => calls' = req.chunks)
    BY <1>4
  <2>5. Speech!TypeOK'
    BY <1>1, <1>4, <2>3, <2>4 DEF Speech!SpeechInv, Speech!TypeOK, Speech!Labels
  <2>6. Speech!WorkIsAdmitted'
    <3>1. Speech!DurationOver' = Speech!DurationOver
      BY <1>1, BudgetsKept
    <3> QED
      BY <1>1, <1>2, <3>1 DEF Speech!WorkIsAdmitted
  <2>7. samples + n + Speech!GapSamples(r) * Speech!Gaps <= r * Speech!MaxOutputSeconds
    <3>1. Speech!GapSamples(r) * Speech!Gaps \in Int
      BY SpeechNumbers
    <3>2. PICK g \in Int : g = Speech!GapSamples(r) * Speech!Gaps
      BY <3>1
    <3>3. ~(samples + n + g > r * Speech!MaxOutputSeconds)
      BY <1>4, <3>2 DEF Speech!TooMuch
    <3>4. samples + n + g \in Int /\ r * Speech!MaxOutputSeconds \in Int
      BY <2>1, <3>2 DEF Speech!MaxOutputSeconds
    <3>5. samples + n + g <= r * Speech!MaxOutputSeconds
      BY <3>3, <3>4
    <3> QED
      BY <3>2, <3>5
  <2>8. Speech!EstimatedSamples(r) <= r * Speech!MaxOutputSeconds
    <3>1. CASE rate = 0
      <4>1. ~(Speech!EstimatedSamples(r) > r * Speech!MaxOutputSeconds)
        BY <1>4, <3>1 DEF Speech!SampleBudgetOver
      <4>2. Speech!EstimatedSamples(r) \in Int /\ r * Speech!MaxOutputSeconds \in Int
        BY SpeechNumbers DEF Speech!MaxOutputSeconds
      <4> QED
        BY <4>1, <4>2
    <3>2. CASE rate # 0
      <4>1. rate = r /\ calls # 0
        BY <1>4, <3>2 DEF Speech!SpeechInv, Speech!CountsFollowChunks
      <4>2. calls > 0
        BY <2>1, <4>1
      <4> QED
        BY <4>1, <4>2 DEF Speech!SpeechInv, Speech!CountsFollowChunks
    <3> QED
      BY <3>1, <3>2
  <2>9. Speech!CountsFollowChunks'
    <3>1. /\ Speech!Gaps' = Speech!Gaps
          /\ Speech!GapSamples(r)' = Speech!GapSamples(r)
          /\ Speech!EstimatedSamples(r)' = Speech!EstimatedSamples(r)
      BY <1>1, BudgetsKept
    <3>2. /\ Speech!GapSamples(rate)' = Speech!GapSamples(r)
          /\ Speech!EstimatedSamples(rate)' = Speech!EstimatedSamples(r)
      BY <2>2, <3>1 DEF Speech!GapSamples, Speech!EstimatedSamples
    <3>3. samples' + Speech!GapSamples(rate)' * Speech!Gaps' <= rate' * Speech!MaxOutputSeconds
      BY <2>2, <2>7, <3>1, <3>2
    <3>4. Speech!EstimatedSamples(rate)' <= rate' * Speech!MaxOutputSeconds
      BY <2>2, <2>8, <3>2
    <3>5. rate' # 0 /\ calls' # 0
      BY <2>2, <2>3
    <3> QED
      BY <3>3, <3>4, <3>5 DEF Speech!CountsFollowChunks, Speech!MaxOutputSeconds
  <2>10. Speech!ChunksAreComplete'
    BY <1>1, <2>4 DEF Speech!SpeechInv, Speech!ChunksAreComplete, Speech!Ended
  <2> QED
    BY <2>5, <2>6, <2>9, <2>10 DEF Speech!SpeechInv
<1> QED
  BY <1>1, <1>3, <1>4 DEF Speech!SynthesizeChunk, Speech!RaiseInLease

LEMMA SpeechKept ==
    ASSUME medium = "speech", Speech!SpeechInv, [Next]_vars
    PROVE  medium' = "speech" /\ Speech!SpeechInv'
<1>1. medium' = "speech" /\ (Speech!Step \/ Speech!Cancel \/ UNCHANGED Speech!vars)
  BY SpeechStep
<1>2. ASSUME NEW r \in SpeechRates, NEW s \in SpeechLengths,
             Speech!SynthesizeChunk(s * (IF r < 0 THEN 1 ELSE r), r)
      PROVE  Speech!SpeechInv'
  <2>1. r \in Int /\ s \in Int
    BY NarrationsAssumption
  <2>2. (IF r < 0 THEN 1 ELSE r) \in Int
    BY <2>1
  <2>3. s * (IF r < 0 THEN 1 ELSE r) \in Int
    BY <2>1, <2>2
  <2> QED
    BY <1>2, <2>1, <2>3, SynthesizeChunkKeeps
<1>3. CASE UNCHANGED Speech!vars
  <2>1. UNCHANGED <<Speech!job, pc, blame, held, calls, rate, samples, published>>
    BY <1>3 DEF Speech!vars, Speech!job
  <2>2. Speech!TypeOK' /\ Speech!ChunksAreComplete'
    BY <2>1 DEF Speech!SpeechInv, Speech!TypeOK, Speech!Labels, Speech!Ended, Speech!job,
                Speech!ChunksAreComplete
  <2>3. Speech!WorkIsAdmitted' /\ Speech!CountsFollowChunks'
    <3>1. \/ req.sound /\ ~Speech!DurationOver
          \/ /\ blame' # "request" /\ pc' \notin {"budget", "synthesizing", "late", "joining"}
             /\ ~(pc' = "exit" /\ held' = {})
      BY <2>1 DEF Speech!SpeechInv, Speech!WorkIsAdmitted
    <3> QED
      BY <2>1, <3>1, SpeechQuiet
  <2> QED
    BY <1>1, <2>2, <2>3 DEF Speech!SpeechInv
<1> QED
  BY <1>1, <1>2, <1>3, SpeechCancelKeeps, PreflightKeeps, SpeechAcquireKeeps,
     SpeechProbeBeforeKeeps, CheckControlsKeeps, CheckBudgetKeeps, SynthesisFailsKeeps,
     SpeechProbeAfterKeeps, SpeechExitLeaseKeeps, SpeechPublishKeeps DEF Speech!Step

\* What the composite properties ask of a narration.
LEMMA SpeechConsequences ==
    ASSUME Speech!SpeechInv
    PROVE  /\ Speech!OutputWithinLimit /\ Speech!EstimateStopsEarly
           /\ Speech!RefusedControlsKeepRuntime /\ Speech!NothingPublishedAfterRefusal
<1>1. Speech!OutputWithinLimit
  BY DEF Speech!SpeechInv, Speech!CountsFollowChunks, Speech!ChunksAreComplete,
         Speech!OutputWithinLimit
<1>2. Speech!EstimateStopsEarly
  BY DEF Speech!SpeechInv, Speech!CountsFollowChunks, Speech!WorkIsAdmitted,
         Speech!EstimateStopsEarly
<1>3. Speech!RefusedControlsKeepRuntime /\ Speech!NothingPublishedAfterRefusal
  BY DEF Speech!SpeechInv, Speech!WorkIsAdmitted, Speech!ChunksAreComplete,
         Speech!RefusedControlsKeepRuntime, Speech!NothingPublishedAfterRefusal
<1> QED
  BY <1>1, <1>2, <1>3

-----------------------------------------------------------------------------
(* Text jobs.                                                               *)

LEMMA TextInit == Init /\ medium = "text" => Text!TextInv
<1> SUFFICES ASSUME Init, medium = "text"
             PROVE  Text!TextInv
  OBVIOUS
<1>1. Text!Init
  BY DEF Init
<1>2. Text!TypeOK
  <2>1. /\ cached \in BOOLEAN /\ owner \in Jobs \cup {NoJob}
        /\ raises \in [Jobs -> 0..2]
        /\ pc \in [Jobs -> Text!Labels]
    BY <1>1 DEF Text!Init, Text!Labels
  <2>5. faults \in 0..TextFaults
    BY <1>1, JobsAssumption DEF Text!Init
  <2>2. /\ cancelled \in [Jobs -> BOOLEAN] /\ seen \in [Jobs -> BOOLEAN]
        /\ stood \in [Jobs -> BOOLEAN]
    BY <1>1 DEF Text!Init
  <2>3. /\ held \in [Jobs -> SUBSET {"probe", "cancel", "schema"}]
        /\ files \in [Jobs -> SUBSET Text!Files]
    BY <1>1 DEF Text!Init
  <2>4. /\ attempt \in [Jobs -> 0..2] /\ shown \in [Jobs -> 0..2] /\ raw \in [Jobs -> 0..2]
        /\ accepted \in [Jobs -> 0..2]
    BY <1>1 DEF Text!Init
  <2> QED
    BY <2>1, <2>2, <2>3, <2>4, <2>5 DEF Text!TypeOK
<1>3. Text!LeaseIsHeld
  BY <1>1, JobsAssumption DEF Text!Init, Text!LeaseIsHeld, Text!InLease
<1>4. ASSUME NEW j \in Jobs
      PROVE  Text!IsAccounted(j)
  BY <1>1 DEF Text!Init, Text!IsAccounted, Text!CallsInOrder, Text!ErrorsAreHeld,
              Text!OneResponseCounts, Text!FilesInOrder, Text!Early
<1> QED
  BY <1>2, <1>3, <1>4 DEF Text!TextInv, Text!JobsInv

\* A step of one job leaves the others as they are.
LEMMA TextOthers ==
    ASSUME Text!JobsInv, NEW j \in Jobs, Text!TypeOK', Text!IsAccounted(j)',
           \A k \in Jobs \ {j} :
               /\ pc'[k] = pc[k] /\ cancelled'[k] = cancelled[k] /\ held'[k] = held[k]
               /\ attempt'[k] = attempt[k] /\ shown'[k] = shown[k] /\ raw'[k] = raw[k]
               /\ accepted'[k] = accepted[k] /\ seen'[k] = seen[k] /\ stood'[k] = stood[k]
               /\ files'[k] = files[k]
    PROVE  Text!JobsInv'
<1>1. ASSUME NEW k \in Jobs \ {j}
      PROVE  Text!IsAccounted(k)'
  <2>1. Text!IsAccounted(k)
    BY DEF Text!JobsInv
  <2>2. /\ pc'[k] = pc[k] /\ cancelled'[k] = cancelled[k] /\ held'[k] = held[k]
      /\ attempt'[k] = attempt[k] /\ shown'[k] = shown[k] /\ raw'[k] = raw[k]
      /\ accepted'[k] = accepted[k] /\ seen'[k] = seen[k] /\ stood'[k] = stood[k]
      /\ files'[k] = files[k]
    BY <1>1
  <2>3. Text!CallsInOrder(k)' /\ Text!ErrorsAreHeld(k)'
    BY <2>1, <2>2 DEF Text!IsAccounted, Text!CallsInOrder, Text!ErrorsAreHeld
  <2>4. Text!OneResponseCounts(k)' /\ Text!FilesInOrder(k)'
    BY <2>1, <2>2 DEF Text!IsAccounted, Text!OneResponseCounts, Text!FilesInOrder
  <2> QED
    BY <2>3, <2>4 DEF Text!IsAccounted
<1> QED
  BY <1>1 DEF Text!JobsInv

\* The user cancels a job.
LEMMA TextCancelled ==
    ASSUME Text!JobsInv, NEW j \in Jobs,
           pc[j] \notin Text!Ended,
           cancelled' = [cancelled EXCEPT ![j] = TRUE],
           UNCHANGED <<pc, held, attempt, shown, raw, accepted, seen, stood, files>>,
           cached' \in BOOLEAN,
           owner' \in Jobs \cup {NoJob},
           raises' = raises,
           faults' \in 0..TextFaults
    PROVE  Text!JobsInv'
<1>1. Text!IsAccounted(j)
  BY DEF Text!JobsInv
<1>2. Text!TypeOK'
  BY DEF Text!JobsInv, Text!TypeOK
<1>3. /\ pc'[j] = pc[j] /\ cancelled'[j] = TRUE /\ held'[j] = held[j]
      /\ attempt'[j] = attempt[j] /\ shown'[j] = shown[j] /\ raw'[j] = raw[j]
      /\ accepted'[j] = accepted[j] /\ seen'[j] = seen[j] /\ stood'[j] = stood[j]
      /\ files'[j] = files[j]
  BY DEF Text!JobsInv, Text!TypeOK
<1>4. \A k \in Jobs \ {j} : /\ pc'[k] = pc[k] /\ cancelled'[k] = cancelled[k]
                          /\ held'[k] = held[k] /\ attempt'[k] = attempt[k]
                          /\ shown'[k] = shown[k] /\ raw'[k] = raw[k]
                          /\ accepted'[k] = accepted[k] /\ seen'[k] = seen[k]
                          /\ stood'[k] = stood[k] /\ files'[k] = files[k]
  BY DEF Text!JobsInv, Text!TypeOK
<1>5. Text!CallsInOrder(j)'
  BY <1>1, <1>3 DEF Text!IsAccounted, Text!CallsInOrder, Text!Early
<1>6. Text!ErrorsAreHeld(j)'
  BY <1>1, <1>3 DEF Text!IsAccounted, Text!ErrorsAreHeld, Text!Early
<1>7. Text!OneResponseCounts(j)'
  BY <1>1, <1>3 DEF Text!IsAccounted, Text!OneResponseCounts, Text!Early
<1>8. Text!FilesInOrder(j)'
  BY <1>1, <1>3 DEF Text!IsAccounted, Text!FilesInOrder, Text!Early
<1>9. Text!IsAccounted(j)'
  BY <1>5, <1>6, <1>7, <1>8 DEF Text!IsAccounted
<1> QED
  BY <1>2, <1>4, <1>9, TextOthers

\* A job moves on where it makes no call and writes no file.
LEMMA TextGoesOn ==
    ASSUME Text!JobsInv, NEW j \in Jobs,
           NEW l \in Text!Labels,
           \/ pc[j] = "new" /\ l \in {"waiting", "failed"}
           \/ pc[j] = "waiting" /\ l \in {"leased", "cancelled"}
           \/ pc[j] = "judging" /\ l \in {"succeeded", "failed"}
           \/ pc[j] \in {"refused", "writing_md", "writing_json"} /\ l = "failed",
           pc' = [pc EXCEPT ![j] = l],
           UNCHANGED <<cancelled, held, attempt, shown, raw, accepted, seen, stood, files>>,
           cached' \in BOOLEAN,
           owner' \in Jobs \cup {NoJob},
           raises' = raises,
           faults' \in 0..TextFaults
    PROVE  Text!JobsInv'
<1>1. Text!IsAccounted(j)
  BY DEF Text!JobsInv
<1>2. Text!TypeOK'
  BY DEF Text!JobsInv, Text!TypeOK
<1>3. /\ pc'[j] = l /\ cancelled'[j] = cancelled[j] /\ held'[j] = held[j]
      /\ attempt'[j] = attempt[j] /\ shown'[j] = shown[j] /\ raw'[j] = raw[j]
      /\ accepted'[j] = accepted[j] /\ seen'[j] = seen[j] /\ stood'[j] = stood[j]
      /\ files'[j] = files[j]
  BY DEF Text!JobsInv, Text!TypeOK
<1>4. \A k \in Jobs \ {j} : /\ pc'[k] = pc[k] /\ cancelled'[k] = cancelled[k]
                          /\ held'[k] = held[k] /\ attempt'[k] = attempt[k]
                          /\ shown'[k] = shown[k] /\ raw'[k] = raw[k]
                          /\ accepted'[k] = accepted[k] /\ seen'[k] = seen[k]
                          /\ stood'[k] = stood[k] /\ files'[k] = files[k]
  BY DEF Text!JobsInv, Text!TypeOK
<1>5. Text!CallsInOrder(j)'
  BY <1>1, <1>3 DEF Text!IsAccounted, Text!CallsInOrder, Text!Early
<1>6. Text!ErrorsAreHeld(j)'
  BY <1>1, <1>3 DEF Text!IsAccounted, Text!ErrorsAreHeld, Text!Early
<1>7. Text!OneResponseCounts(j)'
  BY <1>1, <1>3 DEF Text!IsAccounted, Text!OneResponseCounts, Text!Early
<1>8. Text!FilesInOrder(j)'
  BY <1>1, <1>3 DEF Text!IsAccounted, Text!FilesInOrder, Text!Early
<1>9. Text!IsAccounted(j)'
  BY <1>5, <1>6, <1>7, <1>8 DEF Text!IsAccounted
<1> QED
  BY <1>2, <1>4, <1>9, TextOthers

\* A probe finds the job wanted.
LEMMA TextProbedClear ==
    ASSUME Text!JobsInv, NEW j \in Jobs,
           NEW l \in Text!Labels,
           \/ pc[j] \in {"leased", "between"} /\ l = "call"
           \/ pc[j] = "late" /\ l = "exit",
           ~cancelled[j],
           pc' = [pc EXCEPT ![j] = l],
           UNCHANGED <<cancelled, held, attempt, shown, raw, accepted, seen, stood, files>>,
           cached' \in BOOLEAN,
           owner' \in Jobs \cup {NoJob},
           raises' = raises,
           faults' \in 0..TextFaults
    PROVE  Text!JobsInv'
<1>1. Text!IsAccounted(j)
  BY DEF Text!JobsInv
<1>2. Text!TypeOK'
  BY DEF Text!JobsInv, Text!TypeOK
<1>3. /\ pc'[j] = l /\ cancelled'[j] = cancelled[j] /\ held'[j] = held[j]
      /\ attempt'[j] = attempt[j] /\ shown'[j] = shown[j] /\ raw'[j] = raw[j]
      /\ accepted'[j] = accepted[j] /\ seen'[j] = seen[j] /\ stood'[j] = stood[j]
      /\ files'[j] = files[j]
  BY DEF Text!JobsInv, Text!TypeOK
<1>4. \A k \in Jobs \ {j} : /\ pc'[k] = pc[k] /\ cancelled'[k] = cancelled[k]
                          /\ held'[k] = held[k] /\ attempt'[k] = attempt[k]
                          /\ shown'[k] = shown[k] /\ raw'[k] = raw[k]
                          /\ accepted'[k] = accepted[k] /\ seen'[k] = seen[k]
                          /\ stood'[k] = stood[k] /\ files'[k] = files[k]
  BY DEF Text!JobsInv, Text!TypeOK
<1>5. Text!CallsInOrder(j)'
  BY <1>1, <1>3 DEF Text!IsAccounted, Text!CallsInOrder, Text!Early
<1>6. Text!ErrorsAreHeld(j)'
  BY <1>1, <1>3 DEF Text!IsAccounted, Text!ErrorsAreHeld, Text!Early
<1>7. Text!OneResponseCounts(j)'
  BY <1>1, <1>3 DEF Text!IsAccounted, Text!OneResponseCounts, Text!Early
<1>8. Text!FilesInOrder(j)'
  BY <1>1, <1>3 DEF Text!IsAccounted, Text!FilesInOrder, Text!Early
<1>9. Text!IsAccounted(j)'
  BY <1>5, <1>6, <1>7, <1>8 DEF Text!IsAccounted
<1> QED
  BY <1>2, <1>4, <1>9, TextOthers

\* It fails.
LEMMA TextProbeFails ==
    ASSUME Text!JobsInv, NEW j \in Jobs,
           pc[j] \in {"leased", "between", "late"},
           pc' = [pc EXCEPT ![j] = "exit"],
           held' = [held EXCEPT ![j] = @ \cup {"probe"}],
           UNCHANGED <<cancelled, attempt, shown, raw, accepted, seen, stood, files>>,
           cached' \in BOOLEAN,
           owner' \in Jobs \cup {NoJob},
           raises' = raises,
           faults' \in 0..TextFaults
    PROVE  Text!JobsInv'
<1>1. Text!IsAccounted(j)
  BY DEF Text!JobsInv
<1>2. files[j] = {} /\ ~seen[j]
  BY <1>1 DEF Text!IsAccounted, Text!Early, Text!ErrorsAreHeld, Text!FilesInOrder
<1>3. Text!TypeOK'
  BY <1>2 DEF Text!JobsInv, Text!TypeOK, Text!Labels
<1>4. /\ pc'[j] = "exit" /\ cancelled'[j] = cancelled[j]
      /\ held'[j] = held[j] \cup {"probe"} /\ attempt'[j] = attempt[j]
      /\ shown'[j] = shown[j] /\ raw'[j] = raw[j] /\ accepted'[j] = accepted[j]
      /\ seen'[j] = seen[j] /\ stood'[j] = stood[j] /\ files'[j] = files[j]
  BY DEF Text!JobsInv, Text!TypeOK
<1>5. \A k \in Jobs \ {j} : /\ pc'[k] = pc[k] /\ cancelled'[k] = cancelled[k]
                          /\ held'[k] = held[k] /\ attempt'[k] = attempt[k]
                          /\ shown'[k] = shown[k] /\ raw'[k] = raw[k]
                          /\ accepted'[k] = accepted[k] /\ seen'[k] = seen[k]
                          /\ stood'[k] = stood[k] /\ files'[k] = files[k]
  BY DEF Text!JobsInv, Text!TypeOK
<1>6. Text!CallsInOrder(j)'
  BY <1>1, <1>4, <1>2 DEF Text!IsAccounted, Text!CallsInOrder, Text!Early
<1>7. Text!ErrorsAreHeld(j)'
  BY <1>1, <1>4, <1>2 DEF Text!IsAccounted, Text!ErrorsAreHeld, Text!Early
<1>8. Text!OneResponseCounts(j)'
  BY <1>1, <1>4, <1>2 DEF Text!IsAccounted, Text!OneResponseCounts, Text!Early
<1>9. Text!FilesInOrder(j)'
  BY <1>1, <1>4, <1>2 DEF Text!IsAccounted, Text!FilesInOrder, Text!Early
<1>10. Text!IsAccounted(j)'
  BY <1>6, <1>7, <1>8, <1>9 DEF Text!IsAccounted
<1> QED
  BY <1>3, <1>5, <1>10, TextOthers

\* It finds it cancelled.
LEMMA TextSeenCancelled ==
    ASSUME Text!JobsInv, NEW j \in Jobs,
           pc[j] \in {"leased", "between", "late"},
           pc' = [pc EXCEPT ![j] = "exit"],
           held' = [held EXCEPT ![j] = @ \cup {"cancel"}],
           seen' = [seen EXCEPT ![j] = TRUE],
           UNCHANGED <<cancelled, attempt, shown, raw, accepted, stood, files>>,
           cached' \in BOOLEAN,
           owner' \in Jobs \cup {NoJob},
           raises' = raises,
           faults' \in 0..TextFaults
    PROVE  Text!JobsInv'
<1>1. Text!IsAccounted(j)
  BY DEF Text!JobsInv
<1>2. files[j] = {} /\ ~seen[j]
  BY <1>1 DEF Text!IsAccounted, Text!Early, Text!ErrorsAreHeld, Text!FilesInOrder
<1>3. Text!TypeOK'
  BY <1>2 DEF Text!JobsInv, Text!TypeOK, Text!Labels
<1>4. /\ pc'[j] = "exit" /\ cancelled'[j] = cancelled[j]
      /\ held'[j] = held[j] \cup {"cancel"} /\ attempt'[j] = attempt[j]
      /\ shown'[j] = shown[j] /\ raw'[j] = raw[j] /\ accepted'[j] = accepted[j]
      /\ seen'[j] = TRUE /\ stood'[j] = stood[j] /\ files'[j] = files[j]
  BY DEF Text!JobsInv, Text!TypeOK
<1>5. \A k \in Jobs \ {j} : /\ pc'[k] = pc[k] /\ cancelled'[k] = cancelled[k]
                          /\ held'[k] = held[k] /\ attempt'[k] = attempt[k]
                          /\ shown'[k] = shown[k] /\ raw'[k] = raw[k]
                          /\ accepted'[k] = accepted[k] /\ seen'[k] = seen[k]
                          /\ stood'[k] = stood[k] /\ files'[k] = files[k]
  BY DEF Text!JobsInv, Text!TypeOK
<1>6. Text!CallsInOrder(j)'
  BY <1>1, <1>4, <1>2 DEF Text!IsAccounted, Text!CallsInOrder, Text!Early
<1>7. Text!ErrorsAreHeld(j)'
  BY <1>1, <1>4, <1>2 DEF Text!IsAccounted, Text!ErrorsAreHeld, Text!Early
<1>8. Text!OneResponseCounts(j)'
  BY <1>1, <1>4, <1>2 DEF Text!IsAccounted, Text!OneResponseCounts, Text!Early
<1>9. Text!FilesInOrder(j)'
  BY <1>1, <1>4, <1>2 DEF Text!IsAccounted, Text!FilesInOrder, Text!Early
<1>10. Text!IsAccounted(j)'
  BY <1>6, <1>7, <1>8, <1>9 DEF Text!IsAccounted
<1> QED
  BY <1>3, <1>5, <1>10, TextOthers

\* A response satisfies the schema.
LEMMA TextAccepts ==
    ASSUME Text!JobsInv, NEW j \in Jobs,
           pc[j] = "call",
           pc' = [pc EXCEPT ![j] = "late"],
           attempt' = [attempt EXCEPT ![j] = @ + 1],
           raw' = [raw EXCEPT ![j] = attempt[j] + 1],
           accepted' = [accepted EXCEPT ![j] = attempt[j] + 1],
           UNCHANGED <<cancelled, held, shown, seen, stood, files>>,
           cached' \in BOOLEAN,
           owner' \in Jobs \cup {NoJob},
           raises' = raises,
           faults' \in 0..TextFaults
    PROVE  Text!JobsInv'
<1>1. Text!IsAccounted(j)
  BY DEF Text!JobsInv
<1>2. held[j] = {} /\ accepted[j] = 0 /\ files[j] = {} /\ ~seen[j] /\ ~stood[j]
  BY <1>1
     DEF Text!IsAccounted, Text!CallsInOrder, Text!Early, Text!ErrorsAreHeld,
         Text!OneResponseCounts, Text!FilesInOrder
<1>3. attempt[j] \in {0, 1} /\ attempt[j] + 1 \in 0..2
  BY <1>1, <1>2 DEF Text!IsAccounted, Text!CallsInOrder
<1>4. Text!TypeOK'
  BY <1>2, <1>3 DEF Text!JobsInv, Text!TypeOK, Text!Labels
<1>5. /\ pc'[j] = "late" /\ cancelled'[j] = cancelled[j] /\ held'[j] = held[j]
      /\ attempt'[j] = attempt[j] + 1 /\ shown'[j] = shown[j] /\ raw'[j] = attempt[j] + 1
      /\ accepted'[j] = attempt[j] + 1 /\ seen'[j] = seen[j] /\ stood'[j] = stood[j]
      /\ files'[j] = files[j]
  BY DEF Text!JobsInv, Text!TypeOK
<1>6. \A k \in Jobs \ {j} : /\ pc'[k] = pc[k] /\ cancelled'[k] = cancelled[k]
                          /\ held'[k] = held[k] /\ attempt'[k] = attempt[k]
                          /\ shown'[k] = shown[k] /\ raw'[k] = raw[k]
                          /\ accepted'[k] = accepted[k] /\ seen'[k] = seen[k]
                          /\ stood'[k] = stood[k] /\ files'[k] = files[k]
  BY DEF Text!JobsInv, Text!TypeOK
<1>7. Text!CallsInOrder(j)'
  BY <1>1, <1>5 DEF Text!IsAccounted, Text!CallsInOrder, Text!Early
<1>8. Text!ErrorsAreHeld(j)'
  BY <1>1, <1>5 DEF Text!IsAccounted, Text!ErrorsAreHeld, Text!Early
<1>9. Text!OneResponseCounts(j)'
  BY <1>1, <1>5, <1>3 DEF Text!IsAccounted, Text!OneResponseCounts, Text!Early
<1>10. Text!FilesInOrder(j)'
  BY <1>1, <1>5 DEF Text!IsAccounted, Text!FilesInOrder, Text!Early
<1>11. Text!IsAccounted(j)'
  BY <1>7, <1>8, <1>9, <1>10 DEF Text!IsAccounted
<1> QED
  BY <1>4, <1>6, <1>11, TextOthers

\* The first response does not: it will be shown.
LEMMA TextRefusesFirst ==
    ASSUME Text!JobsInv, NEW j \in Jobs,
           pc[j] = "call",
           attempt[j] = 0,
           pc' = [pc EXCEPT ![j] = "between"],
           attempt' = [attempt EXCEPT ![j] = @ + 1],
           raw' = [raw EXCEPT ![j] = attempt[j] + 1],
           shown' = [shown EXCEPT ![j] = attempt[j] + 1],
           stood' = [stood EXCEPT ![j] = @ \/ (cancelled[j] /\ attempt[j] = 0)],
           UNCHANGED <<cancelled, held, accepted, seen, files>>,
           cached' \in BOOLEAN,
           owner' \in Jobs \cup {NoJob},
           raises' = raises,
           faults' \in 0..TextFaults
    PROVE  Text!JobsInv'
<1>1. Text!IsAccounted(j)
  BY DEF Text!JobsInv
<1>2. held[j] = {} /\ accepted[j] = 0 /\ files[j] = {} /\ ~seen[j] /\ ~stood[j]
  BY <1>1
     DEF Text!IsAccounted, Text!CallsInOrder, Text!Early, Text!ErrorsAreHeld,
         Text!OneResponseCounts, Text!FilesInOrder
<1>3. attempt[j] \in {0, 1} /\ attempt[j] + 1 \in 0..2
  BY <1>1, <1>2
<1>4. Text!TypeOK'
  BY <1>2, <1>3 DEF Text!JobsInv, Text!TypeOK, Text!Labels
<1>5. /\ pc'[j] = "between" /\ cancelled'[j] = cancelled[j] /\ held'[j] = held[j]
      /\ attempt'[j] = 1 /\ shown'[j] = 1 /\ raw'[j] = 1 /\ accepted'[j] = accepted[j]
      /\ seen'[j] = seen[j] /\ stood'[j] = cancelled[j] /\ files'[j] = files[j]
  BY <1>2, <1>3 DEF Text!JobsInv, Text!TypeOK
<1>6. \A k \in Jobs \ {j} : /\ pc'[k] = pc[k] /\ cancelled'[k] = cancelled[k]
                          /\ held'[k] = held[k] /\ attempt'[k] = attempt[k]
                          /\ shown'[k] = shown[k] /\ raw'[k] = raw[k]
                          /\ accepted'[k] = accepted[k] /\ seen'[k] = seen[k]
                          /\ stood'[k] = stood[k] /\ files'[k] = files[k]
  BY DEF Text!JobsInv, Text!TypeOK
<1>7. Text!CallsInOrder(j)'
  BY <1>1, <1>5 DEF Text!IsAccounted, Text!CallsInOrder, Text!Early
<1>8. Text!ErrorsAreHeld(j)'
  BY <1>1, <1>5 DEF Text!IsAccounted, Text!ErrorsAreHeld, Text!Early
<1>9. Text!OneResponseCounts(j)'
  BY <1>1, <1>5 DEF Text!IsAccounted, Text!OneResponseCounts, Text!Early
<1>10. Text!FilesInOrder(j)'
  BY <1>1, <1>5 DEF Text!IsAccounted, Text!FilesInOrder, Text!Early
<1>11. Text!IsAccounted(j)'
  BY <1>7, <1>8, <1>9, <1>10 DEF Text!IsAccounted
<1> QED
  BY <1>4, <1>6, <1>11, TextOthers

\* The second does not: the error is held.
LEMMA TextRefusesSecond ==
    ASSUME Text!JobsInv, NEW j \in Jobs,
           pc[j] = "call",
           attempt[j] # 0,
           pc' = [pc EXCEPT ![j] = "late"],
           attempt' = [attempt EXCEPT ![j] = @ + 1],
           raw' = [raw EXCEPT ![j] = attempt[j] + 1],
           shown' = [shown EXCEPT ![j] = attempt[j] + 1],
           stood' = [stood EXCEPT ![j] = @ \/ (cancelled[j] /\ attempt[j] = 0)],
           held' = [held EXCEPT ![j] = @ \cup {"schema"}],
           UNCHANGED <<cancelled, accepted, seen, files>>,
           cached' \in BOOLEAN,
           owner' \in Jobs \cup {NoJob},
           raises' = raises,
           faults' \in 0..TextFaults
    PROVE  Text!JobsInv'
<1>1. Text!IsAccounted(j)
  BY DEF Text!JobsInv
<1>2. held[j] = {} /\ accepted[j] = 0 /\ files[j] = {} /\ ~seen[j] /\ ~stood[j]
  BY <1>1
     DEF Text!IsAccounted, Text!CallsInOrder, Text!Early, Text!ErrorsAreHeld,
         Text!OneResponseCounts, Text!FilesInOrder
<1>3. attempt[j] = 1
  BY <1>1, <1>2 DEF Text!IsAccounted, Text!CallsInOrder
<1>4. Text!TypeOK'
  BY <1>2, <1>3 DEF Text!JobsInv, Text!TypeOK, Text!Labels
<1>5. /\ pc'[j] = "late" /\ cancelled'[j] = cancelled[j] /\ held'[j] = {"schema"}
      /\ attempt'[j] = 2 /\ shown'[j] = 2 /\ raw'[j] = 2 /\ accepted'[j] = accepted[j]
      /\ seen'[j] = seen[j] /\ stood'[j] = FALSE /\ files'[j] = files[j]
  BY <1>2, <1>3 DEF Text!JobsInv, Text!TypeOK
<1>6. \A k \in Jobs \ {j} : /\ pc'[k] = pc[k] /\ cancelled'[k] = cancelled[k]
                          /\ held'[k] = held[k] /\ attempt'[k] = attempt[k]
                          /\ shown'[k] = shown[k] /\ raw'[k] = raw[k]
                          /\ accepted'[k] = accepted[k] /\ seen'[k] = seen[k]
                          /\ stood'[k] = stood[k] /\ files'[k] = files[k]
  BY DEF Text!JobsInv, Text!TypeOK
<1>7. Text!CallsInOrder(j)'
  BY <1>1, <1>5 DEF Text!IsAccounted, Text!CallsInOrder, Text!Early
<1>8. Text!ErrorsAreHeld(j)'
  BY <1>1, <1>5 DEF Text!IsAccounted, Text!ErrorsAreHeld, Text!Early
<1>9. Text!OneResponseCounts(j)'
  BY <1>1, <1>5 DEF Text!IsAccounted, Text!OneResponseCounts, Text!Early
<1>10. Text!FilesInOrder(j)'
  BY <1>1, <1>5 DEF Text!IsAccounted, Text!FilesInOrder, Text!Early
<1>11. Text!IsAccounted(j)'
  BY <1>7, <1>8, <1>9, <1>10 DEF Text!IsAccounted
<1> QED
  BY <1>4, <1>6, <1>11, TextOthers

\* A call of the model raises.
LEMMA TextCallRaises ==
    ASSUME Text!JobsInv, NEW j \in Jobs,
           pc[j] = "call",
           pc' = [pc EXCEPT ![j] = "failed"],
           attempt' = [attempt EXCEPT ![j] = @ + 1],
           UNCHANGED <<cancelled, held, shown, raw, accepted, seen, stood, files>>,
           cached' \in BOOLEAN,
           owner' \in Jobs \cup {NoJob},
           raises' = raises,
           faults' \in 0..TextFaults
    PROVE  Text!JobsInv'
<1>1. Text!IsAccounted(j)
  BY DEF Text!JobsInv
<1>2. held[j] = {} /\ accepted[j] = 0 /\ files[j] = {} /\ ~seen[j] /\ ~stood[j]
  BY <1>1
     DEF Text!IsAccounted, Text!CallsInOrder, Text!Early, Text!ErrorsAreHeld,
         Text!OneResponseCounts, Text!FilesInOrder
<1>3. attempt[j] \in {0, 1} /\ attempt[j] + 1 \in 0..2
  BY <1>1, <1>2 DEF Text!IsAccounted, Text!CallsInOrder
<1>4. Text!TypeOK'
  BY <1>2, <1>3 DEF Text!JobsInv, Text!TypeOK, Text!Labels, Text!Ended
<1>5. /\ pc'[j] = "failed" /\ cancelled'[j] = cancelled[j] /\ held'[j] = held[j]
      /\ attempt'[j] = attempt[j] + 1 /\ shown'[j] = shown[j] /\ raw'[j] = raw[j]
      /\ accepted'[j] = accepted[j] /\ seen'[j] = seen[j] /\ stood'[j] = stood[j]
      /\ files'[j] = files[j]
  BY DEF Text!JobsInv, Text!TypeOK
<1>6. \A k \in Jobs \ {j} : /\ pc'[k] = pc[k] /\ cancelled'[k] = cancelled[k]
                          /\ held'[k] = held[k] /\ attempt'[k] = attempt[k]
                          /\ shown'[k] = shown[k] /\ raw'[k] = raw[k]
                          /\ accepted'[k] = accepted[k] /\ seen'[k] = seen[k]
                          /\ stood'[k] = stood[k] /\ files'[k] = files[k]
  BY DEF Text!JobsInv, Text!TypeOK
<1>7. Text!CallsInOrder(j)'
  BY <1>1, <1>5 DEF Text!IsAccounted, Text!CallsInOrder, Text!Early
<1>8. Text!ErrorsAreHeld(j)'
  BY <1>1, <1>5 DEF Text!IsAccounted, Text!ErrorsAreHeld, Text!Early
<1>9. Text!OneResponseCounts(j)'
  BY <1>1, <1>5, <1>3 DEF Text!IsAccounted, Text!OneResponseCounts, Text!Early
<1>10. Text!FilesInOrder(j)'
  BY <1>1, <1>5 DEF Text!IsAccounted, Text!FilesInOrder, Text!Early
<1>11. Text!IsAccounted(j)'
  BY <1>7, <1>8, <1>9, <1>10 DEF Text!IsAccounted
<1> QED
  BY <1>4, <1>6, <1>11, TextOthers

\* The lease ends.
LEMMA TextLeaves ==
    ASSUME Text!JobsInv, NEW j \in Jobs,
           pc[j] = "exit",
           pc' = [pc EXCEPT ![j] = Text!Outcome(j)],
           UNCHANGED <<cancelled, held, attempt, shown, raw, accepted, seen, stood, files>>,
           cached' \in BOOLEAN,
           owner' \in Jobs \cup {NoJob},
           raises' = raises,
           faults' \in 0..TextFaults
    PROVE  Text!JobsInv'
<1>1. Text!IsAccounted(j)
  BY DEF Text!JobsInv
<1>2. files[j] = {} /\ held[j] \subseteq {"probe", "cancel", "schema"}
  BY <1>1 DEF Text!JobsInv, Text!TypeOK, Text!IsAccounted, Text!FilesInOrder
<1>3. \/ Text!Outcome(j) \in {"failed", "cancelled"} /\ held[j] # {}
      \/ Text!Outcome(j) = "refused" /\ "schema" \in held[j] /\ ~seen[j]
      \/ Text!Outcome(j) = "writing_md" /\ held[j] = {} /\ accepted[j] # 0 /\ ~seen[j]
  BY <1>1, <1>2 DEF Text!IsAccounted, Text!ErrorsAreHeld, Text!OneResponseCounts, Text!Outcome
<1>4. Text!TypeOK'
  BY <1>2, <1>3 DEF Text!JobsInv, Text!TypeOK, Text!Labels, Text!Ended
<1>5. /\ pc'[j] = Text!Outcome(j) /\ cancelled'[j] = cancelled[j] /\ held'[j] = held[j]
      /\ attempt'[j] = attempt[j] /\ shown'[j] = shown[j] /\ raw'[j] = raw[j]
      /\ accepted'[j] = accepted[j] /\ seen'[j] = seen[j] /\ stood'[j] = stood[j]
      /\ files'[j] = files[j]
  BY DEF Text!JobsInv, Text!TypeOK
<1>6. \A k \in Jobs \ {j} : /\ pc'[k] = pc[k] /\ cancelled'[k] = cancelled[k]
                          /\ held'[k] = held[k] /\ attempt'[k] = attempt[k]
                          /\ shown'[k] = shown[k] /\ raw'[k] = raw[k]
                          /\ accepted'[k] = accepted[k] /\ seen'[k] = seen[k]
                          /\ stood'[k] = stood[k] /\ files'[k] = files[k]
  BY DEF Text!JobsInv, Text!TypeOK
<1>7. Text!CallsInOrder(j)'
  BY <1>1, <1>5, <1>3 DEF Text!IsAccounted, Text!CallsInOrder, Text!Early
<1>8. Text!ErrorsAreHeld(j)'
  BY <1>1, <1>5, <1>3 DEF Text!IsAccounted, Text!ErrorsAreHeld, Text!Early
<1>9. Text!OneResponseCounts(j)'
  BY <1>1, <1>5, <1>3 DEF Text!IsAccounted, Text!OneResponseCounts, Text!Early
<1>10. Text!FilesInOrder(j)'
  BY <1>1, <1>5, <1>3 DEF Text!IsAccounted, Text!FilesInOrder, Text!Early
<1>11. Text!IsAccounted(j)'
  BY <1>7, <1>8, <1>9, <1>10 DEF Text!IsAccounted
<1> QED
  BY <1>4, <1>6, <1>11, TextOthers

\* The refused response is written.
LEMMA TextKeepsEvidence ==
    ASSUME Text!JobsInv, NEW j \in Jobs,
           pc[j] = "refused",
           pc' = [pc EXCEPT ![j] = "failed"],
           files' = [files EXCEPT ![j] = @ \cup {<<"raw", raw[j]>>}],
           UNCHANGED <<cancelled, held, attempt, shown, raw, accepted, seen, stood>>,
           cached' \in BOOLEAN,
           owner' \in Jobs \cup {NoJob},
           raises' = raises,
           faults' \in 0..TextFaults
    PROVE  Text!JobsInv'
<1>1. Text!IsAccounted(j)
  BY DEF Text!JobsInv
<1>2. accepted[j] = 0 /\ raw[j] = attempt[j] /\ attempt[j] = 2 /\ files[j] = {} /\ ~seen[j]
  BY <1>1 DEF Text!IsAccounted, Text!ErrorsAreHeld, Text!OneResponseCounts, Text!FilesInOrder
<1>3. Text!TypeOK'
  BY <1>2 DEF Text!JobsInv, Text!TypeOK, Text!Labels, Text!Ended, Text!Files
<1>4. /\ pc'[j] = "failed" /\ cancelled'[j] = cancelled[j] /\ held'[j] = held[j]
      /\ attempt'[j] = attempt[j] /\ shown'[j] = shown[j] /\ raw'[j] = raw[j]
      /\ accepted'[j] = accepted[j] /\ seen'[j] = seen[j] /\ stood'[j] = stood[j]
      /\ files'[j] = {<<"raw", 2>>}
  BY <1>2 DEF Text!JobsInv, Text!TypeOK
<1>5. \A k \in Jobs \ {j} : /\ pc'[k] = pc[k] /\ cancelled'[k] = cancelled[k]
                          /\ held'[k] = held[k] /\ attempt'[k] = attempt[k]
                          /\ shown'[k] = shown[k] /\ raw'[k] = raw[k]
                          /\ accepted'[k] = accepted[k] /\ seen'[k] = seen[k]
                          /\ stood'[k] = stood[k] /\ files'[k] = files[k]
  BY DEF Text!JobsInv, Text!TypeOK
<1>6. Text!CallsInOrder(j)'
  BY <1>1, <1>4, <1>2 DEF Text!IsAccounted, Text!CallsInOrder, Text!Early
<1>7. Text!ErrorsAreHeld(j)'
  BY <1>1, <1>4, <1>2 DEF Text!IsAccounted, Text!ErrorsAreHeld, Text!Early
<1>8. Text!OneResponseCounts(j)'
  BY <1>1, <1>4, <1>2 DEF Text!IsAccounted, Text!OneResponseCounts, Text!Early
<1>9. Text!FilesInOrder(j)'
  BY <1>1, <1>4, <1>2 DEF Text!IsAccounted, Text!FilesInOrder, Text!Early
<1>10. Text!IsAccounted(j)'
  BY <1>6, <1>7, <1>8, <1>9 DEF Text!IsAccounted
<1> QED
  BY <1>3, <1>5, <1>10, TextOthers

\* The Markdown file is written.
LEMMA TextWritesMarkdown ==
    ASSUME Text!JobsInv, NEW j \in Jobs,
           pc[j] = "writing_md",
           pc' = [pc EXCEPT ![j] = "writing_json"],
           files' = [files EXCEPT ![j] = @ \cup {<<"md", accepted[j]>>}],
           UNCHANGED <<cancelled, held, attempt, shown, raw, accepted, seen, stood>>,
           cached' \in BOOLEAN,
           owner' \in Jobs \cup {NoJob},
           raises' = raises,
           faults' \in 0..TextFaults
    PROVE  Text!JobsInv'
<1>1. Text!IsAccounted(j)
  BY DEF Text!JobsInv
<1>2. accepted[j] \in 1..2 /\ accepted[j] = raw[j] /\ raw[j] = attempt[j] /\ ~seen[j]
  BY <1>1
     DEF Text!JobsInv, Text!TypeOK, Text!IsAccounted, Text!ErrorsAreHeld,
         Text!OneResponseCounts
<1>3. files[j] = {}
  BY <1>1, <1>2 DEF Text!IsAccounted, Text!FilesInOrder
<1>4. Text!TypeOK'
  BY <1>2, <1>3 DEF Text!JobsInv, Text!TypeOK, Text!Labels, Text!Files
<1>5. /\ pc'[j] = "writing_json" /\ cancelled'[j] = cancelled[j] /\ held'[j] = held[j]
      /\ attempt'[j] = attempt[j] /\ shown'[j] = shown[j] /\ raw'[j] = raw[j]
      /\ accepted'[j] = accepted[j] /\ seen'[j] = seen[j] /\ stood'[j] = stood[j]
      /\ files'[j] = {<<"md", accepted[j]>>}
  BY <1>2, <1>3 DEF Text!JobsInv, Text!TypeOK
<1>6. \A k \in Jobs \ {j} : /\ pc'[k] = pc[k] /\ cancelled'[k] = cancelled[k]
                          /\ held'[k] = held[k] /\ attempt'[k] = attempt[k]
                          /\ shown'[k] = shown[k] /\ raw'[k] = raw[k]
                          /\ accepted'[k] = accepted[k] /\ seen'[k] = seen[k]
                          /\ stood'[k] = stood[k] /\ files'[k] = files[k]
  BY DEF Text!JobsInv, Text!TypeOK
<1>7. Text!CallsInOrder(j)'
  BY <1>1, <1>5 DEF Text!IsAccounted, Text!CallsInOrder, Text!Early
<1>8. Text!ErrorsAreHeld(j)'
  BY <1>1, <1>5 DEF Text!IsAccounted, Text!ErrorsAreHeld, Text!Early
<1>9. Text!OneResponseCounts(j)'
  BY <1>1, <1>5 DEF Text!IsAccounted, Text!OneResponseCounts, Text!Early
<1>10. Text!FilesInOrder(j)'
  BY <1>1, <1>5 DEF Text!IsAccounted, Text!FilesInOrder, Text!Early
<1>11. Text!IsAccounted(j)'
  BY <1>7, <1>8, <1>9, <1>10 DEF Text!IsAccounted
<1> QED
  BY <1>4, <1>6, <1>11, TextOthers

\* The JSON file is written.
LEMMA TextWritesStructured ==
    ASSUME Text!JobsInv, NEW j \in Jobs,
           pc[j] = "writing_json",
           pc' = [pc EXCEPT ![j] = "judging"],
           files' = [files EXCEPT ![j] = @ \cup {<<"json", accepted[j]>>}],
           UNCHANGED <<cancelled, held, attempt, shown, raw, accepted, seen, stood>>,
           cached' \in BOOLEAN,
           owner' \in Jobs \cup {NoJob},
           raises' = raises,
           faults' \in 0..TextFaults
    PROVE  Text!JobsInv'
<1>1. Text!IsAccounted(j)
  BY DEF Text!JobsInv
<1>2. accepted[j] \in 1..2 /\ accepted[j] = raw[j] /\ raw[j] = attempt[j] /\ ~seen[j]
  BY <1>1
     DEF Text!JobsInv, Text!TypeOK, Text!IsAccounted, Text!ErrorsAreHeld,
         Text!OneResponseCounts
<1>3. files[j] = {<<"md", accepted[j]>>}
  BY <1>1, <1>2 DEF Text!IsAccounted, Text!FilesInOrder
<1>4. Text!TypeOK'
  BY <1>2, <1>3 DEF Text!JobsInv, Text!TypeOK, Text!Labels, Text!Files
<1>5. /\ pc'[j] = "judging" /\ cancelled'[j] = cancelled[j] /\ held'[j] = held[j]
      /\ attempt'[j] = attempt[j] /\ shown'[j] = shown[j] /\ raw'[j] = raw[j]
      /\ accepted'[j] = accepted[j] /\ seen'[j] = seen[j] /\ stood'[j] = stood[j]
      /\ files'[j] = {<<"md", accepted[j]>>, <<"json", accepted[j]>>}
  BY <1>2, <1>3 DEF Text!JobsInv, Text!TypeOK
<1>6. \A k \in Jobs \ {j} : /\ pc'[k] = pc[k] /\ cancelled'[k] = cancelled[k]
                          /\ held'[k] = held[k] /\ attempt'[k] = attempt[k]
                          /\ shown'[k] = shown[k] /\ raw'[k] = raw[k]
                          /\ accepted'[k] = accepted[k] /\ seen'[k] = seen[k]
                          /\ stood'[k] = stood[k] /\ files'[k] = files[k]
  BY DEF Text!JobsInv, Text!TypeOK
<1>7. Text!CallsInOrder(j)'
  BY <1>1, <1>5 DEF Text!IsAccounted, Text!CallsInOrder, Text!Early
<1>8. Text!ErrorsAreHeld(j)'
  BY <1>1, <1>5 DEF Text!IsAccounted, Text!ErrorsAreHeld, Text!Early
<1>9. Text!OneResponseCounts(j)'
  BY <1>1, <1>5 DEF Text!IsAccounted, Text!OneResponseCounts, Text!Early
<1>10. Text!FilesInOrder(j)'
  BY <1>1, <1>5 DEF Text!IsAccounted, Text!FilesInOrder, Text!Early
<1>11. Text!IsAccounted(j)'
  BY <1>7, <1>8, <1>9, <1>10 DEF Text!IsAccounted
<1> QED
  BY <1>4, <1>6, <1>11, TextOthers

\* What every step leaves of the shared runtime and of the count of faults.
LEMMA TextShared ==
    ASSUME Text!JobsInv
    PROVE  /\ cached \in BOOLEAN /\ FALSE \in BOOLEAN /\ TRUE \in BOOLEAN
           /\ owner \in Jobs \cup {NoJob} /\ NoJob \in Jobs \cup {NoJob}
           /\ (Text!Fault \/ Text!NoFault) => faults' \in 0..TextFaults
<1>1. faults \in 0..TextFaults
  BY DEF Text!JobsInv, Text!TypeOK
<1>2. (Text!Fault \/ Text!NoFault) => faults' \in 0..TextFaults
  BY <1>1, JobsAssumption DEF Text!Fault, Text!NoFault
<1> QED
  BY <1>2 DEF Text!JobsInv, Text!TypeOK

LEMMA TextCancelKeeps ==
    ASSUME Text!JobsInv, NEW j \in Jobs, Text!Cancel(j)
    PROVE  Text!JobsInv'
<1>1. faults' \in 0..TextFaults
  BY TextShared DEF Text!Cancel, Text!jobVars, Text!NoFault
<1> QED
  BY <1>1, TextCancelled, TextShared DEF Text!Cancel, Text!jobVars

LEMMA TextPrepareKeeps ==
    ASSUME Text!JobsInv, NEW j \in Jobs, Text!Prepare(j)
    PROVE  Text!JobsInv'
<1>1. faults' \in 0..TextFaults
  BY TextShared DEF Text!Prepare
<1>2. {"waiting", "failed", "leased", "cancelled", "exit", "call", "succeeded"} \subseteq Text!Labels
  BY DEF Text!Labels, Text!Ended
<1> QED
  BY <1>1, TextGoesOn, <1>2, TextShared DEF Text!Prepare, Text!Goto, Text!jobVars

LEMMA TextAcquireKeeps ==
    ASSUME Text!JobsInv, NEW j \in Jobs, Text!Acquire(j)
    PROVE  Text!JobsInv'
<1>1. faults' \in 0..TextFaults
  BY TextShared DEF Text!Acquire
<1>2. {"waiting", "failed", "leased", "cancelled", "exit", "call", "succeeded"} \subseteq Text!Labels
  BY DEF Text!Labels, Text!Ended
<1> QED
  BY <1>1, TextGoesOn, <1>2, TextShared DEF Text!Acquire, Text!Goto, Text!jobVars

LEMMA TextCancelledWhileWaitingKeeps ==
    ASSUME Text!JobsInv, NEW j \in Jobs, Text!CancelledWhileWaiting(j)
    PROVE  Text!JobsInv'
<1>1. faults' \in 0..TextFaults
  BY TextShared DEF Text!CancelledWhileWaiting
<1>2. {"waiting", "failed", "leased", "cancelled", "exit", "call", "succeeded"} \subseteq Text!Labels
  BY DEF Text!Labels, Text!Ended
<1> QED
  BY <1>1, TextGoesOn, <1>2, TextShared DEF Text!CancelledWhileWaiting, Text!Goto, Text!jobVars

LEMMA TextProbeBeforeKeeps ==
    ASSUME Text!JobsInv, NEW j \in Jobs, Text!ProbeBefore(j)
    PROVE  Text!JobsInv'
<1>1. faults' \in 0..TextFaults
  BY TextShared DEF Text!ProbeBefore, Text!Probe
<1>2. {"waiting", "failed", "leased", "cancelled", "exit", "call", "succeeded"} \subseteq Text!Labels
  BY DEF Text!Labels, Text!Ended
<1> QED
  BY <1>1, TextProbedClear, TextProbeFails, TextSeenCancelled, <1>2, TextShared
     DEF Text!ProbeBefore, Text!Probe, Text!Goto

LEMMA TextBetweenAttemptsKeeps ==
    ASSUME Text!JobsInv, NEW j \in Jobs, Text!BetweenAttempts(j)
    PROVE  Text!JobsInv'
<1>1. faults' \in 0..TextFaults
  BY TextShared DEF Text!BetweenAttempts, Text!Probe
<1>2. {"waiting", "failed", "leased", "cancelled", "exit", "call", "succeeded"} \subseteq Text!Labels
  BY DEF Text!Labels, Text!Ended
<1> QED
  BY <1>1, TextProbedClear, TextProbeFails, TextSeenCancelled, <1>2, TextShared
     DEF Text!BetweenAttempts, Text!Probe, Text!Goto

LEMMA TextLateProbeKeeps ==
    ASSUME Text!JobsInv, NEW j \in Jobs, Text!LateProbe(j)
    PROVE  Text!JobsInv'
<1>1. faults' \in 0..TextFaults
  BY TextShared DEF Text!LateProbe, Text!Probe
<1>2. {"waiting", "failed", "leased", "cancelled", "exit", "call", "succeeded"} \subseteq Text!Labels
  BY DEF Text!Labels, Text!Ended
<1> QED
  BY <1>1, TextProbedClear, TextProbeFails, TextSeenCancelled, <1>2, TextShared
     DEF Text!LateProbe, Text!Probe, Text!Goto

LEMMA TextAcceptKeeps ==
    ASSUME Text!JobsInv, NEW j \in Jobs, Text!Accept(j)
    PROVE  Text!JobsInv'
<1>1. faults' \in 0..TextFaults
  BY TextShared DEF Text!Accept, Text!Goto, Text!NoFault
<1> QED
  BY <1>1, TextAccepts, TextShared DEF Text!Accept, Text!Goto, Text!NoFault

LEMMA TextRefuseKeeps ==
    ASSUME Text!JobsInv, NEW j \in Jobs, Text!Refuse(j)
    PROVE  Text!JobsInv'
<1>1. faults' \in 0..TextFaults
  BY TextShared DEF Text!Refuse, Text!Goto, Text!NoFault
<1> QED
  BY <1>1, TextRefusesFirst, TextRefusesSecond, TextShared
     DEF Text!Refuse, Text!Goto, Text!NoFault

LEMMA TextCallRaisesKeeps ==
    ASSUME Text!JobsInv, NEW j \in Jobs, Text!CallRaises(j)
    PROVE  Text!JobsInv'
<1>1. faults' \in 0..TextFaults
  BY TextShared DEF Text!CallRaises, Text!Goto, Text!RaiseInLease
<1> QED
  BY <1>1, TextCallRaises, TextShared DEF Text!CallRaises, Text!Goto, Text!RaiseInLease

LEMMA TextExitLeaseKeeps ==
    ASSUME Text!JobsInv, NEW j \in Jobs, Text!ExitLease(j)
    PROVE  Text!JobsInv'
<1>1. faults' \in 0..TextFaults
  BY TextShared DEF Text!ExitLease
<1> QED
  BY <1>1, TextLeaves, TextShared DEF Text!ExitLease, Text!Goto, Text!jobVars

LEMMA TextWriteRawResponseKeeps ==
    ASSUME Text!JobsInv, NEW j \in Jobs, Text!WriteRawResponse(j)
    PROVE  Text!JobsInv'
<1>1. faults' \in 0..TextFaults
  BY TextShared DEF Text!WriteRawResponse, Text!Goto, Text!NoFault
<1>2. {"waiting", "failed", "leased", "cancelled", "exit", "call", "succeeded"} \subseteq Text!Labels
  BY DEF Text!Labels, Text!Ended
<1> QED
  BY <1>1, TextKeepsEvidence, TextGoesOn, <1>2, TextShared
     DEF Text!WriteRawResponse, Text!Goto, Text!NoFault

LEMMA TextWriteMarkdownKeeps ==
    ASSUME Text!JobsInv, NEW j \in Jobs, Text!WriteMarkdown(j)
    PROVE  Text!JobsInv'
<1>1. faults' \in 0..TextFaults
  BY TextShared DEF Text!WriteMarkdown, Text!WriteFile
<1>2. {"waiting", "failed", "leased", "cancelled", "exit", "call", "succeeded"} \subseteq Text!Labels
  BY DEF Text!Labels, Text!Ended
<1> QED
  BY <1>1, TextWritesMarkdown, TextGoesOn, <1>2, TextShared
     DEF Text!WriteMarkdown, Text!WriteFile, Text!Goto

LEMMA TextWriteStructuredKeeps ==
    ASSUME Text!JobsInv, NEW j \in Jobs, Text!WriteStructured(j)
    PROVE  Text!JobsInv'
<1>1. faults' \in 0..TextFaults
  BY TextShared DEF Text!WriteStructured, Text!WriteFile
<1>2. {"waiting", "failed", "leased", "cancelled", "exit", "call", "succeeded"} \subseteq Text!Labels
  BY DEF Text!Labels, Text!Ended
<1> QED
  BY <1>1, TextWritesStructured, TextGoesOn, <1>2, TextShared
     DEF Text!WriteStructured, Text!WriteFile, Text!Goto

LEMMA TextEvaluateQualityKeeps ==
    ASSUME Text!JobsInv, NEW j \in Jobs, Text!EvaluateQuality(j)
    PROVE  Text!JobsInv'
<1>1. faults' \in 0..TextFaults
  BY TextShared DEF Text!EvaluateQuality
<1>2. {"waiting", "failed", "leased", "cancelled", "exit", "call", "succeeded"} \subseteq Text!Labels
  BY DEF Text!Labels, Text!Ended
<1> QED
  BY <1>1, TextGoesOn, <1>2, TextShared DEF Text!EvaluateQuality, Text!Goto, Text!jobVars

\* A job's own step neither takes the lease of another nor keeps its own too long.
LEMMA TextLeaseMoves ==
    ASSUME Text!JobsInv, Text!LeaseIsHeld, NEW j \in Jobs, NEW l \in Text!Labels,
           pc' = [pc EXCEPT ![j] = l], raises' = raises,
           \A k \in Jobs \ {j} : attempt'[k] = attempt[k],
           l \in Text!InLease => raises[j] \notin 1..attempt'[j],
           \/ /\ pc[j] \in Text!InLease <=> l \in Text!InLease
              /\ owner' = owner /\ cached' = cached
           \/ pc[j] \in Text!InLease /\ l \notin Text!InLease /\ owner' = NoJob
           \/ /\ pc[j] \notin Text!InLease /\ l \in Text!InLease
              /\ owner = NoJob /\ owner' = j /\ cached' = TRUE
    PROVE  Text!LeaseIsHeld'
<1>1. /\ pc'[j] = l
      /\ \A k \in Jobs \ {j} : pc'[k] = pc[k]
  BY DEF Text!JobsInv, Text!TypeOK
<1>2. \A k \in Jobs : pc[k] \in Text!InLease <=> owner = k
  BY DEF Text!LeaseIsHeld
<1>3. \A k \in Jobs : pc'[k] \in Text!InLease <=> owner' = k
  BY <1>1, <1>2, JobsAssumption
<1>4. \A k \in Jobs : pc'[k] \in Text!InLease => raises'[k] \notin 1..attempt'[k]
  BY <1>1 DEF Text!LeaseIsHeld
<1>5. owner' # NoJob => cached'
  BY JobsAssumption DEF Text!LeaseIsHeld
<1> QED
  BY <1>3, <1>4, <1>5 DEF Text!LeaseIsHeld, Text!InLease

LEMMA TextLeaseKept ==
    ASSUME Text!JobsInv, Text!LeaseIsHeld, NEW j \in Jobs, Text!Work(j) \/ Text!Cancel(j)
    PROVE  Text!LeaseIsHeld'
<1>1. /\ Text!TypeOK /\ Text!CallsInOrder(j)
      /\ pc[j] \in Text!InLease => raises[j] \notin 1..attempt[j]
      /\ attempt[j] \in 0..2 /\ raises[j] \in 0..2
  BY DEF Text!JobsInv, Text!TypeOK, Text!IsAccounted, Text!LeaseIsHeld
<1>2. CASE Text!Cancel(j)
  BY <1>2 DEF Text!Cancel, Text!LeaseIsHeld
<1>3. CASE Text!Prepare(j) \/ Text!CancelledWhileWaiting(j) \/ Text!EvaluateQuality(j)
  <2>1. PICK l \in {"waiting", "failed", "cancelled", "succeeded"} : pc' = [pc EXCEPT ![j] = l]
    BY <1>3 DEF Text!Prepare, Text!CancelledWhileWaiting, Text!EvaluateQuality, Text!Goto
  <2>2. UNCHANGED <<owner, cached, raises, attempt>> /\ pc[j] \in {"new", "waiting", "judging"}
    BY <1>3 DEF Text!Prepare, Text!CancelledWhileWaiting, Text!EvaluateQuality, Text!jobVars
  <2> QED
    BY <2>1, <2>2, TextLeaseMoves DEF Text!InLease, Text!Labels, Text!Ended
<1>4. CASE Text!WriteRawResponse(j) \/ Text!WriteMarkdown(j) \/ Text!WriteStructured(j)
  <2>1. PICK l \in {"failed", "writing_json", "judging"} : pc' = [pc EXCEPT ![j] = l]
    BY <1>4 DEF Text!WriteRawResponse, Text!WriteMarkdown, Text!WriteStructured, Text!WriteFile,
                Text!Goto
  <2>2. /\ UNCHANGED <<owner, cached, raises, attempt>>
        /\ pc[j] \in {"refused", "writing_md", "writing_json"}
    BY <1>4 DEF Text!WriteRawResponse, Text!WriteMarkdown, Text!WriteStructured, Text!WriteFile
  <2> QED
    BY <2>1, <2>2, TextLeaseMoves DEF Text!InLease, Text!Labels, Text!Ended
<1>5. CASE Text!Acquire(j)
  <2>1. /\ pc' = [pc EXCEPT ![j] = "leased"] /\ pc[j] = "waiting"
        /\ owner = NoJob /\ owner' = j /\ cached' = TRUE /\ UNCHANGED <<raises, attempt>>
    BY <1>5 DEF Text!Acquire, Text!Goto, Text!jobVars
  <2>2. attempt[j] = 0
    BY <1>1, <2>1 DEF Text!CallsInOrder
  <2>3. raises[j] \notin 1..attempt'[j]
    BY <1>1, <2>1, <2>2
  <2>4. "leased" \in Text!InLease /\ "waiting" \notin Text!InLease /\ "leased" \in Text!Labels
    BY DEF Text!InLease, Text!Labels
  <2> QED
    BY <2>1, <2>3, <2>4, TextLeaseMoves
<1>6. CASE Text!ProbeBefore(j) \/ Text!BetweenAttempts(j) \/ Text!LateProbe(j)
  <2>1. PICK l \in {"call", "exit"} : pc' = [pc EXCEPT ![j] = l]
    BY <1>6 DEF Text!ProbeBefore, Text!BetweenAttempts, Text!LateProbe, Text!Probe, Text!Goto
  <2>2. /\ UNCHANGED <<owner, cached, raises, attempt>>
        /\ pc[j] \in {"leased", "between", "late"}
    BY <1>6 DEF Text!ProbeBefore, Text!BetweenAttempts, Text!LateProbe, Text!Probe
  <2> QED
    BY <1>1, <2>1, <2>2, TextLeaseMoves DEF Text!InLease, Text!Labels, Text!Ended
<1>7. CASE Text!Accept(j) \/ Text!Refuse(j)
  <2>1. PICK l \in {"late", "between"} : pc' = [pc EXCEPT ![j] = l]
    BY <1>7 DEF Text!Accept, Text!Refuse, Text!Goto
  <2>2. /\ UNCHANGED <<owner, cached, raises>> /\ pc[j] = "call" /\ raises[j] # attempt[j] + 1
        /\ attempt' = [attempt EXCEPT ![j] = @ + 1]
    BY <1>7 DEF Text!Accept, Text!Refuse
  <2>3. attempt'[j] = attempt[j] + 1 /\ \A k \in Jobs \ {j} : attempt'[k] = attempt[k]
    BY <1>1, <2>2 DEF Text!TypeOK
  <2>4. raises[j] \notin 1..attempt[j]
    BY <1>1, <2>2 DEF Text!InLease
  <2>5. raises[j] \notin 1..attempt'[j]
    BY <1>1, <2>2, <2>3, <2>4
  <2> QED
    BY <2>1, <2>2, <2>3, <2>5, TextLeaseMoves DEF Text!InLease, Text!Labels, Text!Ended
<1>8. CASE Text!CallRaises(j)
  <2>1. /\ pc[j] = "call" /\ pc' = [pc EXCEPT ![j] = "failed"] /\ owner' = NoJob
        /\ UNCHANGED raises /\ attempt' = [attempt EXCEPT ![j] = @ + 1]
    BY <1>8 DEF Text!CallRaises, Text!RaiseInLease, Text!Goto
  <2>2. \A k \in Jobs \ {j} : attempt'[k] = attempt[k]
    BY <1>1, <2>1 DEF Text!TypeOK
  <2> QED
    BY <2>1, <2>2, TextLeaseMoves DEF Text!InLease, Text!Labels, Text!Ended
<1>9. CASE Text!ExitLease(j)
  <2>1. PICK l \in {"failed", "cancelled", "refused", "writing_md"} : pc' = [pc EXCEPT ![j] = l]
    BY <1>9 DEF Text!ExitLease, Text!Goto, Text!Outcome
  <2>2. pc[j] = "exit" /\ owner' = NoJob /\ UNCHANGED <<raises, attempt>>
    BY <1>9 DEF Text!ExitLease, Text!jobVars
  <2> QED
    BY <2>1, <2>2, TextLeaseMoves DEF Text!InLease, Text!Labels, Text!Ended
<1> QED
  BY <1>2, <1>3, <1>4, <1>5, <1>6, <1>7, <1>8, <1>9 DEF Text!Work

LEMMA TextKept ==
    ASSUME medium = "text", Text!TextInv, [Next]_vars
    PROVE  medium' = "text" /\ Text!TextInv'
<1>1. /\ medium' = "text"
      /\ (\E j \in Jobs : Text!Work(j) \/ Text!Cancel(j)) \/ UNCHANGED Text!vars
  BY TextStep
<1> Text!JobsInv /\ Text!LeaseIsHeld
  BY DEF Text!TextInv
<1>2. ASSUME NEW j \in Jobs, Text!Work(j) \/ Text!Cancel(j)
      PROVE  Text!JobsInv'
  BY <1>2, TextCancelKeeps, TextPrepareKeeps, TextAcquireKeeps, TextCancelledWhileWaitingKeeps,
     TextProbeBeforeKeeps, TextAcceptKeeps, TextRefuseKeeps, TextCallRaisesKeeps,
     TextBetweenAttemptsKeeps, TextLateProbeKeeps, TextExitLeaseKeeps,
     TextWriteRawResponseKeeps, TextWriteMarkdownKeeps, TextWriteStructuredKeeps,
     TextEvaluateQualityKeeps DEF Text!Work
<1>3. CASE UNCHANGED Text!vars
  <2>1. UNCHANGED <<cached, owner, raises, pc, Text!jobVars, faults>>
    BY <1>3 DEF Text!vars
  <2>2. Text!TypeOK' /\ Text!LeaseIsHeld'
    BY <2>1 DEF Text!JobsInv, Text!TypeOK, Text!jobVars, Text!LeaseIsHeld, Text!InLease,
                Text!Labels, Text!Ended, Text!Files
  <2>3. ASSUME NEW j \in Jobs
        PROVE  Text!IsAccounted(j)'
    BY <2>1 DEF Text!JobsInv, Text!jobVars, Text!IsAccounted, Text!CallsInOrder,
                Text!ErrorsAreHeld, Text!OneResponseCounts, Text!FilesInOrder, Text!Early
  <2> QED
    BY <1>1, <2>2, <2>3 DEF Text!TextInv, Text!JobsInv
<1> QED
  BY <1>1, <1>2, <1>3, TextLeaseKept DEF Text!TextInv

\* A lease costs the model exactly when its last call raised.
LEMMA TextDropsForCause ==
    ASSUME medium = "text", Text!TextInv, [Next]_vars
    PROVE  Text!DroppedForCause
<1>1. (\E j \in Jobs : Text!Work(j) \/ Text!Cancel(j)) \/ UNCHANGED Text!vars
  BY TextStep
<1> Text!TypeOK /\ Text!LeaseIsHeld
  BY DEF Text!TextInv, Text!JobsInv
<1> SUFFICES ASSUME NEW k \in Jobs, owner = k, owner' # k
             PROVE  ~cached' <=> attempt'[k] # 0 /\ attempt'[k] = raises[k]
  BY DEF Text!DroppedForCause
<1>2. k # NoJob /\ attempt[k] \in 0..2 /\ raises[k] \in 0..2
  BY JobsAssumption DEF Text!TypeOK
<1>3. PICK j \in Jobs : Text!Work(j) \/ Text!Cancel(j)
  BY <1>1 DEF Text!vars
<1>4. Text!CallRaises(j) \/ Text!ExitLease(j)
  <2>1. ~Text!Cancel(j) /\ ~Text!Prepare(j) /\ ~Text!CancelledWhileWaiting(j)
    BY DEF Text!Cancel, Text!Prepare, Text!CancelledWhileWaiting
  <2>2. ~Text!Acquire(j) /\ ~Text!Accept(j) /\ ~Text!Refuse(j)
    BY <1>2 DEF Text!Acquire, Text!Accept, Text!Refuse
  <2>3. ~Text!ProbeBefore(j) /\ ~Text!BetweenAttempts(j) /\ ~Text!LateProbe(j)
    BY DEF Text!ProbeBefore, Text!BetweenAttempts, Text!LateProbe, Text!Probe
  <2>4. ~Text!WriteRawResponse(j) /\ ~Text!WriteMarkdown(j) /\ ~Text!WriteStructured(j)
    BY DEF Text!WriteRawResponse, Text!WriteMarkdown, Text!WriteStructured, Text!WriteFile
  <2>5. ~Text!EvaluateQuality(j)
    BY DEF Text!EvaluateQuality
  <2> QED
    BY <1>3, <2>1, <2>2, <2>3, <2>4, <2>5 DEF Text!Work
<1>5. pc[j] \in Text!InLease
  BY <1>4 DEF Text!CallRaises, Text!ExitLease, Text!InLease
<1>6. k = j /\ raises[j] \notin 1..attempt[j] /\ cached
  BY <1>2, <1>5 DEF Text!LeaseIsHeld
<1>7. CASE Text!CallRaises(j)
  <2>1. cached' = FALSE /\ raises[j] = attempt[j] + 1 /\ attempt' = [attempt EXCEPT ![j] = @ + 1]
    BY <1>7 DEF Text!CallRaises, Text!RaiseInLease
  <2>2. attempt'[j] = attempt[j] + 1
    BY <2>1 DEF Text!TypeOK
  <2> QED
    BY <1>2, <1>6, <2>1, <2>2
<1>8. CASE Text!ExitLease(j)
  <2>1. cached' = cached /\ attempt' = attempt
    BY <1>8 DEF Text!ExitLease, Text!jobVars
  <2> QED
    BY <1>2, <1>6, <2>1
<1> QED
  BY <1>4, <1>7, <1>8

\* What the composite properties ask of a story task.
LEMMA TextConsequences ==
    ASSUME Text!TextInv
    PROVE  /\ Text!TypeOK
           /\ Text!RepairShowsTheResponse /\ Text!CancellationLeavesNothing
           /\ Text!NoRepairAfterCancellation /\ Text!EvidenceIsTheLastResponse
<1>1. Text!TypeOK /\ \A j \in Jobs : Text!IsAccounted(j)
  BY DEF Text!TextInv, Text!JobsInv
<1>2. Text!RepairShowsTheResponse /\ Text!NoRepairAfterCancellation
  BY <1>1 DEF Text!IsAccounted, Text!CallsInOrder, Text!RepairShowsTheResponse,
              Text!NoRepairAfterCancellation
<1>3. Text!CancellationLeavesNothing
  BY <1>1 DEF Text!IsAccounted, Text!ErrorsAreHeld, Text!CancellationLeavesNothing, Text!Ended
<1>4. Text!EvidenceIsTheLastResponse
  BY <1>1 DEF Text!IsAccounted, Text!OneResponseCounts, Text!FilesInOrder,
              Text!EvidenceIsTheLastResponse
<1> QED
  BY <1>1, <1>2, <1>3, <1>4

-----------------------------------------------------------------------------
(* Video jobs.                                                              *)

LEMMA VideoInit == Init /\ medium = "video" => Video!VideoInv
<1> SUFFICES ASSUME Init, medium = "video"
             PROVE  Video!VideoInv
  OBVIOUS
<1>1. Video!Init
  BY DEF Init
<1>2. Video!TypeOK
  <2>1. /\ kind \in [Jobs -> Video!Kinds] /\ controls \in [Jobs -> {"sound", "malformed", "infinite"}]
        /\ raises \in [Jobs -> {"never", "building", "invoking", "drawing"}]
        /\ cached \subseteq Video!Kinds /\ owner \in Jobs \cup {NoJob}
    BY <1>1 DEF Video!Init
  <2>2. pc \in [Jobs -> Video!Labels] /\ when \in [Jobs -> Video!Labels \cup {"never"}]
    BY <1>1 DEF Video!Init, Video!Labels
  <2>3. cancelled \in [Jobs -> BOOLEAN] /\ invoked \in [Jobs -> BOOLEAN]
    BY <1>1 DEF Video!Init
  <2>4. /\ held \in [Jobs -> SUBSET {"params", "probe", "cancel", "progress"}]
        /\ returned \in [Jobs -> {"none", "frames", "files"}]
        /\ files \in [Jobs -> SUBSET {"output", "preview"}]
        /\ named \in [Jobs -> SUBSET {"output", "preview"}]
    BY <1>1 DEF Video!Init
  <2>5. faults \in 0..VideoFaults
    BY <1>1, JobsAssumption DEF Video!Init
  <2>6. frames \in [Jobs -> 0..NumFrames]
    <3>1. 0 \in 0..NumFrames
      BY FramesAssumption
    <3> QED
      BY <1>1, <3>1 DEF Video!Init
  <2> QED
    BY <2>1, <2>2, <2>3, <2>4, <2>5, <2>6 DEF Video!TypeOK
<1>3. Video!LeaseIsHeld
  BY <1>1, JobsAssumption DEF Video!Init, Video!LeaseIsHeld, Video!InLease
<1>4. ASSUME NEW j \in Jobs
      PROVE  Video!IsAccounted(j)
  BY <1>1 DEF Video!Init, Video!IsAccounted, Video!CancelledInTime, Video!FilesAreNamed,
              Video!ExitIsExplained, Video!BeforeCall, Video!Interrupted
<1> QED
  BY <1>2, <1>3, <1>4 DEF Video!VideoInv, Video!JobsInv

\* A step of one job leaves the others as they are.
LEMMA VideoOthers ==
    ASSUME Video!JobsInv, NEW j \in Jobs, Video!TypeOK', Video!IsAccounted(j)',
           \A k \in Jobs \ {j} :
               /\ pc'[k] = pc[k] /\ cancelled'[k] = cancelled[k] /\ when'[k] = when[k]
               /\ held'[k] = held[k] /\ frames'[k] = frames[k] /\ invoked'[k] = invoked[k]
               /\ returned'[k] = returned[k] /\ files'[k] = files[k] /\ named'[k] = named[k]
    PROVE  Video!JobsInv'
<1>1. ASSUME NEW k \in Jobs \ {j}
      PROVE  Video!IsAccounted(k)'
  <2>1. Video!IsAccounted(k)
    BY DEF Video!JobsInv
  <2>2. /\ pc'[k] = pc[k] /\ cancelled'[k] = cancelled[k] /\ when'[k] = when[k]
      /\ held'[k] = held[k] /\ frames'[k] = frames[k] /\ invoked'[k] = invoked[k]
      /\ returned'[k] = returned[k] /\ files'[k] = files[k] /\ named'[k] = named[k]
    BY <1>1
  <2>3. Video!CancelledInTime(k)'
    BY <2>1, <2>2 DEF Video!IsAccounted, Video!CancelledInTime, Video!BeforeCall
  <2>4. Video!FilesAreNamed(k)' /\ Video!ExitIsExplained(k)'
    BY <2>1, <2>2 DEF Video!IsAccounted, Video!FilesAreNamed, Video!ExitIsExplained,
                      Video!Interrupted
  <2> QED
    BY <2>3, <2>4 DEF Video!IsAccounted
<1> QED
  BY <1>1 DEF Video!JobsInv

\* The user cancels a job.
LEMMA VideoCancelled ==
    ASSUME Video!JobsInv, NEW j \in Jobs,
           pc[j] \notin Video!Ended,
           ~cancelled[j],
           cancelled' = [cancelled EXCEPT ![j] = TRUE],
           when' = [when EXCEPT ![j] = pc[j]],
           UNCHANGED <<pc, held, frames, invoked, returned, files, named>>,
           UNCHANGED <<kind, controls, raises>>,
           cached' \subseteq Video!Kinds,
           owner' \in Jobs \cup {NoJob},
           faults' \in 0..VideoFaults
    PROVE  Video!JobsInv'
<1>1. Video!IsAccounted(j)
  BY DEF Video!JobsInv
<1>2. pc[j] # "never" /\ pc[j] \notin {"succeeded", "failed", "cancelled"}
  BY <1>1 DEF Video!JobsInv, Video!TypeOK, Video!Labels, Video!Ended
<1>3. Video!TypeOK'
  BY <1>2 DEF Video!JobsInv, Video!TypeOK
<1>4. /\ pc'[j] = pc[j] /\ cancelled'[j] = TRUE /\ when'[j] = pc[j] /\ held'[j] = held[j]
      /\ frames'[j] = frames[j] /\ invoked'[j] = invoked[j] /\ returned'[j] = returned[j]
      /\ files'[j] = files[j] /\ named'[j] = named[j]
  BY DEF Video!JobsInv, Video!TypeOK
<1>5. \A k \in Jobs \ {j} : /\ pc'[k] = pc[k] /\ cancelled'[k] = cancelled[k]
                          /\ when'[k] = when[k] /\ held'[k] = held[k]
                          /\ frames'[k] = frames[k] /\ invoked'[k] = invoked[k]
                          /\ returned'[k] = returned[k] /\ files'[k] = files[k]
                          /\ named'[k] = named[k]
  BY DEF Video!JobsInv, Video!TypeOK
<1>6. Video!CancelledInTime(j)'
  BY <1>1, <1>4, <1>2 DEF Video!IsAccounted, Video!CancelledInTime, Video!BeforeCall
<1>7. Video!FilesAreNamed(j)'
  BY <1>1, <1>4, <1>2
     DEF Video!IsAccounted, Video!FilesAreNamed, Video!ExitIsExplained, Video!Interrupted,
         Video!BeforeCall
<1>8. Video!ExitIsExplained(j)'
  BY <1>1, <1>4, <1>2 DEF Video!IsAccounted, Video!ExitIsExplained
<1>9. Video!IsAccounted(j)'
  BY <1>6, <1>7, <1>8 DEF Video!IsAccounted
<1> QED
  BY <1>3, <1>5, <1>9, VideoOthers

\* A job moves on without a probe and without a file.
LEMMA VideoGoesOn ==
    ASSUME Video!JobsInv, NEW j \in Jobs,
           NEW l \in Video!Labels,
           \/ pc[j] = "new" /\ l \in {"waiting", "failed"}
           \/ pc[j] = "waiting" /\ l \in {"leased", "cancelled"}
           \/ pc[j] = "leased" /\ l \in {"checking", "failed"}
           \/ pc[j] = "building" /\ l = "failed"
           \/ pc[j] = "drawing" /\ l \in {"failed", "cancelled"}
           \/ pc[j] = "encoding" /\ l = "failed"
           \/ pc[j] = "judging" /\ l \in {"succeeded", "failed"},
           pc' = [pc EXCEPT ![j] = l],
           UNCHANGED <<cancelled, when, held, frames, invoked, returned, files, named>>,
           UNCHANGED <<kind, controls, raises>>,
           cached' \subseteq Video!Kinds,
           owner' \in Jobs \cup {NoJob},
           faults' \in 0..VideoFaults
    PROVE  Video!JobsInv'
<1>1. Video!IsAccounted(j)
  BY DEF Video!JobsInv
<1>2. Video!TypeOK'
  BY DEF Video!JobsInv, Video!TypeOK
<1>3. /\ pc'[j] = l /\ cancelled'[j] = cancelled[j] /\ when'[j] = when[j]
      /\ held'[j] = held[j] /\ frames'[j] = frames[j] /\ invoked'[j] = invoked[j]
      /\ returned'[j] = returned[j] /\ files'[j] = files[j] /\ named'[j] = named[j]
  BY DEF Video!JobsInv, Video!TypeOK
<1>4. \A k \in Jobs \ {j} : /\ pc'[k] = pc[k] /\ cancelled'[k] = cancelled[k]
                          /\ when'[k] = when[k] /\ held'[k] = held[k]
                          /\ frames'[k] = frames[k] /\ invoked'[k] = invoked[k]
                          /\ returned'[k] = returned[k] /\ files'[k] = files[k]
                          /\ named'[k] = named[k]
  BY DEF Video!JobsInv, Video!TypeOK
<1>5. Video!CancelledInTime(j)'
  BY <1>1, <1>3 DEF Video!IsAccounted, Video!CancelledInTime, Video!BeforeCall
<1>6. Video!FilesAreNamed(j)'
  BY <1>1, <1>3
     DEF Video!IsAccounted, Video!FilesAreNamed, Video!ExitIsExplained, Video!Interrupted,
         Video!BeforeCall
<1>7. Video!ExitIsExplained(j)'
  BY <1>1, <1>3 DEF Video!IsAccounted, Video!ExitIsExplained
<1>8. Video!IsAccounted(j)'
  BY <1>5, <1>6, <1>7 DEF Video!IsAccounted
<1> QED
  BY <1>2, <1>4, <1>8, VideoOthers

\* A probe finds the job wanted.
LEMMA VideoProbedClear ==
    ASSUME Video!JobsInv, NEW j \in Jobs,
           NEW l \in Video!Labels,
           \/ pc[j] = "checking" /\ l \in {"building", "drawing"}
           \/ pc[j] = "building" /\ l = "invoking"
           \/ pc[j] = "late" /\ l = "exit"
           \/ pc[j] = "encoded" /\ l = "judging",
           ~cancelled[j],
           pc' = [pc EXCEPT ![j] = l],
           UNCHANGED <<cancelled, when, held, frames, invoked, returned, files, named>>,
           UNCHANGED <<kind, controls, raises>>,
           cached' \subseteq Video!Kinds,
           owner' \in Jobs \cup {NoJob},
           faults' \in 0..VideoFaults
    PROVE  Video!JobsInv'
<1>1. Video!IsAccounted(j)
  BY DEF Video!JobsInv
<1>2. when[j] = "never"
  BY <1>1 DEF Video!IsAccounted, Video!CancelledInTime
<1>3. Video!TypeOK'
  BY <1>2 DEF Video!JobsInv, Video!TypeOK
<1>4. /\ pc'[j] = l /\ cancelled'[j] = cancelled[j] /\ when'[j] = when[j]
      /\ held'[j] = held[j] /\ frames'[j] = frames[j] /\ invoked'[j] = invoked[j]
      /\ returned'[j] = returned[j] /\ files'[j] = files[j] /\ named'[j] = named[j]
  BY DEF Video!JobsInv, Video!TypeOK
<1>5. \A k \in Jobs \ {j} : /\ pc'[k] = pc[k] /\ cancelled'[k] = cancelled[k]
                          /\ when'[k] = when[k] /\ held'[k] = held[k]
                          /\ frames'[k] = frames[k] /\ invoked'[k] = invoked[k]
                          /\ returned'[k] = returned[k] /\ files'[k] = files[k]
                          /\ named'[k] = named[k]
  BY DEF Video!JobsInv, Video!TypeOK
<1>6. Video!CancelledInTime(j)'
  BY <1>1, <1>4, <1>2 DEF Video!IsAccounted, Video!CancelledInTime, Video!BeforeCall
<1>7. Video!FilesAreNamed(j)'
  BY <1>1, <1>4, <1>2
     DEF Video!IsAccounted, Video!FilesAreNamed, Video!ExitIsExplained, Video!Interrupted,
         Video!BeforeCall
<1>8. Video!ExitIsExplained(j)'
  BY <1>1, <1>4, <1>2 DEF Video!IsAccounted, Video!ExitIsExplained
<1>9. Video!IsAccounted(j)'
  BY <1>6, <1>7, <1>8 DEF Video!IsAccounted
<1> QED
  BY <1>3, <1>5, <1>9, VideoOthers

\* It fails.
LEMMA VideoProbeFails ==
    ASSUME Video!JobsInv, NEW j \in Jobs,
           pc[j] \in {"checking", "building", "drawing", "late"},
           pc' = [pc EXCEPT ![j] = "exit"],
           held' = [held EXCEPT ![j] = @ \cup {"probe"}],
           UNCHANGED <<cancelled, when, frames, invoked, returned, files, named>>,
           UNCHANGED <<kind, controls, raises>>,
           cached' \subseteq Video!Kinds,
           owner' \in Jobs \cup {NoJob},
           faults' \in 0..VideoFaults
    PROVE  Video!JobsInv'
<1>1. Video!IsAccounted(j)
  BY DEF Video!JobsInv
<1>2. Video!TypeOK'
  BY DEF Video!JobsInv, Video!TypeOK, Video!Labels
<1>3. /\ pc'[j] = "exit" /\ cancelled'[j] = cancelled[j] /\ when'[j] = when[j]
      /\ held'[j] = held[j] \cup {"probe"} /\ frames'[j] = frames[j]
      /\ invoked'[j] = invoked[j] /\ returned'[j] = returned[j] /\ files'[j] = files[j]
      /\ named'[j] = named[j]
  BY DEF Video!JobsInv, Video!TypeOK
<1>4. \A k \in Jobs \ {j} : /\ pc'[k] = pc[k] /\ cancelled'[k] = cancelled[k]
                          /\ when'[k] = when[k] /\ held'[k] = held[k]
                          /\ frames'[k] = frames[k] /\ invoked'[k] = invoked[k]
                          /\ returned'[k] = returned[k] /\ files'[k] = files[k]
                          /\ named'[k] = named[k]
  BY DEF Video!JobsInv, Video!TypeOK
<1>5. Video!CancelledInTime(j)'
  BY <1>1, <1>3 DEF Video!IsAccounted, Video!CancelledInTime, Video!BeforeCall
<1>6. Video!FilesAreNamed(j)'
  BY <1>1, <1>3
     DEF Video!IsAccounted, Video!FilesAreNamed, Video!ExitIsExplained, Video!Interrupted,
         Video!BeforeCall
<1>7. Video!ExitIsExplained(j)'
  BY <1>1, <1>3 DEF Video!IsAccounted, Video!ExitIsExplained
<1>8. Video!IsAccounted(j)'
  BY <1>5, <1>6, <1>7 DEF Video!IsAccounted
<1> QED
  BY <1>2, <1>4, <1>8, VideoOthers

\* It finds the job cancelled.
LEMMA VideoSeenCancelled ==
    ASSUME Video!JobsInv, NEW j \in Jobs,
           pc[j] \in {"checking", "building", "late"},
           pc' = [pc EXCEPT ![j] = "exit"],
           held' = [held EXCEPT ![j] = @ \cup {"cancel"}],
           UNCHANGED <<cancelled, when, frames, invoked, returned, files, named>>,
           UNCHANGED <<kind, controls, raises>>,
           cached' \subseteq Video!Kinds,
           owner' \in Jobs \cup {NoJob},
           faults' \in 0..VideoFaults
    PROVE  Video!JobsInv'
<1>1. Video!IsAccounted(j)
  BY DEF Video!JobsInv
<1>2. Video!TypeOK'
  BY DEF Video!JobsInv, Video!TypeOK, Video!Labels
<1>3. /\ pc'[j] = "exit" /\ cancelled'[j] = cancelled[j] /\ when'[j] = when[j]
      /\ held'[j] = held[j] \cup {"cancel"} /\ frames'[j] = frames[j]
      /\ invoked'[j] = invoked[j] /\ returned'[j] = returned[j] /\ files'[j] = files[j]
      /\ named'[j] = named[j]
  BY DEF Video!JobsInv, Video!TypeOK
<1>4. \A k \in Jobs \ {j} : /\ pc'[k] = pc[k] /\ cancelled'[k] = cancelled[k]
                          /\ when'[k] = when[k] /\ held'[k] = held[k]
                          /\ frames'[k] = frames[k] /\ invoked'[k] = invoked[k]
                          /\ returned'[k] = returned[k] /\ files'[k] = files[k]
                          /\ named'[k] = named[k]
  BY DEF Video!JobsInv, Video!TypeOK
<1>5. Video!CancelledInTime(j)'
  BY <1>1, <1>3 DEF Video!IsAccounted, Video!CancelledInTime, Video!BeforeCall
<1>6. Video!FilesAreNamed(j)'
  BY <1>1, <1>3
     DEF Video!IsAccounted, Video!FilesAreNamed, Video!ExitIsExplained, Video!Interrupted,
         Video!BeforeCall
<1>7. Video!ExitIsExplained(j)'
  BY <1>1, <1>3 DEF Video!IsAccounted, Video!ExitIsExplained
<1>8. Video!IsAccounted(j)'
  BY <1>5, <1>6, <1>7 DEF Video!IsAccounted
<1> QED
  BY <1>2, <1>4, <1>8, VideoOthers

\* A parameter cannot be coerced.
LEMMA VideoParamsRefused ==
    ASSUME Video!JobsInv, NEW j \in Jobs,
           pc[j] = "leased",
           pc' = [pc EXCEPT ![j] = "exit"],
           held' = [held EXCEPT ![j] = @ \cup {"params"}],
           UNCHANGED <<cancelled, when, frames, invoked, returned, files, named>>,
           UNCHANGED <<kind, controls, raises>>,
           cached' \subseteq Video!Kinds,
           owner' \in Jobs \cup {NoJob},
           faults' \in 0..VideoFaults
    PROVE  Video!JobsInv'
<1>1. Video!IsAccounted(j)
  BY DEF Video!JobsInv
<1>2. Video!TypeOK'
  BY DEF Video!JobsInv, Video!TypeOK, Video!Labels
<1>3. /\ pc'[j] = "exit" /\ cancelled'[j] = cancelled[j] /\ when'[j] = when[j]
      /\ held'[j] = held[j] \cup {"params"} /\ frames'[j] = frames[j]
      /\ invoked'[j] = invoked[j] /\ returned'[j] = returned[j] /\ files'[j] = files[j]
      /\ named'[j] = named[j]
  BY DEF Video!JobsInv, Video!TypeOK
<1>4. \A k \in Jobs \ {j} : /\ pc'[k] = pc[k] /\ cancelled'[k] = cancelled[k]
                          /\ when'[k] = when[k] /\ held'[k] = held[k]
                          /\ frames'[k] = frames[k] /\ invoked'[k] = invoked[k]
                          /\ returned'[k] = returned[k] /\ files'[k] = files[k]
                          /\ named'[k] = named[k]
  BY DEF Video!JobsInv, Video!TypeOK
<1>5. Video!CancelledInTime(j)'
  BY <1>1, <1>3 DEF Video!IsAccounted, Video!CancelledInTime, Video!BeforeCall
<1>6. Video!FilesAreNamed(j)'
  BY <1>1, <1>3
     DEF Video!IsAccounted, Video!FilesAreNamed, Video!ExitIsExplained, Video!Interrupted,
         Video!BeforeCall
<1>7. Video!ExitIsExplained(j)'
  BY <1>1, <1>3 DEF Video!IsAccounted, Video!ExitIsExplained
<1>8. Video!IsAccounted(j)'
  BY <1>5, <1>6, <1>7 DEF Video!IsAccounted
<1> QED
  BY <1>2, <1>4, <1>8, VideoOthers

\* The callable returns frames.
LEMMA VideoInvoked ==
    ASSUME Video!JobsInv, NEW j \in Jobs,
           pc[j] = "invoking",
           pc' = [pc EXCEPT ![j] = "late"],
           invoked' = [invoked EXCEPT ![j] = TRUE],
           returned' = [returned EXCEPT ![j] = "frames"],
           UNCHANGED <<cancelled, when, held, frames, files, named>>,
           UNCHANGED <<kind, controls, raises>>,
           cached' \subseteq Video!Kinds,
           owner' \in Jobs \cup {NoJob},
           faults' \in 0..VideoFaults
    PROVE  Video!JobsInv'
<1>1. Video!IsAccounted(j)
  BY DEF Video!JobsInv
<1>2. when[j] \notin Video!BeforeCall /\ ~("cancel" \in held[j] /\ "probe" \notin held[j])
  BY <1>1 DEF Video!IsAccounted, Video!CancelledInTime, Video!BeforeCall, Video!ExitIsExplained
<1>3. files[j] = {} /\ named[j] = {}
  BY <1>1, <1>2 DEF Video!IsAccounted, Video!FilesAreNamed
<1>4. Video!TypeOK'
  BY <1>2, <1>3 DEF Video!JobsInv, Video!TypeOK, Video!Labels
<1>5. /\ pc'[j] = "late" /\ cancelled'[j] = cancelled[j] /\ when'[j] = when[j]
      /\ held'[j] = held[j] /\ frames'[j] = frames[j] /\ invoked'[j] = TRUE
      /\ returned'[j] = "frames" /\ files'[j] = files[j] /\ named'[j] = named[j]
  BY DEF Video!JobsInv, Video!TypeOK
<1>6. \A k \in Jobs \ {j} : /\ pc'[k] = pc[k] /\ cancelled'[k] = cancelled[k]
                          /\ when'[k] = when[k] /\ held'[k] = held[k]
                          /\ frames'[k] = frames[k] /\ invoked'[k] = invoked[k]
                          /\ returned'[k] = returned[k] /\ files'[k] = files[k]
                          /\ named'[k] = named[k]
  BY DEF Video!JobsInv, Video!TypeOK
<1>7. Video!CancelledInTime(j)'
  BY <1>1, <1>5 DEF Video!IsAccounted, Video!CancelledInTime, Video!BeforeCall
<1>8. Video!FilesAreNamed(j)'
  BY <1>1, <1>5
     DEF Video!IsAccounted, Video!FilesAreNamed, Video!ExitIsExplained, Video!Interrupted,
         Video!BeforeCall
<1>9. Video!ExitIsExplained(j)'
  BY <1>1, <1>5 DEF Video!IsAccounted, Video!ExitIsExplained
<1>10. Video!IsAccounted(j)'
  BY <1>7, <1>8, <1>9 DEF Video!IsAccounted
<1> QED
  BY <1>4, <1>6, <1>10, VideoOthers

\* The callable returns files.
LEMMA VideoWrote ==
    ASSUME Video!JobsInv, NEW j \in Jobs,
           pc[j] = "invoking",
           NEW w \in SUBSET {"output", "preview"},
           pc' = [pc EXCEPT ![j] = "late"],
           invoked' = [invoked EXCEPT ![j] = TRUE],
           returned' = [returned EXCEPT ![j] = "files"],
           files' = [files EXCEPT ![j] = w],
           named' = [named EXCEPT ![j] = w],
           UNCHANGED <<cancelled, when, held, frames>>,
           UNCHANGED <<kind, controls, raises>>,
           cached' \subseteq Video!Kinds,
           owner' \in Jobs \cup {NoJob},
           faults' \in 0..VideoFaults
    PROVE  Video!JobsInv'
<1>1. Video!IsAccounted(j)
  BY DEF Video!JobsInv
<1>2. when[j] \notin Video!BeforeCall /\ ~("cancel" \in held[j] /\ "probe" \notin held[j])
  BY <1>1 DEF Video!IsAccounted, Video!CancelledInTime, Video!BeforeCall, Video!ExitIsExplained
<1>3. Video!TypeOK'
  BY <1>2 DEF Video!JobsInv, Video!TypeOK, Video!Labels
<1>4. /\ pc'[j] = "late" /\ cancelled'[j] = cancelled[j] /\ when'[j] = when[j]
      /\ held'[j] = held[j] /\ frames'[j] = frames[j] /\ invoked'[j] = TRUE
      /\ returned'[j] = "files" /\ files'[j] = w /\ named'[j] = w
  BY DEF Video!JobsInv, Video!TypeOK
<1>5. \A k \in Jobs \ {j} : /\ pc'[k] = pc[k] /\ cancelled'[k] = cancelled[k]
                          /\ when'[k] = when[k] /\ held'[k] = held[k]
                          /\ frames'[k] = frames[k] /\ invoked'[k] = invoked[k]
                          /\ returned'[k] = returned[k] /\ files'[k] = files[k]
                          /\ named'[k] = named[k]
  BY DEF Video!JobsInv, Video!TypeOK
<1>6. Video!CancelledInTime(j)'
  BY <1>1, <1>4, <1>2 DEF Video!IsAccounted, Video!CancelledInTime, Video!BeforeCall
<1>7. Video!FilesAreNamed(j)'
  BY <1>1, <1>4, <1>2
     DEF Video!IsAccounted, Video!FilesAreNamed, Video!ExitIsExplained, Video!Interrupted,
         Video!BeforeCall
<1>8. Video!ExitIsExplained(j)'
  BY <1>1, <1>4, <1>2 DEF Video!IsAccounted, Video!ExitIsExplained
<1>9. Video!IsAccounted(j)'
  BY <1>6, <1>7, <1>8 DEF Video!IsAccounted
<1> QED
  BY <1>3, <1>5, <1>9, VideoOthers

\* The callable raises.
LEMMA VideoInvocationRaised ==
    ASSUME Video!JobsInv, NEW j \in Jobs,
           pc[j] = "invoking",
           NEW l \in {"failed", "cancelled"},
           l = "cancelled" => cancelled[j],
           NEW w \in SUBSET {"output", "preview"},
           pc' = [pc EXCEPT ![j] = l],
           invoked' = [invoked EXCEPT ![j] = TRUE],
           files' = [files EXCEPT ![j] = w],
           UNCHANGED <<cancelled, when, held, frames, returned, named>>,
           UNCHANGED <<kind, controls, raises>>,
           cached' \subseteq Video!Kinds,
           owner' \in Jobs \cup {NoJob},
           faults' \in 0..VideoFaults
    PROVE  Video!JobsInv'
<1>1. Video!IsAccounted(j)
  BY DEF Video!JobsInv
<1>2. /\ when[j] \notin Video!BeforeCall /\ "cancel" \notin held[j] /\ "probe" \notin held[j]
      /\ returned[j] = "none" /\ (cancelled[j] => when[j] = "invoking")
  BY <1>1 DEF Video!IsAccounted, Video!CancelledInTime, Video!BeforeCall, Video!ExitIsExplained
<1>3. Video!TypeOK'
  BY <1>2 DEF Video!JobsInv, Video!TypeOK, Video!Labels, Video!Ended
<1>4. /\ pc'[j] = l /\ cancelled'[j] = cancelled[j] /\ when'[j] = when[j]
      /\ held'[j] = held[j] /\ frames'[j] = frames[j] /\ invoked'[j] = TRUE
      /\ returned'[j] = returned[j] /\ files'[j] = w /\ named'[j] = named[j]
  BY DEF Video!JobsInv, Video!TypeOK
<1>5. \A k \in Jobs \ {j} : /\ pc'[k] = pc[k] /\ cancelled'[k] = cancelled[k]
                          /\ when'[k] = when[k] /\ held'[k] = held[k]
                          /\ frames'[k] = frames[k] /\ invoked'[k] = invoked[k]
                          /\ returned'[k] = returned[k] /\ files'[k] = files[k]
                          /\ named'[k] = named[k]
  BY DEF Video!JobsInv, Video!TypeOK
<1>6. Video!CancelledInTime(j)'
  BY <1>1, <1>4, <1>2 DEF Video!IsAccounted, Video!CancelledInTime, Video!BeforeCall
<1>7. Video!FilesAreNamed(j)'
  BY <1>1, <1>4, <1>2
     DEF Video!IsAccounted, Video!FilesAreNamed, Video!ExitIsExplained, Video!Interrupted,
         Video!BeforeCall
<1>8. Video!ExitIsExplained(j)'
  BY <1>1, <1>4, <1>2 DEF Video!IsAccounted, Video!ExitIsExplained
<1>9. Video!IsAccounted(j)'
  BY <1>6, <1>7, <1>8 DEF Video!IsAccounted
<1> QED
  BY <1>3, <1>5, <1>9, VideoOthers

\* A frame is drawn and reported.
LEMMA VideoFrameDrawn ==
    ASSUME Video!JobsInv, NEW j \in Jobs,
           pc[j] = "drawing",
           frames[j] < NumFrames,
           frames' = [frames EXCEPT ![j] = @ + 1],
           UNCHANGED <<pc, cancelled, when, held, invoked, returned, files, named>>,
           UNCHANGED <<kind, controls, raises>>,
           cached' \subseteq Video!Kinds,
           owner' \in Jobs \cup {NoJob},
           faults' \in 0..VideoFaults
    PROVE  Video!JobsInv'
<1>1. Video!IsAccounted(j)
  BY DEF Video!JobsInv
<1>2. frames[j] \in 0..NumFrames
  BY <1>1 DEF Video!JobsInv, Video!TypeOK
<1>3. frames[j] + 1 \in 0..NumFrames
  BY <1>2, FramesAssumption
<1>4. Video!TypeOK'
  BY FramesAssumption, <1>2, <1>3 DEF Video!JobsInv, Video!TypeOK
<1>5. /\ pc'[j] = pc[j] /\ cancelled'[j] = cancelled[j] /\ when'[j] = when[j]
      /\ held'[j] = held[j] /\ frames'[j] = frames[j] + 1 /\ invoked'[j] = invoked[j]
      /\ returned'[j] = returned[j] /\ files'[j] = files[j] /\ named'[j] = named[j]
  BY DEF Video!JobsInv, Video!TypeOK
<1>6. \A k \in Jobs \ {j} : /\ pc'[k] = pc[k] /\ cancelled'[k] = cancelled[k]
                          /\ when'[k] = when[k] /\ held'[k] = held[k]
                          /\ frames'[k] = frames[k] /\ invoked'[k] = invoked[k]
                          /\ returned'[k] = returned[k] /\ files'[k] = files[k]
                          /\ named'[k] = named[k]
  BY DEF Video!JobsInv, Video!TypeOK
<1>7. Video!CancelledInTime(j)'
  BY <1>1, <1>5 DEF Video!IsAccounted, Video!CancelledInTime, Video!BeforeCall
<1>8. Video!FilesAreNamed(j)'
  BY <1>1, <1>5
     DEF Video!IsAccounted, Video!FilesAreNamed, Video!ExitIsExplained, Video!Interrupted,
         Video!BeforeCall
<1>9. Video!ExitIsExplained(j)'
  BY <1>1, <1>5 DEF Video!IsAccounted, Video!ExitIsExplained
<1>10. Video!IsAccounted(j)'
  BY <1>7, <1>8, <1>9 DEF Video!IsAccounted
<1> QED
  BY <1>4, <1>6, <1>10, VideoOthers

\* ... or its report fails.
LEMMA VideoFrameUnreported ==
    ASSUME Video!JobsInv, NEW j \in Jobs,
           pc[j] = "drawing",
           frames[j] < NumFrames,
           frames' = [frames EXCEPT ![j] = @ + 1],
           held' = [held EXCEPT ![j] = @ \cup {"progress"}],
           UNCHANGED <<pc, cancelled, when, invoked, returned, files, named>>,
           UNCHANGED <<kind, controls, raises>>,
           cached' \subseteq Video!Kinds,
           owner' \in Jobs \cup {NoJob},
           faults' \in 0..VideoFaults
    PROVE  Video!JobsInv'
<1>1. Video!IsAccounted(j)
  BY DEF Video!JobsInv
<1>2. frames[j] \in 0..NumFrames
  BY <1>1 DEF Video!JobsInv, Video!TypeOK
<1>3. frames[j] + 1 \in 0..NumFrames
  BY <1>2, FramesAssumption
<1>4. Video!TypeOK'
  BY <1>2, <1>3 DEF Video!JobsInv, Video!TypeOK
<1>5. /\ pc'[j] = pc[j] /\ cancelled'[j] = cancelled[j] /\ when'[j] = when[j]
      /\ held'[j] = held[j] \cup {"progress"} /\ frames'[j] = frames[j] + 1
      /\ invoked'[j] = invoked[j] /\ returned'[j] = returned[j] /\ files'[j] = files[j]
      /\ named'[j] = named[j]
  BY DEF Video!JobsInv, Video!TypeOK
<1>6. \A k \in Jobs \ {j} : /\ pc'[k] = pc[k] /\ cancelled'[k] = cancelled[k]
                          /\ when'[k] = when[k] /\ held'[k] = held[k]
                          /\ frames'[k] = frames[k] /\ invoked'[k] = invoked[k]
                          /\ returned'[k] = returned[k] /\ files'[k] = files[k]
                          /\ named'[k] = named[k]
  BY DEF Video!JobsInv, Video!TypeOK
<1>7. Video!CancelledInTime(j)'
  BY <1>1, <1>5 DEF Video!IsAccounted, Video!CancelledInTime, Video!BeforeCall
<1>8. Video!FilesAreNamed(j)'
  BY <1>1, <1>5
     DEF Video!IsAccounted, Video!FilesAreNamed, Video!ExitIsExplained, Video!Interrupted,
         Video!BeforeCall
<1>9. Video!ExitIsExplained(j)'
  BY <1>1, <1>5 DEF Video!IsAccounted, Video!ExitIsExplained
<1>10. Video!IsAccounted(j)'
  BY <1>7, <1>8, <1>9 DEF Video!IsAccounted
<1> QED
  BY <1>4, <1>6, <1>10, VideoOthers

\* All frames are drawn.
LEMMA VideoDrawn ==
    ASSUME Video!JobsInv, NEW j \in Jobs,
           pc[j] = "drawing",
           pc' = [pc EXCEPT ![j] = "late"],
           returned' = [returned EXCEPT ![j] = "frames"],
           UNCHANGED <<cancelled, when, held, frames, invoked, files, named>>,
           UNCHANGED <<kind, controls, raises>>,
           cached' \subseteq Video!Kinds,
           owner' \in Jobs \cup {NoJob},
           faults' \in 0..VideoFaults
    PROVE  Video!JobsInv'
<1>1. Video!IsAccounted(j)
  BY DEF Video!JobsInv
<1>2. when[j] \notin Video!BeforeCall /\ files[j] = {} /\ named[j] = {}
  BY <1>1 DEF Video!IsAccounted, Video!CancelledInTime, Video!BeforeCall, Video!FilesAreNamed
<1>3. Video!TypeOK'
  BY <1>2 DEF Video!JobsInv, Video!TypeOK, Video!Labels
<1>4. /\ pc'[j] = "late" /\ cancelled'[j] = cancelled[j] /\ when'[j] = when[j]
      /\ held'[j] = held[j] /\ frames'[j] = frames[j] /\ invoked'[j] = invoked[j]
      /\ returned'[j] = "frames" /\ files'[j] = files[j] /\ named'[j] = named[j]
  BY DEF Video!JobsInv, Video!TypeOK
<1>5. \A k \in Jobs \ {j} : /\ pc'[k] = pc[k] /\ cancelled'[k] = cancelled[k]
                          /\ when'[k] = when[k] /\ held'[k] = held[k]
                          /\ frames'[k] = frames[k] /\ invoked'[k] = invoked[k]
                          /\ returned'[k] = returned[k] /\ files'[k] = files[k]
                          /\ named'[k] = named[k]
  BY DEF Video!JobsInv, Video!TypeOK
<1>6. Video!CancelledInTime(j)'
  BY <1>1, <1>4, <1>2 DEF Video!IsAccounted, Video!CancelledInTime, Video!BeforeCall
<1>7. Video!FilesAreNamed(j)'
  BY <1>1, <1>4, <1>2
     DEF Video!IsAccounted, Video!FilesAreNamed, Video!ExitIsExplained, Video!Interrupted,
         Video!BeforeCall
<1>8. Video!ExitIsExplained(j)'
  BY <1>1, <1>4, <1>2 DEF Video!IsAccounted, Video!ExitIsExplained
<1>9. Video!IsAccounted(j)'
  BY <1>6, <1>7, <1>8 DEF Video!IsAccounted
<1> QED
  BY <1>3, <1>5, <1>9, VideoOthers

\* The lease ends with what the render gave.
LEMMA VideoLeaves ==
    ASSUME Video!JobsInv, NEW j \in Jobs,
           pc[j] = "exit",
           held[j] \cap {"probe", "cancel"} = {},
           pc' = [pc EXCEPT ![j] = Video!Outcome(j)],
           UNCHANGED <<cancelled, when, held, frames, invoked, returned, files, named>>,
           UNCHANGED <<kind, controls, raises>>,
           cached' \subseteq Video!Kinds,
           owner' \in Jobs \cup {NoJob},
           faults' \in 0..VideoFaults
    PROVE  Video!JobsInv'
<1>1. Video!IsAccounted(j)
  BY DEF Video!JobsInv
<1>2. \/ Video!Outcome(j) = "failed" /\ held[j] # {}
      \/ Video!Outcome(j) = "encoding" /\ held[j] = {} /\ when[j] \notin Video!BeforeCall
      \/ /\ Video!Outcome(j) = "judging" /\ held[j] = {} /\ returned[j] = "files"
         /\ when[j] \in {"never", "exit"}
  BY <1>1
     DEF Video!JobsInv, Video!TypeOK, Video!IsAccounted, Video!CancelledInTime,
         Video!ExitIsExplained, Video!Outcome
<1>3. Video!TypeOK'
  BY <1>2 DEF Video!JobsInv, Video!TypeOK, Video!Labels, Video!Ended
<1>4. /\ pc'[j] = Video!Outcome(j) /\ cancelled'[j] = cancelled[j] /\ when'[j] = when[j]
      /\ held'[j] = held[j] /\ frames'[j] = frames[j] /\ invoked'[j] = invoked[j]
      /\ returned'[j] = returned[j] /\ files'[j] = files[j] /\ named'[j] = named[j]
  BY DEF Video!JobsInv, Video!TypeOK
<1>5. \A k \in Jobs \ {j} : /\ pc'[k] = pc[k] /\ cancelled'[k] = cancelled[k]
                          /\ when'[k] = when[k] /\ held'[k] = held[k]
                          /\ frames'[k] = frames[k] /\ invoked'[k] = invoked[k]
                          /\ returned'[k] = returned[k] /\ files'[k] = files[k]
                          /\ named'[k] = named[k]
  BY DEF Video!JobsInv, Video!TypeOK
<1>6. Video!CancelledInTime(j)'
  BY <1>1, <1>4, <1>2 DEF Video!IsAccounted, Video!CancelledInTime, Video!BeforeCall
<1>7. Video!FilesAreNamed(j)'
  BY <1>1, <1>4, <1>2
     DEF Video!IsAccounted, Video!FilesAreNamed, Video!ExitIsExplained, Video!Interrupted,
         Video!BeforeCall
<1>8. Video!ExitIsExplained(j)'
  BY <1>1, <1>4, <1>2 DEF Video!IsAccounted, Video!ExitIsExplained
<1>9. Video!IsAccounted(j)'
  BY <1>6, <1>7, <1>8 DEF Video!IsAccounted
<1> QED
  BY <1>3, <1>5, <1>9, VideoOthers

\* The lease ends with a render that is not wanted.
LEMMA VideoDiscarded ==
    ASSUME Video!JobsInv, NEW j \in Jobs,
           pc[j] = "exit",
           held[j] \cap {"probe", "cancel"} # {},
           pc' = [pc EXCEPT ![j] = Video!Outcome(j)],
           files' = [files EXCEPT ![j] = @ \ named[j]],
           UNCHANGED <<cancelled, when, held, frames, invoked, returned, named>>,
           UNCHANGED <<kind, controls, raises>>,
           cached' \subseteq Video!Kinds,
           owner' \in Jobs \cup {NoJob},
           faults' \in 0..VideoFaults
    PROVE  Video!JobsInv'
<1>1. Video!IsAccounted(j)
  BY DEF Video!JobsInv
<1>2. \/ Video!Outcome(j) = "failed" /\ "probe" \in held[j]
      \/ /\ Video!Outcome(j) = "cancelled"
         /\ "cancel" \in held[j] /\ "probe" \notin held[j]
  BY <1>1 DEF Video!JobsInv, Video!TypeOK, Video!Outcome
<1>3. files[j] = named[j]
  BY <1>1, <1>2 DEF Video!IsAccounted, Video!FilesAreNamed
<1>4. Video!TypeOK'
  BY <1>2, <1>3 DEF Video!JobsInv, Video!TypeOK, Video!Labels, Video!Ended
<1>5. /\ pc'[j] = Video!Outcome(j) /\ cancelled'[j] = cancelled[j] /\ when'[j] = when[j]
      /\ held'[j] = held[j] /\ frames'[j] = frames[j] /\ invoked'[j] = invoked[j]
      /\ returned'[j] = returned[j] /\ files'[j] = {} /\ named'[j] = named[j]
  BY <1>2, <1>3 DEF Video!JobsInv, Video!TypeOK
<1>6. \A k \in Jobs \ {j} : /\ pc'[k] = pc[k] /\ cancelled'[k] = cancelled[k]
                          /\ when'[k] = when[k] /\ held'[k] = held[k]
                          /\ frames'[k] = frames[k] /\ invoked'[k] = invoked[k]
                          /\ returned'[k] = returned[k] /\ files'[k] = files[k]
                          /\ named'[k] = named[k]
  BY DEF Video!JobsInv, Video!TypeOK
<1>7. Video!CancelledInTime(j)'
  BY <1>1, <1>5, <1>2 DEF Video!IsAccounted, Video!CancelledInTime, Video!BeforeCall
<1>8. Video!FilesAreNamed(j)'
  BY <1>1, <1>5, <1>2
     DEF Video!IsAccounted, Video!FilesAreNamed, Video!ExitIsExplained, Video!Interrupted,
         Video!BeforeCall
<1>9. Video!ExitIsExplained(j)'
  BY <1>1, <1>5, <1>2 DEF Video!IsAccounted, Video!ExitIsExplained
<1>10. Video!IsAccounted(j)'
  BY <1>7, <1>8, <1>9 DEF Video!IsAccounted
<1> QED
  BY <1>4, <1>6, <1>10, VideoOthers

\* The frames are encoded.
LEMMA VideoEncoded ==
    ASSUME Video!JobsInv, NEW j \in Jobs,
           pc[j] = "encoding",
           pc' = [pc EXCEPT ![j] = "encoded"],
           files' = [files EXCEPT ![j] = {"output"}],
           named' = [named EXCEPT ![j] = {"output"}],
           UNCHANGED <<cancelled, when, held, frames, invoked, returned>>,
           UNCHANGED <<kind, controls, raises>>,
           cached' \subseteq Video!Kinds,
           owner' \in Jobs \cup {NoJob},
           faults' \in 0..VideoFaults
    PROVE  Video!JobsInv'
<1>1. Video!IsAccounted(j)
  BY DEF Video!JobsInv
<1>2. when[j] \notin Video!BeforeCall
  BY <1>1 DEF Video!IsAccounted, Video!CancelledInTime, Video!BeforeCall
<1>3. Video!TypeOK'
  BY <1>2 DEF Video!JobsInv, Video!TypeOK, Video!Labels
<1>4. /\ pc'[j] = "encoded" /\ cancelled'[j] = cancelled[j] /\ when'[j] = when[j]
      /\ held'[j] = held[j] /\ frames'[j] = frames[j] /\ invoked'[j] = invoked[j]
      /\ returned'[j] = returned[j] /\ files'[j] = {"output"} /\ named'[j] = {"output"}
  BY DEF Video!JobsInv, Video!TypeOK
<1>5. \A k \in Jobs \ {j} : /\ pc'[k] = pc[k] /\ cancelled'[k] = cancelled[k]
                          /\ when'[k] = when[k] /\ held'[k] = held[k]
                          /\ frames'[k] = frames[k] /\ invoked'[k] = invoked[k]
                          /\ returned'[k] = returned[k] /\ files'[k] = files[k]
                          /\ named'[k] = named[k]
  BY DEF Video!JobsInv, Video!TypeOK
<1>6. Video!CancelledInTime(j)'
  BY <1>1, <1>4, <1>2 DEF Video!IsAccounted, Video!CancelledInTime, Video!BeforeCall
<1>7. Video!FilesAreNamed(j)'
  BY <1>1, <1>4, <1>2
     DEF Video!IsAccounted, Video!FilesAreNamed, Video!ExitIsExplained, Video!Interrupted,
         Video!BeforeCall
<1>8. Video!ExitIsExplained(j)'
  BY <1>1, <1>4, <1>2 DEF Video!IsAccounted, Video!ExitIsExplained
<1>9. Video!IsAccounted(j)'
  BY <1>6, <1>7, <1>8 DEF Video!IsAccounted
<1> QED
  BY <1>3, <1>5, <1>9, VideoOthers

\* The encoder leaves what it wrote.
LEMMA VideoEncodingFailed ==
    ASSUME Video!JobsInv, NEW j \in Jobs,
           pc[j] = "encoding",
           pc' = [pc EXCEPT ![j] = "failed"],
           files' = [files EXCEPT ![j] = {"output"}],
           UNCHANGED <<cancelled, when, held, frames, invoked, returned, named>>,
           UNCHANGED <<kind, controls, raises>>,
           cached' \subseteq Video!Kinds,
           owner' \in Jobs \cup {NoJob},
           faults' \in 0..VideoFaults
    PROVE  Video!JobsInv'
<1>1. Video!IsAccounted(j)
  BY DEF Video!JobsInv
<1>2. Video!TypeOK'
  BY DEF Video!JobsInv, Video!TypeOK, Video!Labels, Video!Ended
<1>3. /\ pc'[j] = "failed" /\ cancelled'[j] = cancelled[j] /\ when'[j] = when[j]
      /\ held'[j] = held[j] /\ frames'[j] = frames[j] /\ invoked'[j] = invoked[j]
      /\ returned'[j] = returned[j] /\ files'[j] = {"output"} /\ named'[j] = named[j]
  BY DEF Video!JobsInv, Video!TypeOK
<1>4. \A k \in Jobs \ {j} : /\ pc'[k] = pc[k] /\ cancelled'[k] = cancelled[k]
                          /\ when'[k] = when[k] /\ held'[k] = held[k]
                          /\ frames'[k] = frames[k] /\ invoked'[k] = invoked[k]
                          /\ returned'[k] = returned[k] /\ files'[k] = files[k]
                          /\ named'[k] = named[k]
  BY DEF Video!JobsInv, Video!TypeOK
<1>5. Video!CancelledInTime(j)'
  BY <1>1, <1>3 DEF Video!IsAccounted, Video!CancelledInTime, Video!BeforeCall
<1>6. Video!FilesAreNamed(j)'
  BY <1>1, <1>3
     DEF Video!IsAccounted, Video!FilesAreNamed, Video!ExitIsExplained, Video!Interrupted,
         Video!BeforeCall
<1>7. Video!ExitIsExplained(j)'
  BY <1>1, <1>3 DEF Video!IsAccounted, Video!ExitIsExplained
<1>8. Video!IsAccounted(j)'
  BY <1>5, <1>6, <1>7 DEF Video!IsAccounted
<1> QED
  BY <1>2, <1>4, <1>8, VideoOthers

\* The file is not wanted any more.
LEMMA VideoEncodedDropped ==
    ASSUME Video!JobsInv, NEW j \in Jobs,
           pc[j] = "encoded",
           NEW l \in {"failed", "cancelled"},
           pc' = [pc EXCEPT ![j] = l],
           files' = [files EXCEPT ![j] = @ \ named[j]],
           UNCHANGED <<cancelled, when, held, frames, invoked, returned, named>>,
           UNCHANGED <<kind, controls, raises>>,
           cached' \subseteq Video!Kinds,
           owner' \in Jobs \cup {NoJob},
           faults' \in 0..VideoFaults
    PROVE  Video!JobsInv'
<1>1. Video!IsAccounted(j)
  BY DEF Video!JobsInv
<1>2. files[j] = named[j]
  BY <1>1 DEF Video!IsAccounted, Video!FilesAreNamed
<1>3. when[j] \notin Video!BeforeCall /\ ~("cancel" \in held[j] /\ "probe" \notin held[j])
  BY <1>1, <1>2
     DEF Video!IsAccounted, Video!CancelledInTime, Video!BeforeCall, Video!ExitIsExplained
<1>4. Video!TypeOK'
  BY <1>2, <1>3 DEF Video!JobsInv, Video!TypeOK, Video!Labels, Video!Ended
<1>5. /\ pc'[j] = l /\ cancelled'[j] = cancelled[j] /\ when'[j] = when[j]
      /\ held'[j] = held[j] /\ frames'[j] = frames[j] /\ invoked'[j] = invoked[j]
      /\ returned'[j] = returned[j] /\ files'[j] = {} /\ named'[j] = named[j]
  BY <1>2, <1>3 DEF Video!JobsInv, Video!TypeOK
<1>6. \A k \in Jobs \ {j} : /\ pc'[k] = pc[k] /\ cancelled'[k] = cancelled[k]
                          /\ when'[k] = when[k] /\ held'[k] = held[k]
                          /\ frames'[k] = frames[k] /\ invoked'[k] = invoked[k]
                          /\ returned'[k] = returned[k] /\ files'[k] = files[k]
                          /\ named'[k] = named[k]
  BY DEF Video!JobsInv, Video!TypeOK
<1>7. Video!CancelledInTime(j)'
  BY <1>1, <1>5 DEF Video!IsAccounted, Video!CancelledInTime, Video!BeforeCall
<1>8. Video!FilesAreNamed(j)'
  BY <1>1, <1>5
     DEF Video!IsAccounted, Video!FilesAreNamed, Video!ExitIsExplained, Video!Interrupted,
         Video!BeforeCall
<1>9. Video!ExitIsExplained(j)'
  BY <1>1, <1>5 DEF Video!IsAccounted, Video!ExitIsExplained
<1>10. Video!IsAccounted(j)'
  BY <1>7, <1>8, <1>9 DEF Video!IsAccounted
<1> QED
  BY <1>4, <1>6, <1>10, VideoOthers

\* What every step leaves of the shared runtimes and of the count of faults.
LEMMA VideoShared ==
    ASSUME Video!JobsInv
    PROVE  /\ cached \subseteq Video!Kinds /\ owner \in Jobs \cup {NoJob}
           /\ NoJob \in Jobs \cup {NoJob} /\ NumFrames \in Nat
           /\ \A j \in Jobs : /\ cached \cup {kind[j]} \subseteq Video!Kinds
                              /\ cached \ {kind[j]} \subseteq Video!Kinds
           /\ (Video!Fault \/ Video!NoFault) => faults' \in 0..VideoFaults
<1>1. faults \in 0..VideoFaults
  BY DEF Video!JobsInv, Video!TypeOK
<1>2. (Video!Fault \/ Video!NoFault) => faults' \in 0..VideoFaults
  BY <1>1, JobsAssumption DEF Video!Fault, Video!NoFault
<1> QED
  BY <1>2, FramesAssumption DEF Video!JobsInv, Video!TypeOK

LEMMA VideoCancelKeeps ==
    ASSUME Video!JobsInv, NEW j \in Jobs, Video!Cancel(j)
    PROVE  Video!JobsInv'
<1>1. faults' \in 0..VideoFaults
  BY VideoShared DEF Video!Cancel, Video!NoFault
<1> QED
  BY <1>1, VideoCancelled, VideoShared DEF Video!Cancel, Video!request, Video!model

LEMMA VideoValidateKeeps ==
    ASSUME Video!JobsInv, NEW j \in Jobs, Video!Validate(j)
    PROVE  Video!JobsInv'
<1>1. faults' \in 0..VideoFaults
  BY VideoShared DEF Video!Validate
<1>2. {"waiting", "failed", "leased", "cancelled", "checking", "building", "invoking", "drawing",
       "exit", "judging", "succeeded"} \subseteq Video!Labels
  BY DEF Video!Labels, Video!Ended
<1> QED
  BY <1>1, <1>2, VideoGoesOn, VideoShared
     DEF Video!Validate, Video!Goto, Video!request, Video!model

LEMMA VideoAcquireKeeps ==
    ASSUME Video!JobsInv, NEW j \in Jobs, Video!Acquire(j)
    PROVE  Video!JobsInv'
<1>1. faults' \in 0..VideoFaults
  BY VideoShared DEF Video!Acquire
<1>2. {"waiting", "failed", "leased", "cancelled", "checking", "building", "invoking", "drawing",
       "exit", "judging", "succeeded"} \subseteq Video!Labels
  BY DEF Video!Labels, Video!Ended
<1> QED
  BY <1>1, <1>2, VideoGoesOn, VideoShared DEF Video!Acquire, Video!Goto, Video!request

LEMMA VideoCoerceParamsKeeps ==
    ASSUME Video!JobsInv, NEW j \in Jobs, Video!CoerceParams(j)
    PROVE  Video!JobsInv'
<1>1. faults' \in 0..VideoFaults
  BY VideoShared DEF Video!CoerceParams
<1>2. {"waiting", "failed", "leased", "cancelled", "checking", "building", "invoking", "drawing",
       "exit", "judging", "succeeded"} \subseteq Video!Labels
  BY DEF Video!Labels, Video!Ended
<1> QED
  BY <1>1, <1>2, VideoGoesOn, VideoParamsRefused, VideoShared
     DEF Video!CoerceParams, Video!RaiseInLease, Video!Goto, Video!request, Video!model,
         Video!Hold

LEMMA VideoProbeBeforeRenderKeeps ==
    ASSUME Video!JobsInv, NEW j \in Jobs, Video!ProbeBeforeRender(j)
    PROVE  Video!JobsInv'
<1>1. faults' \in 0..VideoFaults
  BY VideoShared DEF Video!ProbeBeforeRender, Video!Probe
<1>2. {"waiting", "failed", "leased", "cancelled", "checking", "building", "invoking", "drawing",
       "exit", "judging", "succeeded"} \subseteq Video!Labels
  BY DEF Video!Labels, Video!Ended
<1> QED
  BY <1>1, <1>2, VideoProbedClear, VideoProbeFails, VideoSeenCancelled, VideoShared
     DEF Video!ProbeBeforeRender, Video!Probe, Video!Goto, Video!request, Video!model,
         Video!Hold

LEMMA VideoProbeBeforeInvocationKeeps ==
    ASSUME Video!JobsInv, NEW j \in Jobs, Video!ProbeBeforeInvocation(j)
    PROVE  Video!JobsInv'
<1>1. faults' \in 0..VideoFaults
  BY VideoShared DEF Video!ProbeBeforeInvocation, Video!Probe
<1>2. {"waiting", "failed", "leased", "cancelled", "checking", "building", "invoking", "drawing",
       "exit", "judging", "succeeded"} \subseteq Video!Labels
  BY DEF Video!Labels, Video!Ended
<1> QED
  BY <1>1, <1>2, VideoProbedClear, VideoProbeFails, VideoSeenCancelled, VideoShared
     DEF Video!ProbeBeforeInvocation, Video!Probe, Video!Goto, Video!request, Video!model,
         Video!Hold

LEMMA VideoProbeAfterRenderKeeps ==
    ASSUME Video!JobsInv, NEW j \in Jobs, Video!ProbeAfterRender(j)
    PROVE  Video!JobsInv'
<1>1. faults' \in 0..VideoFaults
  BY VideoShared DEF Video!ProbeAfterRender, Video!Probe
<1>2. {"waiting", "failed", "leased", "cancelled", "checking", "building", "invoking", "drawing",
       "exit", "judging", "succeeded"} \subseteq Video!Labels
  BY DEF Video!Labels, Video!Ended
<1> QED
  BY <1>1, <1>2, VideoProbedClear, VideoProbeFails, VideoSeenCancelled, VideoShared
     DEF Video!ProbeAfterRender, Video!Probe, Video!Goto, Video!request, Video!model,
         Video!Hold

LEMMA VideoUnavailableKeeps ==
    ASSUME Video!JobsInv, NEW j \in Jobs, Video!Unavailable(j)
    PROVE  Video!JobsInv'
<1>1. faults' \in 0..VideoFaults
  BY VideoShared DEF Video!Unavailable
<1>2. {"waiting", "failed", "leased", "cancelled", "checking", "building", "invoking", "drawing",
       "exit", "judging", "succeeded"} \subseteq Video!Labels
  BY DEF Video!Labels, Video!Ended
<1> QED
  BY <1>1, <1>2, VideoGoesOn, VideoShared
     DEF Video!Unavailable, Video!RaiseInLease, Video!Goto, Video!request

LEMMA VideoInvocationReturnsKeeps ==
    ASSUME Video!JobsInv, NEW j \in Jobs, Video!InvocationReturns(j)
    PROVE  Video!JobsInv'
<1>1. faults' \in 0..VideoFaults
  BY VideoShared DEF Video!InvocationReturns
<1> QED
  BY <1>1, VideoInvoked, VideoWrote, VideoShared
     DEF Video!InvocationReturns, Video!Goto, Video!request, Video!model

LEMMA VideoInvocationRaisesKeeps ==
    ASSUME Video!JobsInv, NEW j \in Jobs, Video!InvocationRaises(j)
    PROVE  Video!JobsInv'
<1>1. faults' \in 0..VideoFaults
  BY VideoShared DEF Video!InvocationRaises
<1> QED
  BY <1>1, VideoInvocationRaised, VideoShared
     DEF Video!InvocationRaises, Video!RaiseInLease, Video!Goto, Video!request

LEMMA VideoDrawFrameKeeps ==
    ASSUME Video!JobsInv, NEW j \in Jobs, Video!DrawFrame(j)
    PROVE  Video!JobsInv'
<1>1. faults' \in 0..VideoFaults
  BY VideoShared DEF Video!DrawFrame, Video!FrameProbeFails
<1>2. {"waiting", "failed", "leased", "cancelled", "checking", "building", "invoking", "drawing",
       "exit", "judging", "succeeded"} \subseteq Video!Labels
  BY DEF Video!Labels, Video!Ended
<1> QED
  BY <1>1, <1>2, VideoFrameDrawn, VideoFrameUnreported, VideoGoesOn, VideoProbeFails, VideoShared
     DEF Video!DrawFrame, Video!RaiseInLease, Video!FrameProbeFails, Video!Goto,
         Video!request, Video!model, Video!Hold

LEMMA VideoDrawingRaisesKeeps ==
    ASSUME Video!JobsInv, NEW j \in Jobs, Video!DrawingRaises(j)
    PROVE  Video!JobsInv'
<1>1. faults' \in 0..VideoFaults
  BY VideoShared DEF Video!DrawingRaises
<1>2. "failed" \in Video!Labels
  BY DEF Video!Labels, Video!Ended
<1> QED
  BY <1>1, <1>2, VideoGoesOn, VideoShared
     DEF Video!DrawingRaises, Video!RaiseInLease, Video!Goto, Video!request

LEMMA VideoDrawingReturnsKeeps ==
    ASSUME Video!JobsInv, NEW j \in Jobs, Video!DrawingReturns(j)
    PROVE  Video!JobsInv'
<1>1. faults' \in 0..VideoFaults
  BY VideoShared DEF Video!DrawingReturns
<1> QED
  BY <1>1, VideoDrawn, VideoShared
     DEF Video!DrawingReturns, Video!Goto, Video!request, Video!model

LEMMA VideoExitLeaseKeeps ==
    ASSUME Video!JobsInv, NEW j \in Jobs, Video!ExitLease(j)
    PROVE  Video!JobsInv'
<1>1. faults' \in 0..VideoFaults
  BY VideoShared DEF Video!ExitLease
<1> QED
  BY <1>1, VideoLeaves, VideoDiscarded, VideoShared
     DEF Video!ExitLease, Video!Discard, Video!Goto, Video!request

LEMMA VideoEncodeFramesKeeps ==
    ASSUME Video!JobsInv, NEW j \in Jobs, Video!EncodeFrames(j)
    PROVE  Video!JobsInv'
<1>1. faults' \in 0..VideoFaults
  BY VideoShared DEF Video!EncodeFrames
<1>2. {"waiting", "failed", "leased", "cancelled", "checking", "building", "invoking", "drawing",
       "exit", "judging", "succeeded"} \subseteq Video!Labels
  BY DEF Video!Labels, Video!Ended
<1> QED
  BY <1>1, <1>2, VideoEncoded, VideoEncodingFailed, VideoGoesOn, VideoShared
     DEF Video!EncodeFrames, Video!Goto, Video!request, Video!model

LEMMA VideoProbeAfterEncodingKeeps ==
    ASSUME Video!JobsInv, NEW j \in Jobs, Video!ProbeAfterEncoding(j)
    PROVE  Video!JobsInv'
<1>1. faults' \in 0..VideoFaults
  BY VideoShared DEF Video!ProbeAfterEncoding
<1>2. {"waiting", "failed", "leased", "cancelled", "checking", "building", "invoking", "drawing",
       "exit", "judging", "succeeded"} \subseteq Video!Labels
  BY DEF Video!Labels, Video!Ended
<1> QED
  BY <1>1, <1>2, VideoProbedClear, VideoEncodedDropped, VideoShared
     DEF Video!ProbeAfterEncoding, Video!Discard, Video!Goto, Video!request, Video!model

LEMMA VideoJudgeKeeps ==
    ASSUME Video!JobsInv, NEW j \in Jobs, Video!Judge(j)
    PROVE  Video!JobsInv'
<1>1. faults' \in 0..VideoFaults
  BY VideoShared DEF Video!Judge
<1>2. {"waiting", "failed", "leased", "cancelled", "checking", "building", "invoking", "drawing",
       "exit", "judging", "succeeded"} \subseteq Video!Labels
  BY DEF Video!Labels, Video!Ended
<1> QED
  BY <1>1, <1>2, VideoGoesOn, VideoShared DEF Video!Judge, Video!Goto, Video!request, Video!model

\* A job's own step neither takes the lease of another nor keeps its own too long.
LEMMA VideoLeaseMoves ==
    ASSUME Video!JobsInv, Video!LeaseIsHeld, NEW j \in Jobs, NEW l \in Video!Labels,
           pc' = [pc EXCEPT ![j] = l], kind' = kind,
           \/ /\ pc[j] \in Video!InLease <=> l \in Video!InLease
              /\ owner' = owner /\ cached' = cached
           \/ pc[j] \in Video!InLease /\ l \notin Video!InLease /\ owner' = NoJob
           \/ /\ pc[j] \notin Video!InLease /\ l \in Video!InLease
              /\ owner = NoJob /\ owner' = j /\ cached' = cached \cup {kind[j]}
    PROVE  Video!LeaseIsHeld'
<1>1. /\ pc'[j] = l
      /\ \A k \in Jobs \ {j} : pc'[k] = pc[k]
  BY DEF Video!JobsInv, Video!TypeOK
<1>2. \A k \in Jobs : pc[k] \in Video!InLease <=> owner = k
  BY DEF Video!LeaseIsHeld
<1>3. \A k \in Jobs : pc'[k] \in Video!InLease <=> owner' = k
  BY <1>1, <1>2, JobsAssumption
<1>4. owner' # NoJob => kind'[owner'] \in cached'
  BY JobsAssumption DEF Video!LeaseIsHeld
<1> QED
  BY <1>3, <1>4 DEF Video!LeaseIsHeld, Video!InLease

\* The steps with which a job loses its lease: only the last one keeps the runtime.
LEMMA VideoLeaseEnds ==
    ASSUME Video!JobsInv, NEW j \in Jobs, Video!Work(j), owner' # owner
    PROVE  \/ Video!Acquire(j)
           \/ Video!Unavailable(j) \/ Video!InvocationRaises(j) \/ Video!DrawingRaises(j)
           \/ /\ Video!CoerceParams(j) /\ kind[j] = "procedural" /\ controls[j] = "infinite"
              /\ Video!RaiseInLease(j, "failed")
           \/ Video!DrawFrame(j) /\ cancelled[j] /\ Video!RaiseInLease(j, "cancelled")
           \/ Video!ExitLease(j)
<1>1. /\ ~Video!Validate(j)
      /\ ~Video!ProbeBeforeRender(j) /\ ~Video!ProbeBeforeInvocation(j)
      /\ ~Video!ProbeAfterRender(j)
  BY DEF Video!Validate, Video!ProbeBeforeRender, Video!ProbeBeforeInvocation,
         Video!ProbeAfterRender, Video!Probe, Video!model
<1>2. ~Video!InvocationReturns(j) /\ ~Video!DrawingReturns(j) /\ ~Video!EncodeFrames(j)
  BY DEF Video!InvocationReturns, Video!DrawingReturns, Video!EncodeFrames, Video!model
<1>3. ~Video!ProbeAfterEncoding(j) /\ ~Video!Judge(j)
  BY DEF Video!ProbeAfterEncoding, Video!Judge, Video!model
<1>4. Video!CoerceParams(j) => /\ kind[j] = "procedural" /\ controls[j] = "infinite"
                               /\ Video!RaiseInLease(j, "failed")
  BY DEF Video!CoerceParams, Video!model
<1>5. Video!DrawFrame(j) => cancelled[j] /\ Video!RaiseInLease(j, "cancelled")
  BY DEF Video!DrawFrame, Video!FrameProbeFails, Video!model
<1> QED
  BY <1>1, <1>2, <1>3, <1>4, <1>5 DEF Video!Work

LEMMA VideoLeaseKept ==
    ASSUME Video!JobsInv, Video!LeaseIsHeld, NEW j \in Jobs, Video!Work(j) \/ Video!Cancel(j)
    PROVE  Video!LeaseIsHeld'
<1>1. CASE Video!Cancel(j)
  BY <1>1 DEF Video!Cancel, Video!LeaseIsHeld, Video!request, Video!model
<1>2. CASE Video!Validate(j) \/ Video!Judge(j)
  <2>1. PICK l \in {"waiting", "failed", "succeeded"} : pc' = [pc EXCEPT ![j] = l]
    BY <1>2 DEF Video!Validate, Video!Judge, Video!Goto
  <2>2. UNCHANGED <<owner, cached, kind>> /\ pc[j] \in {"new", "judging"}
    BY <1>2 DEF Video!Validate, Video!Judge, Video!request, Video!model
  <2> QED
    BY <2>1, <2>2, VideoLeaseMoves DEF Video!InLease, Video!Labels, Video!Ended
<1>3. CASE Video!EncodeFrames(j) \/ Video!ProbeAfterEncoding(j)
  <2>1. PICK l \in {"encoded", "failed", "judging", "cancelled"} : pc' = [pc EXCEPT ![j] = l]
    BY <1>3 DEF Video!EncodeFrames, Video!ProbeAfterEncoding, Video!Goto
  <2>2. UNCHANGED <<owner, cached, kind>> /\ pc[j] \in {"encoding", "encoded"}
    BY <1>3 DEF Video!EncodeFrames, Video!ProbeAfterEncoding, Video!request, Video!model
  <2> QED
    BY <2>1, <2>2, VideoLeaseMoves DEF Video!InLease, Video!Labels, Video!Ended
<1>4. CASE Video!Acquire(j)
  <2>1. CASE /\ pc[j] = "waiting" /\ pc' = [pc EXCEPT ![j] = "cancelled"]
             /\ UNCHANGED <<owner, cached, kind>>
    BY <2>1, VideoLeaseMoves DEF Video!InLease, Video!Labels, Video!Ended
  <2>2. CASE /\ pc[j] = "waiting" /\ pc' = [pc EXCEPT ![j] = "leased"] /\ kind' = kind
             /\ owner = NoJob /\ owner' = j /\ cached' = cached \cup {kind[j]}
    BY <2>2, VideoLeaseMoves DEF Video!InLease, Video!Labels, Video!Ended
  <2> QED
    BY <1>4, <2>1, <2>2 DEF Video!Acquire, Video!Goto, Video!request
<1>5. CASE Video!CoerceParams(j)
  <2>1. CASE pc' = [pc EXCEPT ![j] = "failed"] /\ owner' = NoJob
    BY <1>5, <2>1, VideoLeaseMoves
       DEF Video!CoerceParams, Video!request, Video!InLease, Video!Labels, Video!Ended
  <2>2. ASSUME NEW l \in {"exit", "checking"}, pc' = [pc EXCEPT ![j] = l],
               UNCHANGED <<owner, cached>>
        PROVE  Video!LeaseIsHeld'
    BY <1>5, <2>2, VideoLeaseMoves
       DEF Video!CoerceParams, Video!request, Video!InLease, Video!Labels, Video!Ended
  <2> QED
    BY <1>5, <2>1, <2>2 DEF Video!CoerceParams, Video!RaiseInLease, Video!Goto, Video!model
<1>6. CASE \/ Video!ProbeBeforeRender(j) \/ Video!ProbeBeforeInvocation(j)
           \/ Video!ProbeAfterRender(j)
  <2>1. PICK l \in {"building", "drawing", "invoking", "exit"} : pc' = [pc EXCEPT ![j] = l]
    BY <1>6 DEF Video!ProbeBeforeRender, Video!ProbeBeforeInvocation, Video!ProbeAfterRender,
                Video!Probe, Video!Goto
  <2>2. UNCHANGED <<owner, cached, kind>> /\ pc[j] \in {"checking", "building", "late"}
    BY <1>6 DEF Video!ProbeBeforeRender, Video!ProbeBeforeInvocation, Video!ProbeAfterRender,
                Video!Probe, Video!request, Video!model
  <2> QED
    BY <2>1, <2>2, VideoLeaseMoves DEF Video!InLease, Video!Labels, Video!Ended
<1>7. CASE Video!Unavailable(j) \/ Video!InvocationRaises(j) \/ Video!DrawingRaises(j)
  <2>1. PICK l \in {"failed", "cancelled"} : pc' = [pc EXCEPT ![j] = l]
    BY <1>7 DEF Video!Unavailable, Video!InvocationRaises, Video!DrawingRaises,
                Video!RaiseInLease, Video!Goto
  <2>2. owner' = NoJob /\ kind' = kind /\ pc[j] \in {"building", "invoking", "drawing"}
    BY <1>7 DEF Video!Unavailable, Video!InvocationRaises, Video!DrawingRaises,
                Video!RaiseInLease, Video!request
  <2> QED
    BY <2>1, <2>2, VideoLeaseMoves DEF Video!InLease, Video!Labels, Video!Ended
<1>8. CASE Video!InvocationReturns(j) \/ Video!DrawingReturns(j)
  <2>1. pc' = [pc EXCEPT ![j] = "late"]
    BY <1>8 DEF Video!InvocationReturns, Video!DrawingReturns, Video!Goto
  <2>2. UNCHANGED <<owner, cached, kind>> /\ pc[j] \in {"invoking", "drawing"}
    BY <1>8 DEF Video!InvocationReturns, Video!DrawingReturns, Video!request, Video!model
  <2> QED
    BY <2>1, <2>2, VideoLeaseMoves DEF Video!InLease, Video!Labels, Video!Ended
<1>9. CASE Video!DrawFrame(j)
  <2>1. pc[j] = "drawing" /\ kind' = kind
    BY <1>9 DEF Video!DrawFrame, Video!request
  <2>2. CASE UNCHANGED <<pc, owner, cached>>
    BY <2>1, <2>2 DEF Video!LeaseIsHeld
  <2>3. CASE pc' = [pc EXCEPT ![j] = "cancelled"] /\ owner' = NoJob
    BY <2>1, <2>3, VideoLeaseMoves DEF Video!InLease, Video!Labels, Video!Ended
  <2>4. CASE pc' = [pc EXCEPT ![j] = "exit"] /\ UNCHANGED <<owner, cached>>
    BY <2>1, <2>4, VideoLeaseMoves DEF Video!InLease, Video!Labels, Video!Ended
  <2> QED
    BY <1>9, <2>2, <2>3, <2>4
       DEF Video!DrawFrame, Video!FrameProbeFails, Video!RaiseInLease, Video!Goto, Video!model
<1>10. CASE Video!ExitLease(j)
  <2>1. PICK l \in {"failed", "cancelled", "encoding", "judging"} : pc' = [pc EXCEPT ![j] = l]
    BY <1>10 DEF Video!ExitLease, Video!Goto, Video!Outcome
  <2>2. pc[j] = "exit" /\ owner' = NoJob /\ kind' = kind
    BY <1>10 DEF Video!ExitLease, Video!request
  <2> QED
    BY <2>1, <2>2, VideoLeaseMoves DEF Video!InLease, Video!Labels, Video!Ended
<1> QED
  BY <1>1, <1>2, <1>3, <1>4, <1>5, <1>6, <1>7, <1>8, <1>9, <1>10 DEF Video!Work

LEMMA VideoKept ==
    ASSUME medium = "video", Video!VideoInv, [Next]_vars
    PROVE  medium' = "video" /\ Video!VideoInv'
<1>1. /\ medium' = "video"
      /\ (\E j \in Jobs : Video!Work(j) \/ Video!Cancel(j)) \/ UNCHANGED Video!vars
  BY VideoStep
<1> Video!JobsInv /\ Video!LeaseIsHeld
  BY DEF Video!VideoInv
<1>2. ASSUME NEW j \in Jobs, Video!Work(j) \/ Video!Cancel(j)
      PROVE  Video!JobsInv'
  BY <1>2, VideoCancelKeeps, VideoValidateKeeps, VideoAcquireKeeps, VideoCoerceParamsKeeps,
     VideoProbeBeforeRenderKeeps, VideoProbeBeforeInvocationKeeps, VideoUnavailableKeeps,
     VideoInvocationReturnsKeeps, VideoInvocationRaisesKeeps, VideoDrawFrameKeeps,
     VideoDrawingRaisesKeeps, VideoDrawingReturnsKeeps, VideoProbeAfterRenderKeeps,
     VideoExitLeaseKeeps, VideoEncodeFramesKeeps, VideoProbeAfterEncodingKeeps, VideoJudgeKeeps
     DEF Video!Work
<1>3. CASE UNCHANGED Video!vars
  <2>1. UNCHANGED <<kind, controls, raises, cached, owner, pc, cancelled, when, held, frames,
                    invoked, returned, files, named, faults>>
    BY <1>3 DEF Video!vars, Video!request, Video!model
  <2>2. Video!TypeOK' /\ Video!LeaseIsHeld'
    BY <2>1 DEF Video!JobsInv, Video!TypeOK, Video!LeaseIsHeld, Video!InLease, Video!Labels,
                Video!Ended, Video!Kinds
  <2>3. ASSUME NEW j \in Jobs
        PROVE  Video!IsAccounted(j)'
    BY <2>1 DEF Video!JobsInv, Video!IsAccounted, Video!CancelledInTime, Video!FilesAreNamed,
                Video!ExitIsExplained, Video!BeforeCall, Video!Interrupted
  <2> QED
    BY <1>1, <2>2, <2>3 DEF Video!VideoInv, Video!JobsInv
<1> QED
  BY <1>1, <1>2, <1>3, VideoLeaseKept DEF Video!VideoInv

\* A lease costs the runtime exactly when its renderer raised, when the job was
\* cancelled in the middle of its work, or when a control was infinite.
LEMMA VideoDropsForCause ==
    ASSUME medium = "video", Video!VideoInv, [Next]_vars
    PROVE  Video!DroppedForCause
<1>1. (\E j \in Jobs : Video!Work(j) \/ Video!Cancel(j)) \/ UNCHANGED Video!vars
  BY VideoStep
<1> Video!JobsInv /\ Video!LeaseIsHeld
  BY DEF Video!VideoInv
<1> DEFINE Cause(k) == \/ kind[k] = "procedural" /\ controls[k] = "infinite" /\ pc[k] = "leased"
                       \/ raises[k] = pc[k]
                       \/ pc[k] \in {"invoking", "drawing"} /\ when[k] = pc[k]
<1> SUFFICES ASSUME NEW k \in Jobs, owner = k, owner' # k
             PROVE  kind[k] \notin cached' <=> Cause(k)
  BY DEF Video!DroppedForCause
<1>2. k # NoJob
  BY JobsAssumption
<1>3. PICK j \in Jobs : Video!Work(j)
  BY <1>1 DEF Video!vars, Video!Cancel, Video!model
<1>4. ~Video!Acquire(j)
  BY <1>2 DEF Video!Acquire
<1>5. pc[k] \in Video!InLease /\ kind[k] \in cached
  BY <1>2 DEF Video!LeaseIsHeld
<1>6. /\ raises[k] \in {"never", "building", "invoking", "drawing"}
      /\ pc[k] \in {"invoking", "drawing"} /\ cancelled[k] => when[k] = pc[k]
  BY DEF Video!JobsInv, Video!TypeOK, Video!IsAccounted, Video!CancelledInTime
<1>7. \A l \in Video!InLease : pc[j] = l => j = k
  BY DEF Video!LeaseIsHeld
<1>8. CASE Video!Unavailable(j) \/ Video!DrawingRaises(j)
  BY <1>7, <1>8
     DEF Video!Unavailable, Video!DrawingRaises, Video!RaiseInLease, Video!InLease
<1>9. CASE Video!InvocationRaises(j)
  BY <1>6, <1>7, <1>9 DEF Video!InvocationRaises, Video!RaiseInLease, Video!InLease
<1>10. CASE /\ Video!CoerceParams(j) /\ kind[j] = "procedural" /\ controls[j] = "infinite"
            /\ Video!RaiseInLease(j, "failed")
  BY <1>7, <1>10 DEF Video!CoerceParams, Video!RaiseInLease, Video!InLease
<1>11. CASE Video!DrawFrame(j) /\ cancelled[j] /\ Video!RaiseInLease(j, "cancelled")
  <2>1. pc[j] = "drawing" /\ j = k
    BY <1>7, <1>11 DEF Video!DrawFrame, Video!InLease
  <2>2. cached' = cached \ {kind[k]}
    BY <1>11, <2>1 DEF Video!RaiseInLease
  <2> QED
    BY <1>6, <1>11, <2>1, <2>2
<1>12. CASE Video!ExitLease(j)
  <2>1. pc[k] = "exit" /\ cached' = cached
    BY <1>7, <1>12 DEF Video!ExitLease, Video!InLease
  <2> QED
    BY <1>5, <1>6, <2>1
<1> QED
  BY <1>3, <1>4, <1>8, <1>9, <1>10, <1>11, <1>12, VideoLeaseEnds

\* What the composite properties ask of a video job.
LEMMA VideoConsequences ==
    ASSUME Video!VideoInv
    PROVE  /\ Video!TypeOK
           /\ Video!NoCallAfterCancellation /\ Video!CancelledLeavesNothing
           /\ Video!CancellationWins
<1>1. Video!TypeOK /\ \A j \in Jobs : Video!IsAccounted(j)
  BY DEF Video!VideoInv, Video!JobsInv
<1>2. Video!NoCallAfterCancellation
  BY <1>1 DEF Video!IsAccounted, Video!CancelledInTime, Video!BeforeCall,
              Video!NoCallAfterCancellation
<1>3. Video!CancelledLeavesNothing
  BY <1>1 DEF Video!IsAccounted, Video!FilesAreNamed, Video!CancelledLeavesNothing
<1>4. Video!CancellationWins
  BY <1>1 DEF Video!IsAccounted, Video!ExitIsExplained, Video!CancellationWins
<1> QED
  BY <1>1, <1>2, <1>3, <1>4

-----------------------------------------------------------------------------
(* Music jobs.                                                              *)

\* Every song has a segment.
LEMMA SegmentCountType ==
    ASSUME req \in [Jobs -> Songs], NEW j \in Jobs
    PROVE  Music!SegmentCount(j) \in Nat
<1>1. /\ req[j].duration \in Nat /\ req[j].stride \in Nat \ {0} /\ MaxDuration \in Nat
  BY SongsAssumption
<1>2. PICK d \in Nat, s \in Nat \ {0} : d = req[j].duration /\ s = req[j].stride
  BY <1>1
<1>3. PICK over \in Nat : over = IF d > MaxDuration THEN d - MaxDuration ELSE 0
  <2>1. (IF d > MaxDuration THEN d - MaxDuration ELSE 0) \in Nat
    BY <1>1, <1>2
  <2> QED
    BY <2>1
<1>4. over + s - 1 \in Nat
  BY <1>2, <1>3
<1>5. \A a \in Nat : a \div s \in Nat
  BY <1>2
<1>6. 1 + (over + s - 1) \div s \in Nat
  BY <1>4, <1>5
<1> QED
  BY <1>2, <1>3, <1>6 DEF Music!SegmentCount

LEMMA SegmentCountKept ==
    ASSUME req' = req, NEW j \in Jobs
    PROVE  Music!SegmentCount(j)' = Music!SegmentCount(j)
BY DEF Music!SegmentCount

LEMMA MusicInit == Init /\ medium = "music" => Music!MusicInv
<1> SUFFICES ASSUME Init, medium = "music"
             PROVE  Music!MusicInv
  OBVIOUS
<1>1. Music!Init
  BY DEF Init
<1>2. Music!TypeOK
  <2>1. /\ owner \in Jobs \cup {NoJob} /\ callback \in Jobs \cup {NoJob}
        /\ params \in Jobs \cup {NoJob} /\ rng \in Jobs \cup {NoJob}
        /\ cached \subseteq {"long", "short"}
        /\ pc \in [Jobs -> Music!Labels] /\ req \in [Jobs -> Songs]
    BY <1>1 DEF Music!Init, Music!Labels
  <2>2. /\ held \in [Jobs -> SUBSET {"probe", "cancel", "progress"}]
        /\ drawn \in [Jobs -> BOOLEAN]
    BY <1>1 DEF Music!Init
  <2>3. completed \in [Jobs -> Nat] /\ reported \in [Jobs -> Nat]
    BY <1>1 DEF Music!Init
  <2> QED
    BY <2>1, <2>2, <2>3 DEF Music!TypeOK
<1>3. Music!OwnerIsInLease /\ Music!ModelIsOnLoan
  BY <1>1, JobsAssumption DEF Music!Init, Music!OwnerIsInLease, Music!ModelIsOnLoan, Music!InLease
<1>4. ASSUME NEW j \in Jobs
      PROVE  Music!IsAccounted(j)
  <2>1. Music!DrawnWithOwn(j)
    BY <1>1 DEF Music!Init, Music!DrawnWithOwn
  <2>2. /\ completed[j] = 0 /\ reported[j] = 0 /\ pc[j] = "new" /\ held[j] = {}
        /\ Music!SegmentCount(j) \in Nat
    BY <1>1, <1>2, SegmentCountType DEF Music!Init, Music!TypeOK
  <2>3. 0 <= Music!SegmentCount(j)
    BY <2>2
  <2> QED
    BY <2>1, <2>2, <2>3 DEF Music!IsAccounted, Music!ReportsFollowCount, Music!Ended
<1>5. Music!LeasedIsCached
  BY <1>1 DEF Music!Init, Music!LeasedIsCached
<1> QED
  BY <1>2, <1>3, <1>4, <1>5 DEF Music!MusicInv, Music!JobsInv

\* A step of one job leaves the others as they are.
LEMMA MusicOthers ==
    ASSUME Music!JobsInv, NEW j \in Jobs, Music!TypeOK', Music!IsAccounted(j)',
           Music!OwnerIsInLease', Music!ModelIsOnLoan', req' = req,
           owner = j \/ owner = NoJob \/ UNCHANGED <<callback, params, rng>>,
           \A k \in Jobs \ {j} :
               /\ pc'[k] = pc[k] /\ held'[k] = held[k] /\ completed'[k] = completed[k]
               /\ reported'[k] = reported[k] /\ drawn'[k] = drawn[k]
    PROVE  Music!JobsInv'
<1>1. ASSUME NEW k \in Jobs \ {j}
      PROVE  Music!IsAccounted(k)'
  <2>1. Music!IsAccounted(k)
    BY DEF Music!JobsInv
  <2>2. /\ pc'[k] = pc[k] /\ held'[k] = held[k] /\ completed'[k] = completed[k]
      /\ reported'[k] = reported[k] /\ drawn'[k] = drawn[k]
    BY <1>1
  <2>3. pc[k] = "generating" => UNCHANGED <<callback, params, rng>>
    BY JobsAssumption DEF Music!JobsInv, Music!OwnerIsInLease, Music!InLease
  <2>4. Music!DrawnWithOwn(k)'
    BY <2>1, <2>2, <2>3 DEF Music!IsAccounted, Music!DrawnWithOwn, Music!Long
  <2>5. Music!ReportsFollowCount(k)'
    BY <2>1, <2>2, SegmentCountKept
       DEF Music!IsAccounted, Music!ReportsFollowCount, Music!Long, Music!Ended
  <2> QED
    BY <2>4, <2>5 DEF Music!IsAccounted
<1> QED
  BY <1>1 DEF Music!JobsInv

\* Cancelled, or drawing on between segments.
LEMMA MusicStays ==
    ASSUME Music!JobsInv, NEW j \in Jobs,
           UNCHANGED <<pc, held, completed, reported, drawn>>,
           req' = req,
           cached' \subseteq {"long", "short"},
           UNCHANGED <<owner, callback, params, rng>>
    PROVE  Music!JobsInv'
<1>1. Music!IsAccounted(j)
  BY DEF Music!JobsInv
<1>2. Music!SegmentCount(j)' = Music!SegmentCount(j)
  BY SegmentCountKept
<1>3. Music!TypeOK'
  BY <1>2 DEF Music!JobsInv, Music!TypeOK
<1>4. /\ pc'[j] = pc[j] /\ held'[j] = held[j] /\ completed'[j] = completed[j]
      /\ reported'[j] = reported[j] /\ drawn'[j] = drawn[j]
  BY DEF Music!JobsInv, Music!TypeOK
<1>5. \A k \in Jobs \ {j} : /\ pc'[k] = pc[k] /\ held'[k] = held[k]
                          /\ completed'[k] = completed[k] /\ reported'[k] = reported[k]
                          /\ drawn'[k] = drawn[k]
  BY DEF Music!JobsInv, Music!TypeOK
<1>6. Music!DrawnWithOwn(j)'
  BY <1>1, <1>4, <1>2 DEF Music!IsAccounted, Music!DrawnWithOwn, Music!Long
<1>7. Music!ReportsFollowCount(j)'
  BY <1>1, <1>4, <1>2 DEF Music!IsAccounted, Music!ReportsFollowCount, Music!Long
<1>8. Music!OwnerIsInLease'
  BY <1>1, <1>4, <1>5, JobsAssumption DEF Music!JobsInv, Music!OwnerIsInLease
<1>9. Music!ModelIsOnLoan'
  BY <1>1, <1>4, <1>5, JobsAssumption DEF Music!JobsInv, Music!ModelIsOnLoan, Music!Long
<1>10. Music!IsAccounted(j)'
  BY <1>6, <1>7 DEF Music!IsAccounted
<1> QED
  BY <1>3, <1>5, <1>8, <1>9, <1>10, MusicOthers

\* A job before its lease moves on.
LEMMA MusicOutside ==
    ASSUME Music!JobsInv, NEW j \in Jobs,
           NEW l \in Music!Labels,
           \/ pc[j] = "new" /\ l \in {"waiting", "failed"}
           \/ pc[j] = "waiting" /\ l = "cancelled",
           pc' = [pc EXCEPT ![j] = l],
           UNCHANGED <<held, completed, reported, drawn>>,
           req' = req,
           cached' \subseteq {"long", "short"},
           UNCHANGED <<owner, callback, params, rng>>
    PROVE  Music!JobsInv'
<1>1. Music!IsAccounted(j)
  BY DEF Music!JobsInv
<1>2. Music!SegmentCount(j)' = Music!SegmentCount(j)
  BY SegmentCountKept
<1>3. Music!TypeOK'
  BY <1>2 DEF Music!JobsInv, Music!TypeOK
<1>4. /\ pc'[j] = l /\ held'[j] = held[j] /\ completed'[j] = completed[j]
      /\ reported'[j] = reported[j] /\ drawn'[j] = drawn[j]
  BY DEF Music!JobsInv, Music!TypeOK
<1>5. \A k \in Jobs \ {j} : /\ pc'[k] = pc[k] /\ held'[k] = held[k]
                          /\ completed'[k] = completed[k] /\ reported'[k] = reported[k]
                          /\ drawn'[k] = drawn[k]
  BY DEF Music!JobsInv, Music!TypeOK
<1>6. Music!DrawnWithOwn(j)'
  BY <1>1, <1>4, <1>2 DEF Music!IsAccounted, Music!DrawnWithOwn, Music!Long
<1>7. Music!ReportsFollowCount(j)'
  BY <1>1, <1>4, <1>2 DEF Music!IsAccounted, Music!ReportsFollowCount, Music!Ended
<1>8. Music!OwnerIsInLease'
  BY <1>1, <1>4, <1>5, JobsAssumption DEF Music!JobsInv, Music!OwnerIsInLease, Music!InLease
<1>9. Music!ModelIsOnLoan'
  BY <1>1, <1>4, <1>5, JobsAssumption DEF Music!JobsInv, Music!ModelIsOnLoan, Music!Long
<1>10. Music!IsAccounted(j)'
  BY <1>6, <1>7 DEF Music!IsAccounted
<1> QED
  BY <1>3, <1>5, <1>8, <1>9, <1>10, MusicOthers

\* A job gets the lease.
LEMMA MusicAcquires ==
    ASSUME Music!JobsInv, NEW j \in Jobs,
           pc[j] = "waiting",
           owner = NoJob,
           pc' = [pc EXCEPT ![j] = "leased"],
           UNCHANGED <<held, completed, reported, drawn>>,
           req' = req,
           cached' \subseteq {"long", "short"},
           owner' = j,
           callback' \in {callback, NoJob},
           params' \in {params, NoJob},
           rng' = rng
    PROVE  Music!JobsInv'
<1>1. Music!IsAccounted(j)
  BY DEF Music!JobsInv
<1>2. Music!SegmentCount(j)' = Music!SegmentCount(j)
  BY SegmentCountKept
<1>3. callback = NoJob /\ rng = NoJob /\ NoJob \notin Jobs
  BY <1>1, <1>2, JobsAssumption DEF Music!JobsInv, Music!ModelIsOnLoan
<1>4. Music!TypeOK'
  BY <1>2, <1>3 DEF Music!JobsInv, Music!TypeOK, Music!Labels, Music!InLease
<1>5. /\ pc'[j] = "leased" /\ held'[j] = held[j] /\ completed'[j] = completed[j]
      /\ reported'[j] = reported[j] /\ drawn'[j] = drawn[j]
  BY DEF Music!JobsInv, Music!TypeOK
<1>6. \A k \in Jobs \ {j} : /\ pc'[k] = pc[k] /\ held'[k] = held[k]
                          /\ completed'[k] = completed[k] /\ reported'[k] = reported[k]
                          /\ drawn'[k] = drawn[k]
  BY DEF Music!JobsInv, Music!TypeOK
<1>7. Music!DrawnWithOwn(j)'
  BY <1>1, <1>5 DEF Music!IsAccounted, Music!DrawnWithOwn, Music!Long
<1>8. Music!ReportsFollowCount(j)'
  BY <1>1, <1>5, <1>2 DEF Music!IsAccounted, Music!ReportsFollowCount, Music!Ended
<1>9. Music!OwnerIsInLease'
  BY <1>1, <1>5, <1>6, JobsAssumption DEF Music!JobsInv, Music!OwnerIsInLease, Music!InLease
<1>10. Music!ModelIsOnLoan'
  BY <1>1, <1>5, <1>6, JobsAssumption DEF Music!JobsInv, Music!ModelIsOnLoan
<1>11. Music!IsAccounted(j)'
  BY <1>7, <1>8 DEF Music!IsAccounted
<1> QED
  BY <1>4, <1>6, <1>9, <1>10, <1>11, MusicOthers

\* A probe finds the job wanted.
LEMMA MusicProbedClear ==
    ASSUME Music!JobsInv, NEW j \in Jobs,
           NEW l \in Music!Labels,
           \/ pc[j] = "leased" /\ l = "prepared"
           \/ pc[j] = "late" /\ l = "exit",
           pc' = [pc EXCEPT ![j] = l],
           UNCHANGED <<held, completed, reported, drawn>>,
           req' = req,
           cached' \subseteq {"long", "short"},
           UNCHANGED <<owner, callback, params, rng>>
    PROVE  Music!JobsInv'
<1>1. Music!IsAccounted(j)
  BY DEF Music!JobsInv
<1>2. Music!SegmentCount(j)' = Music!SegmentCount(j)
  BY SegmentCountKept
<1>3. owner = j
  BY <1>1, <1>2 DEF Music!JobsInv, Music!OwnerIsInLease, Music!InLease
<1>4. callback = NoJob /\ rng = NoJob /\ NoJob \notin Jobs
  BY <1>1, <1>2, <1>3, JobsAssumption DEF Music!JobsInv, Music!ModelIsOnLoan
<1>5. Music!TypeOK'
  BY <1>2, <1>3, <1>4 DEF Music!JobsInv, Music!TypeOK
<1>6. /\ pc'[j] = l /\ held'[j] = held[j] /\ completed'[j] = completed[j]
      /\ reported'[j] = reported[j] /\ drawn'[j] = drawn[j]
  BY DEF Music!JobsInv, Music!TypeOK
<1>7. \A k \in Jobs \ {j} : /\ pc'[k] = pc[k] /\ held'[k] = held[k]
                          /\ completed'[k] = completed[k] /\ reported'[k] = reported[k]
                          /\ drawn'[k] = drawn[k]
  BY DEF Music!JobsInv, Music!TypeOK
<1>8. Music!DrawnWithOwn(j)'
  BY <1>1, <1>6 DEF Music!IsAccounted, Music!DrawnWithOwn, Music!Long
<1>9. Music!ReportsFollowCount(j)'
  BY <1>1, <1>6, <1>2 DEF Music!IsAccounted, Music!ReportsFollowCount, Music!Ended
<1>10. Music!OwnerIsInLease'
  BY <1>1, <1>6, <1>7, JobsAssumption DEF Music!JobsInv, Music!OwnerIsInLease, Music!InLease
<1>11. Music!ModelIsOnLoan'
  BY <1>1, <1>6, <1>7, JobsAssumption
     DEF Music!JobsInv, Music!ModelIsOnLoan, Music!OwnerIsInLease, Music!InLease
<1>12. Music!IsAccounted(j)'
  BY <1>8, <1>9 DEF Music!IsAccounted
<1> QED
  BY <1>5, <1>7, <1>10, <1>11, <1>12, MusicOthers

\* It finds the job cancelled, or fails.
LEMMA MusicProbedStop ==
    ASSUME Music!JobsInv, NEW j \in Jobs,
           pc[j] \in {"leased", "late"},
           NEW e \in {"probe", "cancel"},
           pc' = [pc EXCEPT ![j] = "exit"],
           held' = [held EXCEPT ![j] = @ \cup {e}],
           UNCHANGED <<completed, reported, drawn>>,
           req' = req,
           cached' \subseteq {"long", "short"},
           UNCHANGED <<owner, callback, params, rng>>
    PROVE  Music!JobsInv'
<1>1. Music!IsAccounted(j)
  BY DEF Music!JobsInv
<1>2. Music!SegmentCount(j)' = Music!SegmentCount(j)
  BY SegmentCountKept
<1>3. owner = j
  BY <1>1, <1>2 DEF Music!JobsInv, Music!OwnerIsInLease, Music!InLease
<1>4. callback = NoJob /\ rng = NoJob /\ NoJob \notin Jobs
  BY <1>1, <1>2, <1>3, JobsAssumption DEF Music!JobsInv, Music!ModelIsOnLoan
<1>5. Music!TypeOK'
  BY <1>2, <1>3, <1>4 DEF Music!JobsInv, Music!TypeOK, Music!Labels, Music!InLease
<1>6. /\ pc'[j] = "exit" /\ held'[j] = held[j] \cup {e} /\ completed'[j] = completed[j]
      /\ reported'[j] = reported[j] /\ drawn'[j] = drawn[j]
  BY DEF Music!JobsInv, Music!TypeOK
<1>7. \A k \in Jobs \ {j} : /\ pc'[k] = pc[k] /\ held'[k] = held[k]
                          /\ completed'[k] = completed[k] /\ reported'[k] = reported[k]
                          /\ drawn'[k] = drawn[k]
  BY DEF Music!JobsInv, Music!TypeOK
<1>8. Music!DrawnWithOwn(j)'
  BY <1>1, <1>6 DEF Music!IsAccounted, Music!DrawnWithOwn, Music!Long
<1>9. Music!ReportsFollowCount(j)'
  BY <1>1, <1>6, <1>2 DEF Music!IsAccounted, Music!ReportsFollowCount, Music!Ended
<1>10. Music!OwnerIsInLease'
  BY <1>1, <1>6, <1>7, JobsAssumption DEF Music!JobsInv, Music!OwnerIsInLease, Music!InLease
<1>11. Music!ModelIsOnLoan'
  BY <1>1, <1>6, <1>7, JobsAssumption
     DEF Music!JobsInv, Music!ModelIsOnLoan, Music!OwnerIsInLease, Music!InLease
<1>12. Music!IsAccounted(j)'
  BY <1>8, <1>9 DEF Music!IsAccounted
<1> QED
  BY <1>5, <1>7, <1>10, <1>11, <1>12, MusicOthers

\* The model is set up for the job.
LEMMA MusicStarts ==
    ASSUME Music!JobsInv, NEW j \in Jobs,
           pc[j] = "prepared",
           pc' = [pc EXCEPT ![j] = "generating"],
           UNCHANGED <<held, completed, reported, drawn>>,
           req' = req,
           cached' \subseteq {"long", "short"},
           owner' = owner,
           params' = IF Music!Long(j) THEN j ELSE params,
           callback' = IF Music!Long(j) THEN j ELSE callback,
           rng' = IF req[j].seeded THEN j ELSE rng
    PROVE  Music!JobsInv'
<1>1. Music!IsAccounted(j)
  BY DEF Music!JobsInv
<1>2. Music!SegmentCount(j)' = Music!SegmentCount(j)
  BY SegmentCountKept
<1>3. owner = j
  BY <1>1, <1>2 DEF Music!JobsInv, Music!OwnerIsInLease, Music!InLease
<1>4. callback = NoJob /\ rng = NoJob /\ NoJob \notin Jobs
  BY <1>1, <1>2, <1>3, JobsAssumption DEF Music!JobsInv, Music!ModelIsOnLoan
<1>5. Music!TypeOK'
  BY <1>2, <1>3, <1>4 DEF Music!JobsInv, Music!TypeOK, Music!Labels, Music!InLease
<1>6. /\ pc'[j] = "generating" /\ held'[j] = held[j] /\ completed'[j] = completed[j]
      /\ reported'[j] = reported[j] /\ drawn'[j] = drawn[j]
  BY DEF Music!JobsInv, Music!TypeOK
<1>7. \A k \in Jobs \ {j} : /\ pc'[k] = pc[k] /\ held'[k] = held[k]
                          /\ completed'[k] = completed[k] /\ reported'[k] = reported[k]
                          /\ drawn'[k] = drawn[k]
  BY DEF Music!JobsInv, Music!TypeOK
<1>8. Music!DrawnWithOwn(j)'
  BY <1>1, <1>6, <1>4 DEF Music!IsAccounted, Music!DrawnWithOwn, Music!Long
<1>9. Music!ReportsFollowCount(j)'
  BY <1>1, <1>6, <1>2 DEF Music!IsAccounted, Music!ReportsFollowCount, Music!Ended
<1>10. Music!OwnerIsInLease'
  BY <1>1, <1>6, <1>7, JobsAssumption DEF Music!JobsInv, Music!OwnerIsInLease, Music!InLease
<1>11. Music!ModelIsOnLoan'
  BY <1>1, <1>6, <1>7, JobsAssumption
     DEF Music!JobsInv, Music!ModelIsOnLoan, Music!OwnerIsInLease, Music!InLease, Music!Long
<1>12. Music!IsAccounted(j)'
  BY <1>8, <1>9 DEF Music!IsAccounted
<1> QED
  BY <1>5, <1>7, <1>3, <1>10, <1>11, <1>12, MusicOthers

\* Preparation raises.
LEMMA MusicUnprepared ==
    ASSUME Music!JobsInv, NEW j \in Jobs,
           pc[j] = "prepared",
           pc' = [pc EXCEPT ![j] = "failed"],
           UNCHANGED <<held, completed, reported, drawn>>,
           req' = req,
           cached' \subseteq {"long", "short"},
           UNCHANGED <<callback, params, rng>>,
           owner' = NoJob
    PROVE  Music!JobsInv'
<1>1. Music!IsAccounted(j)
  BY DEF Music!JobsInv
<1>2. Music!SegmentCount(j)' = Music!SegmentCount(j)
  BY SegmentCountKept
<1>3. owner = j
  BY <1>1, <1>2 DEF Music!JobsInv, Music!OwnerIsInLease, Music!InLease
<1>4. callback = NoJob /\ rng = NoJob /\ NoJob \notin Jobs
  BY <1>1, <1>2, <1>3, JobsAssumption DEF Music!JobsInv, Music!ModelIsOnLoan
<1>5. Music!TypeOK'
  BY <1>2, <1>3, <1>4 DEF Music!JobsInv, Music!TypeOK, Music!Labels, Music!Ended
<1>6. /\ pc'[j] = "failed" /\ held'[j] = held[j] /\ completed'[j] = completed[j]
      /\ reported'[j] = reported[j] /\ drawn'[j] = drawn[j]
  BY DEF Music!JobsInv, Music!TypeOK
<1>7. \A k \in Jobs \ {j} : /\ pc'[k] = pc[k] /\ held'[k] = held[k]
                          /\ completed'[k] = completed[k] /\ reported'[k] = reported[k]
                          /\ drawn'[k] = drawn[k]
  BY DEF Music!JobsInv, Music!TypeOK
<1>8. Music!DrawnWithOwn(j)'
  BY <1>1, <1>6 DEF Music!IsAccounted, Music!DrawnWithOwn, Music!Long
<1>9. Music!ReportsFollowCount(j)'
  BY <1>1, <1>6, <1>2 DEF Music!IsAccounted, Music!ReportsFollowCount, Music!Ended
<1>10. Music!OwnerIsInLease'
  BY <1>1, <1>6, <1>7, JobsAssumption DEF Music!JobsInv, Music!OwnerIsInLease, Music!InLease
<1>11. Music!ModelIsOnLoan'
  BY <1>1, <1>6, <1>7, JobsAssumption
     DEF Music!JobsInv, Music!ModelIsOnLoan, Music!OwnerIsInLease, Music!InLease
<1>12. Music!IsAccounted(j)'
  BY <1>8, <1>9 DEF Music!IsAccounted
<1> QED
  BY <1>5, <1>7, <1>10, <1>11, <1>12, MusicOthers

\* A segment is counted and reported.
LEMMA MusicSegment ==
    ASSUME Music!JobsInv, NEW j \in Jobs,
           pc[j] = "generating",
           completed[j] < Music!SegmentCount(j),
           completed' = [completed EXCEPT ![j] = @ + 1],
           reported' = [reported EXCEPT ![j] = completed[j] + 1],
           UNCHANGED <<pc, held, drawn>>,
           req' = req,
           cached' \subseteq {"long", "short"},
           UNCHANGED <<owner, callback, params, rng>>
    PROVE  Music!JobsInv'
<1>1. Music!IsAccounted(j)
  BY DEF Music!JobsInv
<1>2. Music!SegmentCount(j)' = Music!SegmentCount(j)
  BY SegmentCountKept
<1>3. owner = j
  BY <1>1, <1>2 DEF Music!JobsInv, Music!OwnerIsInLease, Music!InLease
<1>4. completed[j] \in Nat /\ Music!SegmentCount(j) \in Nat
  BY <1>1, <1>2, <1>3, SegmentCountType DEF Music!JobsInv, Music!TypeOK
<1>5. /\ completed[j] + 1 \in Nat /\ completed[j] + 1 <= Music!SegmentCount(j)
      /\ reported[j] <= completed[j] + 1 /\ reported[j] <= Music!SegmentCount(j)
  BY <1>1, <1>4
     DEF Music!JobsInv, Music!TypeOK, Music!IsAccounted, Music!ReportsFollowCount,
         Music!Ended
<1>6. Music!TypeOK'
  BY DEF Music!JobsInv, Music!TypeOK
<1>7. /\ pc'[j] = pc[j] /\ held'[j] = held[j] /\ completed'[j] = completed[j] + 1
      /\ reported'[j] = completed[j] + 1 /\ drawn'[j] = drawn[j]
  BY DEF Music!JobsInv, Music!TypeOK
<1>8. \A k \in Jobs \ {j} : /\ pc'[k] = pc[k] /\ held'[k] = held[k]
                          /\ completed'[k] = completed[k] /\ reported'[k] = reported[k]
                          /\ drawn'[k] = drawn[k]
  BY DEF Music!JobsInv, Music!TypeOK
<1>9. Music!DrawnWithOwn(j)'
  BY <1>1, <1>7 DEF Music!IsAccounted, Music!DrawnWithOwn, Music!Long
<1>10. Music!ReportsFollowCount(j)'
  BY <1>1, <1>7, <1>2, <1>4 DEF Music!ReportsFollowCount
<1>11. Music!OwnerIsInLease'
  BY <1>1, <1>7, <1>8, JobsAssumption DEF Music!JobsInv, Music!OwnerIsInLease
<1>12. Music!ModelIsOnLoan'
  BY <1>1, <1>7, <1>8, JobsAssumption DEF Music!JobsInv, Music!ModelIsOnLoan, Music!Long
<1>13. Music!IsAccounted(j)'
  BY <1>9, <1>10 DEF Music!IsAccounted
<1> QED
  BY <1>6, <1>8, <1>11, <1>12, <1>13, MusicOthers

\* ... and the probe after it fails.
LEMMA MusicSegmentUnread ==
    ASSUME Music!JobsInv, NEW j \in Jobs,
           pc[j] = "generating",
           completed[j] < Music!SegmentCount(j),
           completed' = [completed EXCEPT ![j] = @ + 1],
           reported' = [reported EXCEPT ![j] = completed[j] + 1],
           held' = [held EXCEPT ![j] = @ \cup {"probe"}],
           UNCHANGED <<pc, drawn>>,
           req' = req,
           cached' \subseteq {"long", "short"},
           UNCHANGED <<owner, callback, params, rng>>
    PROVE  Music!JobsInv'
<1>1. Music!IsAccounted(j)
  BY DEF Music!JobsInv
<1>2. Music!SegmentCount(j)' = Music!SegmentCount(j)
  BY SegmentCountKept
<1>3. owner = j
  BY <1>1, <1>2 DEF Music!JobsInv, Music!OwnerIsInLease, Music!InLease
<1>4. completed[j] \in Nat /\ Music!SegmentCount(j) \in Nat
  BY <1>1, <1>2, <1>3, SegmentCountType DEF Music!JobsInv, Music!TypeOK
<1>5. /\ completed[j] + 1 \in Nat /\ completed[j] + 1 <= Music!SegmentCount(j)
      /\ reported[j] <= completed[j] + 1 /\ reported[j] <= Music!SegmentCount(j)
  BY <1>1, <1>4
     DEF Music!JobsInv, Music!TypeOK, Music!IsAccounted, Music!ReportsFollowCount,
         Music!Ended
<1>6. Music!TypeOK'
  BY DEF Music!JobsInv, Music!TypeOK
<1>7. /\ pc'[j] = pc[j] /\ held'[j] = held[j] \cup {"probe"}
      /\ completed'[j] = completed[j] + 1 /\ reported'[j] = completed[j] + 1
      /\ drawn'[j] = drawn[j]
  BY DEF Music!JobsInv, Music!TypeOK
<1>8. \A k \in Jobs \ {j} : /\ pc'[k] = pc[k] /\ held'[k] = held[k]
                          /\ completed'[k] = completed[k] /\ reported'[k] = reported[k]
                          /\ drawn'[k] = drawn[k]
  BY DEF Music!JobsInv, Music!TypeOK
<1>9. Music!DrawnWithOwn(j)'
  BY <1>1, <1>7 DEF Music!IsAccounted, Music!DrawnWithOwn, Music!Long
<1>10. Music!ReportsFollowCount(j)'
  BY <1>1, <1>7, <1>2, <1>4 DEF Music!ReportsFollowCount
<1>11. Music!OwnerIsInLease'
  BY <1>1, <1>7, <1>8, JobsAssumption DEF Music!JobsInv, Music!OwnerIsInLease
<1>12. Music!ModelIsOnLoan'
  BY <1>1, <1>7, <1>8, JobsAssumption DEF Music!JobsInv, Music!ModelIsOnLoan, Music!Long
<1>13. Music!IsAccounted(j)'
  BY <1>9, <1>10 DEF Music!IsAccounted
<1> QED
  BY <1>6, <1>8, <1>11, <1>12, <1>13, MusicOthers

\* Its report raises.
LEMMA MusicUnreported ==
    ASSUME Music!JobsInv, NEW j \in Jobs,
           pc[j] = "generating",
           completed[j] < Music!SegmentCount(j),
           NEW e \in {{"progress"}, {"progress", "probe"}},
           completed' = [completed EXCEPT ![j] = @ + 1],
           held' = [held EXCEPT ![j] = @ \cup e],
           UNCHANGED <<pc, reported, drawn>>,
           req' = req,
           cached' \subseteq {"long", "short"},
           UNCHANGED <<owner, callback, params, rng>>
    PROVE  Music!JobsInv'
<1>1. Music!IsAccounted(j)
  BY DEF Music!JobsInv
<1>2. Music!SegmentCount(j)' = Music!SegmentCount(j)
  BY SegmentCountKept
<1>3. owner = j
  BY <1>1, <1>2 DEF Music!JobsInv, Music!OwnerIsInLease, Music!InLease
<1>4. completed[j] \in Nat /\ Music!SegmentCount(j) \in Nat
  BY <1>1, <1>2, <1>3, SegmentCountType DEF Music!JobsInv, Music!TypeOK
<1>5. /\ completed[j] + 1 \in Nat /\ completed[j] + 1 <= Music!SegmentCount(j)
      /\ reported[j] <= completed[j] + 1 /\ reported[j] <= Music!SegmentCount(j)
  BY <1>1, <1>4
     DEF Music!JobsInv, Music!TypeOK, Music!IsAccounted, Music!ReportsFollowCount,
         Music!Ended
<1>6. Music!TypeOK'
  BY DEF Music!JobsInv, Music!TypeOK
<1>7. /\ pc'[j] = pc[j] /\ held'[j] = held[j] \cup e /\ completed'[j] = completed[j] + 1
      /\ reported'[j] = reported[j] /\ drawn'[j] = drawn[j]
  BY DEF Music!JobsInv, Music!TypeOK
<1>8. \A k \in Jobs \ {j} : /\ pc'[k] = pc[k] /\ held'[k] = held[k]
                          /\ completed'[k] = completed[k] /\ reported'[k] = reported[k]
                          /\ drawn'[k] = drawn[k]
  BY DEF Music!JobsInv, Music!TypeOK
<1>9. Music!DrawnWithOwn(j)'
  BY <1>1, <1>7 DEF Music!IsAccounted, Music!DrawnWithOwn, Music!Long
<1>10. Music!ReportsFollowCount(j)'
  BY <1>1, <1>7, <1>2, <1>5 DEF Music!ReportsFollowCount
<1>11. Music!OwnerIsInLease'
  BY <1>1, <1>7, <1>8, JobsAssumption DEF Music!JobsInv, Music!OwnerIsInLease
<1>12. Music!ModelIsOnLoan'
  BY <1>1, <1>7, <1>8, JobsAssumption DEF Music!JobsInv, Music!ModelIsOnLoan, Music!Long
<1>13. Music!IsAccounted(j)'
  BY <1>9, <1>10 DEF Music!IsAccounted
<1> QED
  BY <1>6, <1>8, <1>11, <1>12, <1>13, MusicOthers

\* A cancellation interrupts the model.
LEMMA MusicInterrupted ==
    ASSUME Music!JobsInv, NEW j \in Jobs,
           pc[j] = "generating",
           completed[j] < Music!SegmentCount(j),
           pc' = [pc EXCEPT ![j] = "cancelled"],
           completed' = [completed EXCEPT ![j] = @ + 1],
           reported' = [reported EXCEPT ![j] = completed[j] + 1],
           UNCHANGED <<held, drawn>>,
           req' = req,
           cached' \subseteq {"long", "short"},
           params' = params,
           owner' = NoJob,
           callback' = NoJob,
           rng' = NoJob
    PROVE  Music!JobsInv'
<1>1. Music!IsAccounted(j)
  BY DEF Music!JobsInv
<1>2. Music!SegmentCount(j)' = Music!SegmentCount(j)
  BY SegmentCountKept
<1>3. owner = j
  BY <1>1, <1>2 DEF Music!JobsInv, Music!OwnerIsInLease, Music!InLease
<1>4. completed[j] \in Nat /\ Music!SegmentCount(j) \in Nat
  BY <1>1, <1>2, <1>3, SegmentCountType DEF Music!JobsInv, Music!TypeOK
<1>5. /\ completed[j] + 1 \in Nat /\ completed[j] + 1 <= Music!SegmentCount(j)
      /\ reported[j] <= completed[j] + 1 /\ reported[j] <= Music!SegmentCount(j)
  BY <1>1, <1>4
     DEF Music!JobsInv, Music!TypeOK, Music!IsAccounted, Music!ReportsFollowCount,
         Music!Ended
<1>6. Music!TypeOK'
  BY DEF Music!JobsInv, Music!TypeOK, Music!Labels, Music!Ended
<1>7. /\ pc'[j] = "cancelled" /\ held'[j] = held[j] /\ completed'[j] = completed[j] + 1
      /\ reported'[j] = completed[j] + 1 /\ drawn'[j] = drawn[j]
  BY DEF Music!JobsInv, Music!TypeOK
<1>8. \A k \in Jobs \ {j} : /\ pc'[k] = pc[k] /\ held'[k] = held[k]
                          /\ completed'[k] = completed[k] /\ reported'[k] = reported[k]
                          /\ drawn'[k] = drawn[k]
  BY DEF Music!JobsInv, Music!TypeOK
<1>9. Music!DrawnWithOwn(j)'
  BY <1>1, <1>7 DEF Music!IsAccounted, Music!DrawnWithOwn, Music!Long
<1>10. Music!ReportsFollowCount(j)'
  BY <1>1, <1>7, <1>2, <1>4 DEF Music!ReportsFollowCount
<1>11. Music!OwnerIsInLease'
  BY <1>1, <1>7, <1>8, JobsAssumption DEF Music!JobsInv, Music!OwnerIsInLease, Music!InLease
<1>12. Music!ModelIsOnLoan'
  BY <1>1, <1>7, <1>8, JobsAssumption DEF Music!ModelIsOnLoan
<1>13. Music!IsAccounted(j)'
  BY <1>9, <1>10 DEF Music!IsAccounted
<1> QED
  BY <1>6, <1>8, <1>3, <1>11, <1>12, <1>13, MusicOthers

\* ... after a report that raised.
LEMMA MusicInterruptedUnreported ==
    ASSUME Music!JobsInv, NEW j \in Jobs,
           pc[j] = "generating",
           completed[j] < Music!SegmentCount(j),
           pc' = [pc EXCEPT ![j] = "cancelled"],
           completed' = [completed EXCEPT ![j] = @ + 1],
           UNCHANGED <<held, reported, drawn>>,
           req' = req,
           cached' \subseteq {"long", "short"},
           params' = params,
           owner' = NoJob,
           callback' = NoJob,
           rng' = NoJob
    PROVE  Music!JobsInv'
<1>1. Music!IsAccounted(j)
  BY DEF Music!JobsInv
<1>2. Music!SegmentCount(j)' = Music!SegmentCount(j)
  BY SegmentCountKept
<1>3. owner = j
  BY <1>1, <1>2 DEF Music!JobsInv, Music!OwnerIsInLease, Music!InLease
<1>4. completed[j] \in Nat /\ Music!SegmentCount(j) \in Nat
  BY <1>1, <1>2, <1>3, SegmentCountType DEF Music!JobsInv, Music!TypeOK
<1>5. /\ completed[j] + 1 \in Nat /\ completed[j] + 1 <= Music!SegmentCount(j)
      /\ reported[j] <= completed[j] + 1 /\ reported[j] <= Music!SegmentCount(j)
  BY <1>1, <1>4
     DEF Music!JobsInv, Music!TypeOK, Music!IsAccounted, Music!ReportsFollowCount,
         Music!Ended
<1>6. Music!TypeOK'
  BY DEF Music!JobsInv, Music!TypeOK, Music!Labels, Music!Ended
<1>7. /\ pc'[j] = "cancelled" /\ held'[j] = held[j] /\ completed'[j] = completed[j] + 1
      /\ reported'[j] = reported[j] /\ drawn'[j] = drawn[j]
  BY DEF Music!JobsInv, Music!TypeOK
<1>8. \A k \in Jobs \ {j} : /\ pc'[k] = pc[k] /\ held'[k] = held[k]
                          /\ completed'[k] = completed[k] /\ reported'[k] = reported[k]
                          /\ drawn'[k] = drawn[k]
  BY DEF Music!JobsInv, Music!TypeOK
<1>9. Music!DrawnWithOwn(j)'
  BY <1>1, <1>7 DEF Music!IsAccounted, Music!DrawnWithOwn, Music!Long
<1>10. Music!ReportsFollowCount(j)'
  BY <1>1, <1>7, <1>2, <1>4 DEF Music!IsAccounted, Music!ReportsFollowCount, Music!Ended
<1>11. Music!OwnerIsInLease'
  BY <1>1, <1>7, <1>8, JobsAssumption DEF Music!JobsInv, Music!OwnerIsInLease, Music!InLease
<1>12. Music!ModelIsOnLoan'
  BY <1>1, <1>7, <1>8, JobsAssumption DEF Music!ModelIsOnLoan
<1>13. Music!IsAccounted(j)'
  BY <1>9, <1>10 DEF Music!IsAccounted
<1> QED
  BY <1>6, <1>8, <1>3, <1>11, <1>12, <1>13, MusicOthers

\* The model returns.
LEMMA MusicReturns ==
    ASSUME Music!JobsInv, NEW j \in Jobs,
           pc[j] = "generating",
           pc' = [pc EXCEPT ![j] = "late"],
           drawn' = [drawn EXCEPT ![j] = /\ (Music!Long(j) => params = j)
                                  /\ rng = (IF req[j].seeded THEN j ELSE NoJob)],
           UNCHANGED <<held, completed, reported>>,
           req' = req,
           cached' \subseteq {"long", "short"},
           params' = params,
           owner' = owner,
           callback' = NoJob,
           rng' = NoJob
    PROVE  Music!JobsInv'
<1>1. Music!IsAccounted(j)
  BY DEF Music!JobsInv
<1>2. Music!SegmentCount(j)' = Music!SegmentCount(j)
  BY SegmentCountKept
<1>3. owner = j
  BY <1>1, <1>2 DEF Music!JobsInv, Music!OwnerIsInLease, Music!InLease
<1>4. (Music!Long(j) => params = j) /\ rng = (IF req[j].seeded THEN j ELSE NoJob)
  BY <1>1, <1>2, <1>3 DEF Music!IsAccounted, Music!DrawnWithOwn
<1>5. Music!TypeOK'
  BY <1>2, <1>3, <1>4 DEF Music!JobsInv, Music!TypeOK, Music!Labels, Music!InLease
<1>6. /\ pc'[j] = "late" /\ held'[j] = held[j] /\ completed'[j] = completed[j]
      /\ reported'[j] = reported[j] /\ drawn'[j] = TRUE
  BY <1>2, <1>3, <1>4 DEF Music!JobsInv, Music!TypeOK
<1>7. \A k \in Jobs \ {j} : /\ pc'[k] = pc[k] /\ held'[k] = held[k]
                          /\ completed'[k] = completed[k] /\ reported'[k] = reported[k]
                          /\ drawn'[k] = drawn[k]
  BY DEF Music!JobsInv, Music!TypeOK
<1>8. Music!DrawnWithOwn(j)'
  BY <1>1, <1>6 DEF Music!IsAccounted, Music!DrawnWithOwn, Music!Long
<1>9. Music!ReportsFollowCount(j)'
  BY <1>1, <1>6, <1>2 DEF Music!IsAccounted, Music!ReportsFollowCount, Music!Ended
<1>10. Music!OwnerIsInLease'
  BY <1>1, <1>6, <1>7, JobsAssumption DEF Music!JobsInv, Music!OwnerIsInLease, Music!InLease
<1>11. Music!ModelIsOnLoan'
  BY <1>1, <1>6, <1>7, JobsAssumption DEF Music!ModelIsOnLoan
<1>12. Music!IsAccounted(j)'
  BY <1>8, <1>9 DEF Music!IsAccounted
<1> QED
  BY <1>5, <1>7, <1>3, <1>10, <1>11, <1>12, MusicOthers

\* The model raises.
LEMMA MusicRaises ==
    ASSUME Music!JobsInv, NEW j \in Jobs,
           pc[j] = "generating",
           pc' = [pc EXCEPT ![j] = "failed"],
           UNCHANGED <<held, completed, reported, drawn>>,
           req' = req,
           cached' \subseteq {"long", "short"},
           params' = params,
           owner' = NoJob,
           callback' = NoJob,
           rng' = NoJob
    PROVE  Music!JobsInv'
<1>1. Music!IsAccounted(j)
  BY DEF Music!JobsInv
<1>2. Music!SegmentCount(j)' = Music!SegmentCount(j)
  BY SegmentCountKept
<1>3. owner = j
  BY <1>1, <1>2 DEF Music!JobsInv, Music!OwnerIsInLease, Music!InLease
<1>4. Music!TypeOK'
  BY <1>2, <1>3 DEF Music!JobsInv, Music!TypeOK, Music!Labels, Music!Ended
<1>5. /\ pc'[j] = "failed" /\ held'[j] = held[j] /\ completed'[j] = completed[j]
      /\ reported'[j] = reported[j] /\ drawn'[j] = drawn[j]
  BY DEF Music!JobsInv, Music!TypeOK
<1>6. \A k \in Jobs \ {j} : /\ pc'[k] = pc[k] /\ held'[k] = held[k]
                          /\ completed'[k] = completed[k] /\ reported'[k] = reported[k]
                          /\ drawn'[k] = drawn[k]
  BY DEF Music!JobsInv, Music!TypeOK
<1>7. Music!DrawnWithOwn(j)'
  BY <1>1, <1>5 DEF Music!IsAccounted, Music!DrawnWithOwn, Music!Long
<1>8. Music!ReportsFollowCount(j)'
  BY <1>1, <1>5, <1>2 DEF Music!IsAccounted, Music!ReportsFollowCount, Music!Ended
<1>9. Music!OwnerIsInLease'
  BY <1>1, <1>5, <1>6, JobsAssumption DEF Music!JobsInv, Music!OwnerIsInLease, Music!InLease
<1>10. Music!ModelIsOnLoan'
  BY <1>1, <1>5, <1>6, JobsAssumption DEF Music!ModelIsOnLoan
<1>11. Music!IsAccounted(j)'
  BY <1>7, <1>8 DEF Music!IsAccounted
<1> QED
  BY <1>4, <1>6, <1>3, <1>9, <1>10, <1>11, MusicOthers

\* The lease ends.
LEMMA MusicLeaves ==
    ASSUME Music!JobsInv, NEW j \in Jobs,
           pc[j] = "exit",
           pc' = [pc EXCEPT ![j] = Music!Outcome(j)],
           UNCHANGED <<held, completed, reported, drawn>>,
           req' = req,
           cached' \subseteq {"long", "short"},
           UNCHANGED <<callback, params, rng>>,
           owner' = NoJob
    PROVE  Music!JobsInv'
<1>1. Music!IsAccounted(j)
  BY DEF Music!JobsInv
<1>2. Music!SegmentCount(j)' = Music!SegmentCount(j)
  BY SegmentCountKept
<1>3. owner = j
  BY <1>1, <1>2 DEF Music!JobsInv, Music!OwnerIsInLease, Music!InLease
<1>4. callback = NoJob /\ rng = NoJob /\ NoJob \notin Jobs
  BY <1>1, <1>2, <1>3, JobsAssumption DEF Music!JobsInv, Music!ModelIsOnLoan
<1>5. held[j] \subseteq {"probe", "cancel", "progress"}
  BY <1>1 DEF Music!JobsInv, Music!TypeOK
<1>6. \/ Music!Outcome(j) \in {"failed", "cancelled"}
      \/ Music!Outcome(j) = "publishing" /\ held[j] = {} /\ drawn[j]
  BY <1>1 DEF Music!JobsInv, Music!TypeOK, Music!IsAccounted, Music!DrawnWithOwn, Music!Outcome
<1>7. Music!TypeOK'
  BY <1>6 DEF Music!JobsInv, Music!TypeOK, Music!Labels, Music!Ended
<1>8. /\ pc'[j] = Music!Outcome(j) /\ held'[j] = held[j] /\ completed'[j] = completed[j]
      /\ reported'[j] = reported[j] /\ drawn'[j] = drawn[j]
  BY DEF Music!JobsInv, Music!TypeOK
<1>9. \A k \in Jobs \ {j} : /\ pc'[k] = pc[k] /\ held'[k] = held[k]
                          /\ completed'[k] = completed[k] /\ reported'[k] = reported[k]
                          /\ drawn'[k] = drawn[k]
  BY DEF Music!JobsInv, Music!TypeOK
<1>10. Music!DrawnWithOwn(j)'
  BY <1>1, <1>8, <1>6 DEF Music!IsAccounted, Music!DrawnWithOwn, Music!Long
<1>11. Music!ReportsFollowCount(j)'
  BY <1>1, <1>8, <1>2, <1>6 DEF Music!IsAccounted, Music!ReportsFollowCount, Music!Ended
<1>12. Music!OwnerIsInLease'
  BY <1>1, <1>8, <1>9, <1>6, JobsAssumption
     DEF Music!JobsInv, Music!OwnerIsInLease, Music!InLease
<1>13. Music!ModelIsOnLoan'
  BY <1>1, <1>8, <1>9, JobsAssumption
     DEF Music!JobsInv, Music!ModelIsOnLoan, Music!OwnerIsInLease, Music!InLease
<1>14. Music!IsAccounted(j)'
  BY <1>10, <1>11 DEF Music!IsAccounted
<1> QED
  BY <1>7, <1>9, <1>12, <1>13, <1>14, MusicOthers

\* The WAV file is written, and the last report.
LEMMA MusicPublishes ==
    ASSUME Music!JobsInv, NEW j \in Jobs,
           pc[j] = "publishing",
           pc' = [pc EXCEPT ![j] = "succeeded"],
           reported' = [reported EXCEPT ![j] = 
               IF Music!Long(j) /\ completed[j] < Music!SegmentCount(j) THEN Music!SegmentCount(j) ELSE @],
           UNCHANGED <<held, completed, drawn>>,
           req' = req,
           cached' \subseteq {"long", "short"},
           UNCHANGED <<owner, callback, params, rng>>
    PROVE  Music!JobsInv'
<1>1. Music!IsAccounted(j)
  BY DEF Music!JobsInv
<1>2. Music!SegmentCount(j)' = Music!SegmentCount(j)
  BY SegmentCountKept
<1>3. completed[j] \in Nat /\ Music!SegmentCount(j) \in Nat
  BY <1>1, <1>2, SegmentCountType DEF Music!JobsInv, Music!TypeOK
<1>4. reported[j] = completed[j] /\ completed[j] <= Music!SegmentCount(j) /\ drawn[j]
  BY <1>1, <1>2, <1>3
     DEF Music!IsAccounted, Music!DrawnWithOwn, Music!ReportsFollowCount, Music!Ended
<1>5. completed[j] < Music!SegmentCount(j) \/ completed[j] = Music!SegmentCount(j)
  BY <1>2, <1>3, <1>4
<1>6. Music!TypeOK'
  BY <1>3 DEF Music!JobsInv, Music!TypeOK, Music!Labels, Music!Ended
<1>7. /\ pc'[j] = "succeeded" /\ held'[j] = held[j] /\ completed'[j] = completed[j]
      /\ reported'[j] = 
               IF Music!Long(j) /\ completed[j] < Music!SegmentCount(j) THEN Music!SegmentCount(j) ELSE reported[j]
      /\ drawn'[j] = drawn[j]
  BY DEF Music!JobsInv, Music!TypeOK
<1>8. \A k \in Jobs \ {j} : /\ pc'[k] = pc[k] /\ held'[k] = held[k]
                          /\ completed'[k] = completed[k] /\ reported'[k] = reported[k]
                          /\ drawn'[k] = drawn[k]
  BY DEF Music!JobsInv, Music!TypeOK
<1>9. Music!DrawnWithOwn(j)'
  BY <1>1, <1>7 DEF Music!IsAccounted, Music!DrawnWithOwn, Music!Long
<1>10. Music!ReportsFollowCount(j)'
  BY <1>1, <1>7, <1>2, <1>3
     DEF Music!IsAccounted, Music!ReportsFollowCount, Music!Long, Music!Ended
<1>11. Music!OwnerIsInLease'
  BY <1>1, <1>7, <1>8, JobsAssumption DEF Music!JobsInv, Music!OwnerIsInLease, Music!InLease
<1>12. Music!ModelIsOnLoan'
  BY <1>1, <1>7, <1>8, JobsAssumption DEF Music!JobsInv, Music!ModelIsOnLoan, Music!Long
<1>13. Music!IsAccounted(j)'
  BY <1>9, <1>10 DEF Music!IsAccounted
<1> QED
  BY <1>6, <1>8, <1>11, <1>12, <1>13, MusicOthers

\* Publishing raises.
LEMMA MusicUnpublished ==
    ASSUME Music!JobsInv, NEW j \in Jobs,
           pc[j] = "publishing",
           pc' = [pc EXCEPT ![j] = "failed"],
           UNCHANGED <<held, completed, reported, drawn>>,
           req' = req,
           cached' \subseteq {"long", "short"},
           UNCHANGED <<owner, callback, params, rng>>
    PROVE  Music!JobsInv'
<1>1. Music!IsAccounted(j)
  BY DEF Music!JobsInv
<1>2. Music!SegmentCount(j)' = Music!SegmentCount(j)
  BY SegmentCountKept
<1>3. Music!TypeOK'
  BY <1>2 DEF Music!JobsInv, Music!TypeOK, Music!Labels, Music!Ended
<1>4. /\ pc'[j] = "failed" /\ held'[j] = held[j] /\ completed'[j] = completed[j]
      /\ reported'[j] = reported[j] /\ drawn'[j] = drawn[j]
  BY DEF Music!JobsInv, Music!TypeOK
<1>5. \A k \in Jobs \ {j} : /\ pc'[k] = pc[k] /\ held'[k] = held[k]
                          /\ completed'[k] = completed[k] /\ reported'[k] = reported[k]
                          /\ drawn'[k] = drawn[k]
  BY DEF Music!JobsInv, Music!TypeOK
<1>6. Music!DrawnWithOwn(j)'
  BY <1>1, <1>4, <1>2 DEF Music!IsAccounted, Music!DrawnWithOwn, Music!Long
<1>7. Music!ReportsFollowCount(j)'
  BY <1>1, <1>4, <1>2 DEF Music!IsAccounted, Music!ReportsFollowCount, Music!Ended
<1>8. Music!OwnerIsInLease'
  BY <1>1, <1>4, <1>5, JobsAssumption DEF Music!JobsInv, Music!OwnerIsInLease, Music!InLease
<1>9. Music!ModelIsOnLoan'
  BY <1>1, <1>4, <1>5, JobsAssumption DEF Music!JobsInv, Music!ModelIsOnLoan, Music!Long
<1>10. Music!IsAccounted(j)'
  BY <1>6, <1>7 DEF Music!IsAccounted
<1> QED
  BY <1>3, <1>5, <1>8, <1>9, <1>10, MusicOthers

\* What a song needs of the shared models at every step.
LEMMA MusicShared ==
    ASSUME Music!JobsInv, NEW j \in Jobs
    PROVE  /\ cached \subseteq {"long", "short"} /\ cached \cup {req[j].form} \subseteq {"long", "short"}
           /\ cached \ {req[j].form} \subseteq {"long", "short"}
<1>1. req[j].form \in {"long", "short"}
  BY SongsAssumption DEF Music!JobsInv, Music!TypeOK
<1> QED
  BY <1>1 DEF Music!JobsInv, Music!TypeOK

LEMMA MusicCancelKeeps ==
    ASSUME Music!JobsInv, NEW j \in Jobs, Music!Cancel(j)
    PROVE  Music!JobsInv'
<1> QED
  BY MusicStays, MusicShared DEF Music!Cancel, Music!modelVars

LEMMA MusicValidateKeeps ==
    ASSUME Music!JobsInv, NEW j \in Jobs, Music!Validate(j)
    PROVE  Music!JobsInv'
<1>1. {"waiting", "failed", "cancelled", "prepared", "exit"} \subseteq Music!Labels
  BY DEF Music!Labels, Music!Ended, Music!InLease
<1> QED
  BY <1>1, MusicOutside, MusicShared
     DEF Music!Validate, Music!Goto, Music!modelVars, Music!jobVars

LEMMA MusicAcquireKeeps ==
    ASSUME Music!JobsInv, NEW j \in Jobs, Music!Acquire(j)
    PROVE  Music!JobsInv'
<1> QED
  BY MusicAcquires, MusicShared DEF Music!Acquire, Music!Goto, Music!jobVars

LEMMA MusicCancelledWhileWaitingKeeps ==
    ASSUME Music!JobsInv, NEW j \in Jobs, Music!CancelledWhileWaiting(j)
    PROVE  Music!JobsInv'
<1>1. {"waiting", "failed", "cancelled", "prepared", "exit"} \subseteq Music!Labels
  BY DEF Music!Labels, Music!Ended, Music!InLease
<1> QED
  BY <1>1, MusicOutside, MusicShared
     DEF Music!CancelledWhileWaiting, Music!Goto, Music!modelVars, Music!jobVars

LEMMA MusicProbeBeforeKeeps ==
    ASSUME Music!JobsInv, NEW j \in Jobs, Music!ProbeBefore(j)
    PROVE  Music!JobsInv'
<1>1. {"waiting", "failed", "cancelled", "prepared", "exit"} \subseteq Music!Labels
  BY DEF Music!Labels, Music!Ended, Music!InLease
<1> QED
  BY <1>1, MusicProbedClear, MusicProbedStop, MusicShared
     DEF Music!ProbeBefore, Music!SafeCancelRequested, Music!Hold, Music!Goto,
         Music!modelVars

LEMMA MusicProbeAfterKeeps ==
    ASSUME Music!JobsInv, NEW j \in Jobs, Music!ProbeAfter(j)
    PROVE  Music!JobsInv'
<1>1. {"waiting", "failed", "cancelled", "prepared", "exit"} \subseteq Music!Labels
  BY DEF Music!Labels, Music!Ended, Music!InLease
<1> QED
  BY <1>1, MusicProbedClear, MusicProbedStop, MusicShared
     DEF Music!ProbeAfter, Music!SafeCancelRequested, Music!Hold, Music!Goto, Music!modelVars

LEMMA MusicStartGenerateKeeps ==
    ASSUME Music!JobsInv, NEW j \in Jobs, Music!StartGenerate(j)
    PROVE  Music!JobsInv'
<1> QED
  BY MusicStarts, MusicShared DEF Music!StartGenerate, Music!SetParams, Music!Goto, Music!jobVars

LEMMA MusicPreparationFailsKeeps ==
    ASSUME Music!JobsInv, NEW j \in Jobs, Music!PreparationFails(j)
    PROVE  Music!JobsInv'
<1> QED
  BY MusicUnprepared, MusicShared DEF Music!PreparationFails, Music!RaiseInLease, Music!Goto

LEMMA MusicDrawKeeps ==
    ASSUME Music!JobsInv, NEW j \in Jobs, Music!Draw(j)
    PROVE  Music!JobsInv'
<1> QED
  BY MusicStays, MusicShared DEF Music!Draw, Music!modelVars

LEMMA MusicSegmentKeeps ==
    ASSUME Music!JobsInv, NEW j \in Jobs, Music!Segment(j)
    PROVE  Music!JobsInv'
<1>1. /\ pc[j] = "generating" /\ completed[j] < Music!SegmentCount(j)
      /\ completed' = [completed EXCEPT ![j] = @ + 1]
      /\ reported' = [reported EXCEPT ![j] = completed[j] + 1]
      /\ UNCHANGED <<params, req, drawn>>
  BY DEF Music!Segment, Music!AtBoundary
<1>2. CASE UNCHANGED <<held, pc, owner, cached, callback, rng>>
  BY <1>1, <1>2, MusicSegment, MusicShared
<1>3. CASE Music!Hold(j, "probe") /\ UNCHANGED <<pc, owner, cached, callback, rng>>
  BY <1>1, <1>3, MusicSegmentUnread, MusicShared DEF Music!Hold
<1>4. CASE /\ Music!RaiseInLease(j, "cancelled") /\ Music!TearDown(j, FALSE)
           /\ UNCHANGED held
  BY <1>1, <1>4, MusicInterrupted, MusicShared
     DEF Music!RaiseInLease, Music!TearDown, Music!Goto
<1> QED
  BY <1>2, <1>3, <1>4 DEF Music!Segment, Music!SegmentProbe

LEMMA MusicSegmentUnpublishedKeeps ==
    ASSUME Music!JobsInv, NEW j \in Jobs, Music!SegmentUnpublished(j)
    PROVE  Music!JobsInv'
<1>1. /\ pc[j] = "generating" /\ completed[j] < Music!SegmentCount(j)
      /\ completed' = [completed EXCEPT ![j] = @ + 1]
      /\ UNCHANGED <<params, req, reported, drawn>>
  BY DEF Music!SegmentUnpublished, Music!AtBoundary
<1>2. CASE /\ Music!RaiseInLease(j, "cancelled") /\ Music!TearDown(j, FALSE)
           /\ UNCHANGED held
  BY <1>1, <1>2, MusicInterruptedUnreported, MusicShared
     DEF Music!RaiseInLease, Music!TearDown, Music!Goto
<1>3. CASE /\ \/ Music!Hold(j, "progress")
              \/ held' = [held EXCEPT ![j] = @ \cup {"progress", "probe"}]
           /\ UNCHANGED <<pc, owner, cached, callback, rng>>
  BY <1>1, <1>3, MusicUnreported, MusicShared DEF Music!Hold
<1> QED
  BY <1>2, <1>3 DEF Music!SegmentUnpublished

LEMMA MusicGenerateReturnsKeeps ==
    ASSUME Music!JobsInv, NEW j \in Jobs, Music!GenerateReturns(j)
    PROVE  Music!JobsInv'
<1> QED
  BY MusicReturns, MusicShared DEF Music!GenerateReturns, Music!TearDown, Music!Goto

LEMMA MusicGenerateRaisesKeeps ==
    ASSUME Music!JobsInv, NEW j \in Jobs, Music!GenerateRaises(j)
    PROVE  Music!JobsInv'
<1> QED
  BY MusicRaises, MusicShared
     DEF Music!GenerateRaises, Music!RaiseInLease, Music!TearDown, Music!Goto

LEMMA MusicExitLeaseKeeps ==
    ASSUME Music!JobsInv, NEW j \in Jobs, Music!ExitLease(j)
    PROVE  Music!JobsInv'
<1> QED
  BY MusicLeaves, MusicShared DEF Music!ExitLease, Music!Goto, Music!modelVars, Music!jobVars

LEMMA MusicPublishKeeps ==
    ASSUME Music!JobsInv, NEW j \in Jobs, Music!Publish(j)
    PROVE  Music!JobsInv'
<1> QED
  BY MusicPublishes, MusicUnpublished, MusicShared DEF Music!Publish, Music!Goto, Music!modelVars

\* Who gets the lease has a cached model, and how it is lost.
LEMMA MusicLeaseMoves ==
    ASSUME Music!JobsInv, NEW j \in Jobs, Music!Work(j) \/ Music!Cancel(j)
    PROVE  /\ req' = req
           /\ \/ UNCHANGED <<owner, cached>>
              \/ owner = NoJob /\ owner' = j /\ cached' = cached \cup {req[j].form}
              \/ /\ owner = j /\ owner' = NoJob /\ cached' = cached \ {req[j].form}
                 /\ \/ pc[j] = req[j].raises
                    \/ pc[j] = "generating" /\ cancelled[j] /\ Music!Long(j)
              \/ owner = j /\ owner' = NoJob /\ cached' = cached /\ pc[j] = "exit"
<1>1. \A l \in Music!InLease : pc[j] = l => owner = j
  BY DEF Music!JobsInv, Music!OwnerIsInLease
<1>2. CASE Music!Cancel(j)
  BY <1>2 DEF Music!Cancel, Music!modelVars
<1>3. CASE Music!Validate(j) \/ Music!CancelledWhileWaiting(j) \/ Music!Publish(j)
  BY <1>3 DEF Music!Validate, Music!CancelledWhileWaiting, Music!Publish, Music!modelVars,
              Music!jobVars
<1>4. CASE Music!ProbeBefore(j) \/ Music!ProbeAfter(j) \/ Music!Draw(j)
  BY <1>4 DEF Music!ProbeBefore, Music!ProbeAfter, Music!Draw, Music!modelVars
<1>5. CASE Music!StartGenerate(j) \/ Music!GenerateReturns(j)
  BY <1>5 DEF Music!StartGenerate, Music!GenerateReturns, Music!jobVars
<1>6. CASE Music!Acquire(j)
  BY <1>6 DEF Music!Acquire, Music!jobVars
<1>7. CASE Music!PreparationFails(j) \/ Music!GenerateRaises(j)
  <2>1. pc[j] \in {"prepared", "generating"} /\ pc[j] = req[j].raises
    BY <1>7 DEF Music!PreparationFails, Music!GenerateRaises
  <2>2. owner = j
    BY <1>1, <2>1 DEF Music!InLease
  <2>3. Music!RaiseInLease(j, "failed") /\ req' = req
    BY <1>7 DEF Music!PreparationFails, Music!GenerateRaises
  <2> QED
    BY <2>1, <2>2, <2>3 DEF Music!RaiseInLease
<1>8. CASE Music!Segment(j) \/ Music!SegmentUnpublished(j)
  <2>1. pc[j] = "generating" /\ Music!Long(j) /\ req' = req
    BY <1>8 DEF Music!Segment, Music!SegmentUnpublished
  <2>2. owner = j
    BY <1>1, <2>1 DEF Music!InLease
  <2>3. UNCHANGED <<owner, cached>> \/ (cancelled[j] /\ Music!RaiseInLease(j, "cancelled"))
    BY <1>8 DEF Music!Segment, Music!SegmentUnpublished, Music!SegmentProbe
  <2> QED
    BY <2>1, <2>2, <2>3 DEF Music!RaiseInLease
<1>9. CASE Music!ExitLease(j)
  <2>1. pc[j] = "exit" /\ owner' = NoJob /\ UNCHANGED <<cached, req>>
    BY <1>9 DEF Music!ExitLease, Music!modelVars, Music!jobVars
  <2> QED
    BY <1>1, <2>1 DEF Music!InLease
<1> QED
  BY <1>2, <1>3, <1>4, <1>5, <1>6, <1>7, <1>8, <1>9 DEF Music!Work

LEMMA MusicKept ==
    ASSUME medium = "music", Music!MusicInv, [Next]_vars
    PROVE  medium' = "music" /\ Music!MusicInv'
<1>1. /\ medium' = "music"
      /\ (\E j \in Jobs : Music!Work(j) \/ Music!Cancel(j)) \/ UNCHANGED Music!vars
  BY MusicStep
<1> Music!JobsInv /\ Music!LeasedIsCached
  BY DEF Music!MusicInv
<1>2. ASSUME NEW j \in Jobs, Music!Work(j) \/ Music!Cancel(j)
      PROVE  Music!MusicInv'
  <2>1. Music!JobsInv'
    BY <1>2, MusicCancelKeeps, MusicValidateKeeps, MusicAcquireKeeps,
       MusicCancelledWhileWaitingKeeps, MusicProbeBeforeKeeps, MusicStartGenerateKeeps,
       MusicPreparationFailsKeeps, MusicDrawKeeps, MusicSegmentKeeps,
       MusicSegmentUnpublishedKeeps, MusicGenerateReturnsKeeps, MusicGenerateRaisesKeeps,
       MusicProbeAfterKeeps, MusicExitLeaseKeeps, MusicPublishKeeps DEF Music!Work
  <2>2. Music!LeasedIsCached'
    BY <1>2, MusicLeaseMoves DEF Music!LeasedIsCached
  <2> QED
    BY <2>1, <2>2 DEF Music!MusicInv
<1>3. CASE UNCHANGED Music!vars
  <2>1. UNCHANGED <<cached, callback, params, rng, owner, pc, req, held, completed, reported,
                    drawn>>
    BY <1>3 DEF Music!vars, Music!modelVars, Music!jobVars
  <2>2. Music!TypeOK' /\ Music!LeasedIsCached'
    BY <2>1 DEF Music!JobsInv, Music!TypeOK, Music!LeasedIsCached
  <2>3. Music!OwnerIsInLease' /\ Music!ModelIsOnLoan'
    BY <2>1 DEF Music!JobsInv, Music!OwnerIsInLease, Music!ModelIsOnLoan, Music!InLease,
                Music!Long
  <2>4. ASSUME NEW j \in Jobs
        PROVE  Music!IsAccounted(j)'
    BY <2>1, SegmentCountKept DEF Music!JobsInv, Music!IsAccounted, Music!DrawnWithOwn,
                Music!ReportsFollowCount, Music!Long, Music!Ended
  <2> QED
    BY <1>1, <2>2, <2>3, <2>4 DEF Music!MusicInv, Music!JobsInv
<1> QED
  BY <1>1, <1>2, <1>3

\* A lease costs the model exactly when it raised or was interrupted.
LEMMA MusicDropsForCause ==
    ASSUME medium = "music", Music!MusicInv, [Next]_vars
    PROVE  Music!DroppedForCause
<1>1. (\E j \in Jobs : Music!Work(j) \/ Music!Cancel(j)) \/ UNCHANGED Music!vars
  BY MusicStep
<1> Music!JobsInv /\ Music!LeasedIsCached
  BY DEF Music!MusicInv
<1> SUFFICES ASSUME NEW k \in Jobs, owner = k, owner' # k
             PROVE  req[k].form \notin cached' <=>
                        \/ pc[k] = req[k].raises
                        \/ pc[k] = "generating" /\ cancelled[k] /\ Music!Long(k)
  BY DEF Music!DroppedForCause
<1>2. k # NoJob /\ req[k].form \in cached
  BY JobsAssumption DEF Music!LeasedIsCached
<1>3. req[k].raises # "exit"
  BY SongsAssumption DEF Music!JobsInv, Music!TypeOK
<1>4. PICK j \in Jobs : Music!Work(j) \/ Music!Cancel(j)
  BY <1>1 DEF Music!vars
<1>5. \/ /\ j = k /\ cached' = cached \ {req[k].form}
         /\ \/ pc[k] = req[k].raises
            \/ pc[k] = "generating" /\ cancelled[k] /\ Music!Long(k)
      \/ cached' = cached /\ pc[k] = "exit"
  BY <1>2, <1>4, MusicLeaseMoves
<1> QED
  BY <1>2, <1>3, <1>5

\* What the composite properties ask of a song.
LEMMA MusicConsequences ==
    ASSUME Music!MusicInv
    PROVE  /\ Music!NothingLeftOnModel /\ Music!DrawnAsAsked
           /\ Music!SegmentsReportedInOrder
<1>1. /\ Music!TypeOK /\ Music!OwnerIsInLease /\ Music!ModelIsOnLoan
      /\ \A j \in Jobs : Music!IsAccounted(j)
  BY DEF Music!MusicInv, Music!JobsInv
<1>2. Music!NothingLeftOnModel
  BY <1>1, JobsAssumption DEF Music!TypeOK, Music!ModelIsOnLoan, Music!NothingLeftOnModel
<1>3. Music!DrawnAsAsked
  BY <1>1 DEF Music!IsAccounted, Music!DrawnWithOwn, Music!DrawnAsAsked
<1>4. Music!SegmentsReportedInOrder
  BY <1>1 DEF Music!IsAccounted, Music!ReportsFollowCount, Music!SegmentsReportedInOrder
<1> QED
  BY <1>2, <1>3, <1>4

-----------------------------------------------------------------------------
(* Image jobs.                                                              *)

\* What every step needs of a request.
LEMMA PictureType ==
    ASSUME req \in [Jobs -> Pictures], NEW j \in Jobs
    PROVE  /\ Image!Count(j) \in 1..4 /\ req[j].lora \in Loras \cup {NoLora}
           /\ Image!OwnLora(j) \subseteq Loras
BY PicturesAssumption DEF Image!Count, Image!OwnLora

LEMMA ImageInit == Init /\ medium = "image" => Image!ImageInv
<1> SUFFICES ASSUME Init, medium = "image"
             PROVE  Image!ImageInv
  OBVIOUS
<1>1. Image!Init
  BY DEF Init
<1>2. Image!TypeOK /\ DOMAIN images = Jobs
  <2>1. /\ cached \in {"none", "ready"} /\ owner \in Jobs \cup {NoJob}
        /\ active \in Loras \cup {NoLora} /\ adapters \subseteq Loras
        /\ weights \in Loras \cup {NoLora} /\ req \in [Jobs -> Pictures]
    BY <1>1 DEF Image!Init
  <2>2. pc \in [Jobs -> Image!Labels] /\ cancelled \in [Jobs -> BOOLEAN]
    BY <1>1 DEF Image!Init, Image!Labels
  <2>3. held \in [Jobs -> SUBSET {"probe", "cancel", "progress", "validation"}]
    BY <1>1 DEF Image!Init
  <2>4. index \in [Jobs -> 1..5]
    BY <1>1 DEF Image!Init
  <2>5. DOMAIN images = Jobs /\ \A j \in Jobs : DOMAIN images[j] \subseteq Image!Variations
    BY <1>1 DEF Image!Init
  <2>6. /\ files \in [Jobs -> SUBSET Image!Variations]
        /\ outputs \in [Jobs -> SUBSET Image!Variations]
    BY <1>1 DEF Image!Init
  <2>7. faults \in 0..PictureFaults
    BY <1>1, JobsAssumption DEF Image!Init
  <2> QED
    BY <2>1, <2>2, <2>3, <2>4, <2>5, <2>6, <2>7 DEF Image!TypeOK
<1>3. Image!OwnerIsInLease /\ Image!PipelineIsAsClaimed
  BY <1>1, JobsAssumption
     DEF Image!Init, Image!OwnerIsInLease, Image!PipelineIsAsClaimed, Image!InLease
<1>4. ASSUME NEW j \in Jobs
      PROVE  Image!IsAccounted(j)
  <2>1. pc[j] = "new" /\ index[j] = 1 /\ images[j] = <<>> /\ files[j] = {} /\ outputs[j] = {}
    BY <1>1 DEF Image!Init
  <2>2. DOMAIN images[j] = {}
    BY <2>1
  <2> QED
    BY <2>1, <2>2 DEF Image!IsAccounted, Image!DrawsWithOwn, Image!VariationsInOrder,
                      Image!FilesAreNamed
<1> QED
  BY <1>2, <1>3, <1>4 DEF Image!ImageInv

\* A step of one job leaves the others as they are.
LEMMA ImageOthers ==
    ASSUME Image!ImageInv, NEW j \in Jobs, Image!TypeOK', DOMAIN images' = Jobs,
           Image!IsAccounted(j)', Image!OwnerIsInLease', Image!PipelineIsAsClaimed',
           req' = req, owner = j \/ owner = NoJob \/ UNCHANGED <<adapters, weights>>,
           \A k \in Jobs \ {j} :
               /\ pc'[k] = pc[k] /\ cancelled'[k] = cancelled[k] /\ held'[k] = held[k]
               /\ index'[k] = index[k] /\ images'[k] = images[k] /\ files'[k] = files[k]
               /\ outputs'[k] = outputs[k]
    PROVE  Image!ImageInv'
<1>1. ASSUME NEW k \in Jobs \ {j}
      PROVE  Image!IsAccounted(k)'
  <2>1. Image!IsAccounted(k)
    BY DEF Image!ImageInv
  <2>2. /\ pc'[k] = pc[k] /\ cancelled'[k] = cancelled[k] /\ held'[k] = held[k]
      /\ index'[k] = index[k] /\ images'[k] = images[k] /\ files'[k] = files[k]
      /\ outputs'[k] = outputs[k]
    BY <1>1
  <2>3. pc[k] \in {"inferred", "inferring"} => UNCHANGED <<adapters, weights>>
    BY JobsAssumption DEF Image!ImageInv, Image!OwnerIsInLease, Image!InLease
  <2>4. Image!OwnLora(k)' = Image!OwnLora(k) /\ Image!Count(k)' = Image!Count(k)
    BY DEF Image!OwnLora, Image!Count
  <2>5. Image!DrawsWithOwn(k)'
    BY <2>1, <2>3, <2>4 DEF Image!IsAccounted, Image!DrawsWithOwn
  <2>6. Image!VariationsInOrder(k)'
    BY <2>1, <2>2, <2>4 DEF Image!IsAccounted, Image!VariationsInOrder
  <2>7. Image!FilesAreNamed(k)'
    BY <2>1, <2>2 DEF Image!IsAccounted, Image!FilesAreNamed
  <2> QED
    BY <2>5, <2>6, <2>7 DEF Image!IsAccounted
<1> QED
  BY <1>1 DEF Image!ImageInv

\* Cancelled by the user.
LEMMA ImageStays ==
    ASSUME Image!ImageInv, NEW j \in Jobs,
           cancelled' = [cancelled EXCEPT ![j] = TRUE],
           UNCHANGED <<pc, held, index, images, files, outputs>>,
           req' = req,
           faults' \in 0..PictureFaults,
           UNCHANGED <<cached, owner, active, adapters, weights>>
    PROVE  Image!ImageInv'
<1>1. Image!IsAccounted(j)
  BY DEF Image!ImageInv
<1>2. /\ Image!OwnLora(j)' = Image!OwnLora(j) /\ Image!Count(j)' = Image!Count(j)
      /\ Image!Count(j) \in 1..4
  BY <1>1, PictureType DEF Image!ImageInv, Image!TypeOK, Image!OwnLora, Image!Count
<1>3. DOMAIN images' = Jobs
  BY <1>1, <1>2 DEF Image!ImageInv, Image!TypeOK
<1>4. Image!TypeOK'
  BY <1>2, <1>3 DEF Image!ImageInv, Image!TypeOK
<1>5. /\ pc'[j] = pc[j] /\ cancelled'[j] = TRUE /\ held'[j] = held[j]
      /\ index'[j] = index[j] /\ images'[j] = images[j] /\ files'[j] = files[j]
      /\ outputs'[j] = outputs[j]
  BY DEF Image!ImageInv, Image!TypeOK
<1>6. \A k \in Jobs \ {j} : /\ pc'[k] = pc[k] /\ cancelled'[k] = cancelled[k]
                          /\ held'[k] = held[k] /\ index'[k] = index[k]
                          /\ images'[k] = images[k] /\ files'[k] = files[k]
                          /\ outputs'[k] = outputs[k]
  BY DEF Image!ImageInv, Image!TypeOK
<1>7. Image!DrawsWithOwn(j)'
  BY <1>1, <1>5, <1>2 DEF Image!IsAccounted, Image!DrawsWithOwn
<1>8. Image!VariationsInOrder(j)'
  BY <1>1, <1>5, <1>2 DEF Image!IsAccounted, Image!VariationsInOrder
<1>9. Image!FilesAreNamed(j)'
  BY <1>1, <1>5 DEF Image!IsAccounted, Image!FilesAreNamed
<1>10. Image!OwnerIsInLease'
  BY <1>1, <1>5, <1>6, JobsAssumption DEF Image!ImageInv, Image!OwnerIsInLease
<1>11. Image!PipelineIsAsClaimed'
  BY <1>1, <1>5, <1>6 DEF Image!ImageInv, Image!TypeOK, Image!PipelineIsAsClaimed
<1>12. Image!IsAccounted(j)'
  BY <1>7, <1>8, <1>9 DEF Image!IsAccounted
<1> QED
  BY <1>4, <1>6, <1>3, <1>10, <1>11, <1>12, ImageOthers

\* A job before its lease moves on.
LEMMA ImageOutside ==
    ASSUME Image!ImageInv, NEW j \in Jobs,
           NEW l \in Image!Labels,
           \/ pc[j] = "new" /\ l \in {"waiting", "failed"}
           \/ pc[j] = "waiting" /\ l = "cancelled",
           pc' = [pc EXCEPT ![j] = l],
           UNCHANGED <<cancelled, held, index, images, files, outputs>>,
           req' = req,
           faults' \in 0..PictureFaults,
           UNCHANGED <<cached, owner, active, adapters, weights>>
    PROVE  Image!ImageInv'
<1>1. Image!IsAccounted(j)
  BY DEF Image!ImageInv
<1>2. /\ Image!OwnLora(j)' = Image!OwnLora(j) /\ Image!Count(j)' = Image!Count(j)
      /\ Image!Count(j) \in 1..4
  BY <1>1, PictureType DEF Image!ImageInv, Image!TypeOK, Image!OwnLora, Image!Count
<1>3. DOMAIN images' = Jobs
  BY <1>1, <1>2 DEF Image!ImageInv, Image!TypeOK
<1>4. Image!TypeOK'
  BY <1>2, <1>3 DEF Image!ImageInv, Image!TypeOK
<1>5. /\ pc'[j] = l /\ cancelled'[j] = cancelled[j] /\ held'[j] = held[j]
      /\ index'[j] = index[j] /\ images'[j] = images[j] /\ files'[j] = files[j]
      /\ outputs'[j] = outputs[j]
  BY DEF Image!ImageInv, Image!TypeOK
<1>6. \A k \in Jobs \ {j} : /\ pc'[k] = pc[k] /\ cancelled'[k] = cancelled[k]
                          /\ held'[k] = held[k] /\ index'[k] = index[k]
                          /\ images'[k] = images[k] /\ files'[k] = files[k]
                          /\ outputs'[k] = outputs[k]
  BY DEF Image!ImageInv, Image!TypeOK
<1>7. Image!DrawsWithOwn(j)'
  BY <1>1, <1>5 DEF Image!IsAccounted, Image!DrawsWithOwn
<1>8. Image!VariationsInOrder(j)'
  BY <1>1, <1>5 DEF Image!IsAccounted, Image!VariationsInOrder
<1>9. Image!FilesAreNamed(j)'
  BY <1>1, <1>5 DEF Image!IsAccounted, Image!FilesAreNamed, Image!Variations
<1>10. Image!OwnerIsInLease'
  BY <1>1, <1>5, <1>6, JobsAssumption
     DEF Image!ImageInv, Image!TypeOK, Image!OwnerIsInLease, Image!InLease
<1>11. Image!PipelineIsAsClaimed'
  BY <1>1, <1>5, <1>6 DEF Image!ImageInv, Image!TypeOK, Image!PipelineIsAsClaimed
<1>12. Image!IsAccounted(j)'
  BY <1>7, <1>8, <1>9 DEF Image!IsAccounted
<1> QED
  BY <1>4, <1>6, <1>3, <1>10, <1>11, <1>12, ImageOthers

\* A job gets the lease, on a runtime that is what it claims to be.
LEMMA ImageAcquires ==
    ASSUME Image!ImageInv, NEW j \in Jobs,
           pc[j] = "waiting",
           owner = NoJob,
           pc' = [pc EXCEPT ![j] = "leased"],
           UNCHANGED <<cancelled, held, index, images, files, outputs>>,
           req' = req,
           faults' \in 0..PictureFaults,
           owner' = j,
           cached' = "ready",
           active' \in Loras \cup {NoLora},
           adapters' \subseteq Loras,
           weights' \in Loras \cup {NoLora},
           adapters' = (IF active' = NoLora THEN {} ELSE {active'})
    PROVE  Image!ImageInv'
<1>1. Image!IsAccounted(j)
  BY DEF Image!ImageInv
<1>2. /\ Image!OwnLora(j)' = Image!OwnLora(j) /\ Image!Count(j)' = Image!Count(j)
      /\ Image!Count(j) \in 1..4
  BY <1>1, PictureType DEF Image!ImageInv, Image!TypeOK, Image!OwnLora, Image!Count
<1>3. DOMAIN images' = Jobs
  BY <1>1, <1>2 DEF Image!ImageInv, Image!TypeOK
<1>4. Image!TypeOK'
  BY <1>2, <1>3 DEF Image!ImageInv, Image!TypeOK, Image!Labels, Image!InLease
<1>5. /\ pc'[j] = "leased" /\ cancelled'[j] = cancelled[j] /\ held'[j] = held[j]
      /\ index'[j] = index[j] /\ images'[j] = images[j] /\ files'[j] = files[j]
      /\ outputs'[j] = outputs[j]
  BY DEF Image!ImageInv, Image!TypeOK
<1>6. \A k \in Jobs \ {j} : /\ pc'[k] = pc[k] /\ cancelled'[k] = cancelled[k]
                          /\ held'[k] = held[k] /\ index'[k] = index[k]
                          /\ images'[k] = images[k] /\ files'[k] = files[k]
                          /\ outputs'[k] = outputs[k]
  BY DEF Image!ImageInv, Image!TypeOK
<1>7. Image!DrawsWithOwn(j)'
  BY <1>1, <1>5 DEF Image!IsAccounted, Image!DrawsWithOwn
<1>8. Image!VariationsInOrder(j)'
  BY <1>1, <1>5 DEF Image!IsAccounted, Image!VariationsInOrder
<1>9. Image!FilesAreNamed(j)'
  BY <1>1, <1>5 DEF Image!IsAccounted, Image!FilesAreNamed
<1>10. Image!OwnerIsInLease'
  BY <1>1, <1>5, <1>6, JobsAssumption
     DEF Image!ImageInv, Image!TypeOK, Image!OwnerIsInLease, Image!InLease
<1>11. Image!PipelineIsAsClaimed'
  BY <1>1, <1>5, <1>6 DEF Image!ImageInv, Image!TypeOK, Image!PipelineIsAsClaimed
<1>12. Image!IsAccounted(j)'
  BY <1>7, <1>8, <1>9 DEF Image!IsAccounted
<1> QED
  BY <1>4, <1>6, <1>3, <1>10, <1>11, <1>12, ImageOthers

\* A probe finds the job wanted.
LEMMA ImageProbedClear ==
    ASSUME Image!ImageInv, NEW j \in Jobs,
           NEW l \in Image!Labels,
           \/ pc[j] = "leased" /\ l = "inspected"
           \/ pc[j] = "inspected" /\ l = "ready"
           \/ pc[j] = "inferred" /\ index[j] <= Image!Count(j) /\ l = "inferring",
           pc' = [pc EXCEPT ![j] = l],
           UNCHANGED <<cancelled, held, index, images, files, outputs>>,
           req' = req,
           faults' \in 0..PictureFaults,
           UNCHANGED <<cached, owner, active, adapters, weights>>
    PROVE  Image!ImageInv'
<1>1. Image!IsAccounted(j)
  BY DEF Image!ImageInv
<1>2. /\ Image!OwnLora(j)' = Image!OwnLora(j) /\ Image!Count(j)' = Image!Count(j)
      /\ Image!Count(j) \in 1..4
  BY <1>1, PictureType DEF Image!ImageInv, Image!TypeOK, Image!OwnLora, Image!Count
<1>3. owner = j /\ cached = "ready" /\ NoJob # j
  BY <1>1, <1>2, JobsAssumption DEF Image!ImageInv, Image!OwnerIsInLease, Image!InLease
<1>4. DOMAIN images' = Jobs
  BY <1>1, <1>2, <1>3 DEF Image!ImageInv, Image!TypeOK
<1>5. Image!TypeOK'
  BY <1>2, <1>3, <1>4 DEF Image!ImageInv, Image!TypeOK
<1>6. /\ pc'[j] = l /\ cancelled'[j] = cancelled[j] /\ held'[j] = held[j]
      /\ index'[j] = index[j] /\ images'[j] = images[j] /\ files'[j] = files[j]
      /\ outputs'[j] = outputs[j]
  BY DEF Image!ImageInv, Image!TypeOK
<1>7. \A k \in Jobs \ {j} : /\ pc'[k] = pc[k] /\ cancelled'[k] = cancelled[k]
                          /\ held'[k] = held[k] /\ index'[k] = index[k]
                          /\ images'[k] = images[k] /\ files'[k] = files[k]
                          /\ outputs'[k] = outputs[k]
  BY DEF Image!ImageInv, Image!TypeOK
<1>8. Image!DrawsWithOwn(j)'
  BY <1>1, <1>6, <1>2 DEF Image!IsAccounted, Image!DrawsWithOwn
<1>9. Image!VariationsInOrder(j)'
  BY <1>1, <1>6, <1>2 DEF Image!IsAccounted, Image!VariationsInOrder
<1>10. Image!FilesAreNamed(j)'
  BY <1>1, <1>6 DEF Image!IsAccounted, Image!FilesAreNamed, Image!InLease
<1>11. Image!OwnerIsInLease'
  BY <1>1, <1>6, <1>7, JobsAssumption
     DEF Image!ImageInv, Image!TypeOK, Image!OwnerIsInLease, Image!InLease
<1>12. Image!PipelineIsAsClaimed'
  BY <1>1, <1>6, <1>7 DEF Image!ImageInv, Image!TypeOK, Image!PipelineIsAsClaimed
<1>13. Image!IsAccounted(j)'
  BY <1>8, <1>9, <1>10 DEF Image!IsAccounted
<1> QED
  BY <1>5, <1>7, <1>4, <1>11, <1>12, <1>13, ImageOthers

\* It finds the job cancelled, or fails, or the request is refused.
LEMMA ImageProbedStop ==
    ASSUME Image!ImageInv, NEW j \in Jobs,
           pc[j] \in {"leased", "inspected", "inferred", "inferring"},
           NEW e \in {"probe", "cancel", "validation"},
           pc' = [pc EXCEPT ![j] = "exit"],
           held' = [held EXCEPT ![j] = @ \cup {e}],
           UNCHANGED <<cancelled, index, images, files, outputs>>,
           req' = req,
           faults' \in 0..PictureFaults,
           UNCHANGED <<cached, owner, active, adapters, weights>>
    PROVE  Image!ImageInv'
<1>1. Image!IsAccounted(j)
  BY DEF Image!ImageInv
<1>2. /\ Image!OwnLora(j)' = Image!OwnLora(j) /\ Image!Count(j)' = Image!Count(j)
      /\ Image!Count(j) \in 1..4
  BY <1>1, PictureType DEF Image!ImageInv, Image!TypeOK, Image!OwnLora, Image!Count
<1>3. owner = j /\ cached = "ready" /\ NoJob # j
  BY <1>1, <1>2, JobsAssumption DEF Image!ImageInv, Image!OwnerIsInLease, Image!InLease
<1>4. DOMAIN images' = Jobs
  BY <1>1, <1>2, <1>3 DEF Image!ImageInv, Image!TypeOK
<1>5. Image!TypeOK'
  BY <1>2, <1>3, <1>4 DEF Image!ImageInv, Image!TypeOK, Image!Labels, Image!InLease
<1>6. /\ pc'[j] = "exit" /\ cancelled'[j] = cancelled[j] /\ held'[j] = held[j] \cup {e}
      /\ index'[j] = index[j] /\ images'[j] = images[j] /\ files'[j] = files[j]
      /\ outputs'[j] = outputs[j]
  BY DEF Image!ImageInv, Image!TypeOK
<1>7. \A k \in Jobs \ {j} : /\ pc'[k] = pc[k] /\ cancelled'[k] = cancelled[k]
                          /\ held'[k] = held[k] /\ index'[k] = index[k]
                          /\ images'[k] = images[k] /\ files'[k] = files[k]
                          /\ outputs'[k] = outputs[k]
  BY DEF Image!ImageInv, Image!TypeOK
<1>8. Image!DrawsWithOwn(j)'
  BY <1>1, <1>6 DEF Image!IsAccounted, Image!DrawsWithOwn
<1>9. Image!VariationsInOrder(j)'
  BY <1>1, <1>6, <1>2 DEF Image!IsAccounted, Image!VariationsInOrder
<1>10. Image!FilesAreNamed(j)'
  BY <1>1, <1>6 DEF Image!IsAccounted, Image!FilesAreNamed, Image!InLease
<1>11. Image!OwnerIsInLease'
  BY <1>1, <1>6, <1>7, JobsAssumption
     DEF Image!ImageInv, Image!TypeOK, Image!OwnerIsInLease, Image!InLease
<1>12. Image!PipelineIsAsClaimed'
  BY <1>1, <1>6, <1>7 DEF Image!ImageInv, Image!TypeOK, Image!PipelineIsAsClaimed
<1>13. Image!IsAccounted(j)'
  BY <1>8, <1>9, <1>10 DEF Image!IsAccounted
<1> QED
  BY <1>5, <1>7, <1>4, <1>11, <1>12, <1>13, ImageOthers

\* The pipeline holds the LoRA of the job.
LEMMA ImageLoraApplied ==
    ASSUME Image!ImageInv, NEW j \in Jobs,
           pc[j] = "ready",
           pc' = [pc EXCEPT ![j] = "inferred"],
           UNCHANGED <<cancelled, held, index, images, files, outputs>>,
           req' = req,
           faults' \in 0..PictureFaults,
           UNCHANGED <<cached, owner>>,
           active' \in Loras \cup {NoLora},
           adapters' \subseteq Loras,
           weights' \in Loras \cup {NoLora},
           adapters' = Image!OwnLora(j),
           req[j].lora # NoLora => weights' = req[j].lora,
           adapters' = (IF active' = NoLora THEN {} ELSE {active'})
    PROVE  Image!ImageInv'
<1>1. Image!IsAccounted(j)
  BY DEF Image!ImageInv
<1>2. /\ Image!OwnLora(j)' = Image!OwnLora(j) /\ Image!Count(j)' = Image!Count(j)
      /\ Image!Count(j) \in 1..4
  BY <1>1, PictureType DEF Image!ImageInv, Image!TypeOK, Image!OwnLora, Image!Count
<1>3. owner = j /\ cached = "ready" /\ NoJob # j
  BY <1>1, <1>2, JobsAssumption DEF Image!ImageInv, Image!OwnerIsInLease, Image!InLease
<1>4. index[j] = 1 /\ DOMAIN images[j] = {}
  BY <1>1, <1>2, <1>3 DEF Image!IsAccounted, Image!VariationsInOrder
<1>5. 1..(1 - 1) = {}
  BY <1>2, <1>3, <1>4
<1>6. DOMAIN images' = Jobs
  BY <1>1 DEF Image!ImageInv, Image!TypeOK
<1>7. Image!TypeOK'
  BY DEF Image!ImageInv, Image!TypeOK, Image!Labels, Image!InLease
<1>8. /\ pc'[j] = "inferred" /\ cancelled'[j] = cancelled[j] /\ held'[j] = held[j]
      /\ index'[j] = index[j] /\ images'[j] = images[j] /\ files'[j] = files[j]
      /\ outputs'[j] = outputs[j]
  BY DEF Image!ImageInv, Image!TypeOK
<1>9. \A k \in Jobs \ {j} : /\ pc'[k] = pc[k] /\ cancelled'[k] = cancelled[k]
                          /\ held'[k] = held[k] /\ index'[k] = index[k]
                          /\ images'[k] = images[k] /\ files'[k] = files[k]
                          /\ outputs'[k] = outputs[k]
  BY DEF Image!ImageInv, Image!TypeOK
<1>10. Image!DrawsWithOwn(j)'
  BY <1>1, <1>8, <1>2 DEF Image!IsAccounted, Image!DrawsWithOwn
<1>11. Image!VariationsInOrder(j)'
  BY <1>1, <1>8, <1>2, <1>4 DEF Image!IsAccounted, Image!VariationsInOrder
<1>12. Image!FilesAreNamed(j)'
  BY <1>1, <1>8 DEF Image!IsAccounted, Image!FilesAreNamed, Image!InLease
<1>13. Image!OwnerIsInLease'
  BY <1>1, <1>8, <1>9, JobsAssumption
     DEF Image!ImageInv, Image!TypeOK, Image!OwnerIsInLease, Image!InLease
<1>14. Image!PipelineIsAsClaimed'
  BY <1>1, <1>8, <1>9 DEF Image!ImageInv, Image!TypeOK, Image!PipelineIsAsClaimed
<1>15. Image!IsAccounted(j)'
  BY <1>10, <1>11, <1>12 DEF Image!IsAccounted
<1> QED
  BY <1>7, <1>9, <1>3, <1>6, <1>13, <1>14, <1>15, ImageOthers

\* An exception leaves the lease.
LEMMA ImageRaises ==
    ASSUME Image!ImageInv, NEW j \in Jobs,
           pc[j] \in {"ready", "inferring"},
           NEW l \in {"failed", "cancelled"},
           pc' = [pc EXCEPT ![j] = l],
           UNCHANGED <<cancelled, held, index, images, files, outputs>>,
           req' = req,
           faults' \in 0..PictureFaults,
           cached' = "none",
           owner' = NoJob,
           active' \in Loras \cup {NoLora},
           adapters' \subseteq Loras,
           weights' \in Loras \cup {NoLora}
    PROVE  Image!ImageInv'
<1>1. Image!IsAccounted(j)
  BY DEF Image!ImageInv
<1>2. /\ Image!OwnLora(j)' = Image!OwnLora(j) /\ Image!Count(j)' = Image!Count(j)
      /\ Image!Count(j) \in 1..4
  BY <1>1, PictureType DEF Image!ImageInv, Image!TypeOK, Image!OwnLora, Image!Count
<1>3. owner = j /\ cached = "ready" /\ NoJob # j
  BY <1>1, <1>2, JobsAssumption DEF Image!ImageInv, Image!OwnerIsInLease, Image!InLease
<1>4. DOMAIN images' = Jobs
  BY <1>1, <1>2, <1>3 DEF Image!ImageInv, Image!TypeOK
<1>5. Image!TypeOK'
  BY <1>2, <1>3, <1>4 DEF Image!ImageInv, Image!TypeOK, Image!Labels, Image!Ended
<1>6. /\ pc'[j] = l /\ cancelled'[j] = cancelled[j] /\ held'[j] = held[j]
      /\ index'[j] = index[j] /\ images'[j] = images[j] /\ files'[j] = files[j]
      /\ outputs'[j] = outputs[j]
  BY DEF Image!ImageInv, Image!TypeOK
<1>7. \A k \in Jobs \ {j} : /\ pc'[k] = pc[k] /\ cancelled'[k] = cancelled[k]
                          /\ held'[k] = held[k] /\ index'[k] = index[k]
                          /\ images'[k] = images[k] /\ files'[k] = files[k]
                          /\ outputs'[k] = outputs[k]
  BY DEF Image!ImageInv, Image!TypeOK
<1>8. Image!DrawsWithOwn(j)'
  BY <1>1, <1>6 DEF Image!IsAccounted, Image!DrawsWithOwn
<1>9. Image!VariationsInOrder(j)'
  BY <1>1, <1>6, <1>2 DEF Image!IsAccounted, Image!VariationsInOrder
<1>10. Image!FilesAreNamed(j)'
  BY <1>1, <1>6 DEF Image!IsAccounted, Image!FilesAreNamed, Image!InLease, Image!Variations
<1>11. Image!OwnerIsInLease'
  BY <1>1, <1>6, <1>7, JobsAssumption
     DEF Image!ImageInv, Image!TypeOK, Image!OwnerIsInLease, Image!InLease
<1>12. Image!PipelineIsAsClaimed'
  BY <1>1, <1>6, <1>7 DEF Image!ImageInv, Image!TypeOK, Image!PipelineIsAsClaimed
<1>13. Image!IsAccounted(j)'
  BY <1>8, <1>9, <1>10 DEF Image!IsAccounted
<1> QED
  BY <1>5, <1>7, <1>3, <1>4, <1>11, <1>12, <1>13, ImageOthers

\* ... after a progress report that failed.
LEMMA ImageRaisesUnreported ==
    ASSUME Image!ImageInv, NEW j \in Jobs,
           pc[j] \in {"ready", "inferring"},
           NEW l \in {"failed", "cancelled"},
           pc' = [pc EXCEPT ![j] = l],
           held' = [held EXCEPT ![j] = @ \cup {"progress"}],
           UNCHANGED <<cancelled, index, images, files, outputs>>,
           req' = req,
           faults' \in 0..PictureFaults,
           cached' = "none",
           owner' = NoJob,
           active' \in Loras \cup {NoLora},
           adapters' \subseteq Loras,
           weights' \in Loras \cup {NoLora}
    PROVE  Image!ImageInv'
<1>1. Image!IsAccounted(j)
  BY DEF Image!ImageInv
<1>2. /\ Image!OwnLora(j)' = Image!OwnLora(j) /\ Image!Count(j)' = Image!Count(j)
      /\ Image!Count(j) \in 1..4
  BY <1>1, PictureType DEF Image!ImageInv, Image!TypeOK, Image!OwnLora, Image!Count
<1>3. owner = j /\ cached = "ready" /\ NoJob # j
  BY <1>1, <1>2, JobsAssumption DEF Image!ImageInv, Image!OwnerIsInLease, Image!InLease
<1>4. DOMAIN images' = Jobs
  BY <1>1, <1>2, <1>3 DEF Image!ImageInv, Image!TypeOK
<1>5. Image!TypeOK'
  BY <1>2, <1>3, <1>4 DEF Image!ImageInv, Image!TypeOK, Image!Labels, Image!Ended
<1>6. /\ pc'[j] = l /\ cancelled'[j] = cancelled[j] /\ held'[j] = held[j] \cup {"progress"}
      /\ index'[j] = index[j] /\ images'[j] = images[j] /\ files'[j] = files[j]
      /\ outputs'[j] = outputs[j]
  BY DEF Image!ImageInv, Image!TypeOK
<1>7. \A k \in Jobs \ {j} : /\ pc'[k] = pc[k] /\ cancelled'[k] = cancelled[k]
                          /\ held'[k] = held[k] /\ index'[k] = index[k]
                          /\ images'[k] = images[k] /\ files'[k] = files[k]
                          /\ outputs'[k] = outputs[k]
  BY DEF Image!ImageInv, Image!TypeOK
<1>8. Image!DrawsWithOwn(j)'
  BY <1>1, <1>6 DEF Image!IsAccounted, Image!DrawsWithOwn
<1>9. Image!VariationsInOrder(j)'
  BY <1>1, <1>6, <1>2 DEF Image!IsAccounted, Image!VariationsInOrder
<1>10. Image!FilesAreNamed(j)'
  BY <1>1, <1>6 DEF Image!IsAccounted, Image!FilesAreNamed, Image!InLease, Image!Variations
<1>11. Image!OwnerIsInLease'
  BY <1>1, <1>6, <1>7, JobsAssumption
     DEF Image!ImageInv, Image!TypeOK, Image!OwnerIsInLease, Image!InLease
<1>12. Image!PipelineIsAsClaimed'
  BY <1>1, <1>6, <1>7 DEF Image!ImageInv, Image!TypeOK, Image!PipelineIsAsClaimed
<1>13. Image!IsAccounted(j)'
  BY <1>8, <1>9, <1>10 DEF Image!IsAccounted
<1> QED
  BY <1>5, <1>7, <1>3, <1>4, <1>11, <1>12, <1>13, ImageOthers

\* A progress report fails.
LEMMA ImageUnreported ==
    ASSUME Image!ImageInv, NEW j \in Jobs,
           pc[j] = "inferring",
           held' = [held EXCEPT ![j] = @ \cup {"progress"}],
           UNCHANGED <<pc, cancelled, index, images, files, outputs>>,
           req' = req,
           faults' \in 0..PictureFaults,
           UNCHANGED <<cached, owner, active, adapters, weights>>
    PROVE  Image!ImageInv'
<1>1. Image!IsAccounted(j)
  BY DEF Image!ImageInv
<1>2. /\ Image!OwnLora(j)' = Image!OwnLora(j) /\ Image!Count(j)' = Image!Count(j)
      /\ Image!Count(j) \in 1..4
  BY <1>1, PictureType DEF Image!ImageInv, Image!TypeOK, Image!OwnLora, Image!Count
<1>3. owner = j /\ cached = "ready" /\ NoJob # j
  BY <1>1, <1>2, JobsAssumption DEF Image!ImageInv, Image!OwnerIsInLease, Image!InLease
<1>4. DOMAIN images' = Jobs
  BY <1>1, <1>2, <1>3 DEF Image!ImageInv, Image!TypeOK
<1>5. Image!TypeOK'
  BY <1>2, <1>3, <1>4 DEF Image!ImageInv, Image!TypeOK
<1>6. /\ pc'[j] = pc[j] /\ cancelled'[j] = cancelled[j]
      /\ held'[j] = held[j] \cup {"progress"} /\ index'[j] = index[j]
      /\ images'[j] = images[j] /\ files'[j] = files[j] /\ outputs'[j] = outputs[j]
  BY DEF Image!ImageInv, Image!TypeOK
<1>7. \A k \in Jobs \ {j} : /\ pc'[k] = pc[k] /\ cancelled'[k] = cancelled[k]
                          /\ held'[k] = held[k] /\ index'[k] = index[k]
                          /\ images'[k] = images[k] /\ files'[k] = files[k]
                          /\ outputs'[k] = outputs[k]
  BY DEF Image!ImageInv, Image!TypeOK
<1>8. Image!DrawsWithOwn(j)'
  BY <1>1, <1>6, <1>2 DEF Image!IsAccounted, Image!DrawsWithOwn
<1>9. Image!VariationsInOrder(j)'
  BY <1>1, <1>6, <1>2 DEF Image!IsAccounted, Image!VariationsInOrder
<1>10. Image!FilesAreNamed(j)'
  BY <1>1, <1>6 DEF Image!IsAccounted, Image!FilesAreNamed
<1>11. Image!OwnerIsInLease'
  BY <1>1, <1>6, <1>7, JobsAssumption DEF Image!ImageInv, Image!OwnerIsInLease
<1>12. Image!PipelineIsAsClaimed'
  BY <1>1, <1>6, <1>7 DEF Image!ImageInv, Image!TypeOK, Image!PipelineIsAsClaimed
<1>13. Image!IsAccounted(j)'
  BY <1>8, <1>9, <1>10 DEF Image!IsAccounted
<1> QED
  BY <1>5, <1>7, <1>4, <1>11, <1>12, <1>13, ImageOthers

\* An image is collected, drawn with what is in effect.
LEMMA ImageCollected ==
    ASSUME Image!ImageInv, NEW j \in Jobs,
           pc[j] = "inferring",
           NEW l \in {"exit", "inferred"},
           l = "inferred" => index[j] # Image!Count(j),
           pc' = [pc EXCEPT ![j] = l],
           index' = [index EXCEPT ![j] = @ + 1],
           images' = [images EXCEPT ![j] = [v \in 1..index[j] |->
                          IF v = index[j] THEN Image!InEffect ELSE @[v]]],
           UNCHANGED <<cancelled, held, files, outputs>>,
           req' = req,
           faults' \in 0..PictureFaults,
           UNCHANGED <<cached, owner, active, adapters, weights>>
    PROVE  Image!ImageInv'
<1>1. Image!IsAccounted(j)
  BY DEF Image!ImageInv
<1>2. /\ Image!OwnLora(j)' = Image!OwnLora(j) /\ Image!Count(j)' = Image!Count(j)
      /\ Image!Count(j) \in 1..4
  BY <1>1, PictureType DEF Image!ImageInv, Image!TypeOK, Image!OwnLora, Image!Count
<1>3. owner = j /\ cached = "ready" /\ NoJob # j
  BY <1>1, <1>2, JobsAssumption DEF Image!ImageInv, Image!OwnerIsInLease, Image!InLease
<1>4. Image!InEffect = Image!OwnLora(j)
  BY <1>1, <1>2, <1>3
     DEF Image!ImageInv, Image!TypeOK, Image!IsAccounted, Image!DrawsWithOwn, Image!OwnLora,
         Image!InEffect
<1>5. index[j] \in 1..4 /\ index[j] <= Image!Count(j) /\ index[j] + 1 \in 1..5
  BY <1>1, <1>2 DEF Image!ImageInv, Image!TypeOK, Image!IsAccounted, Image!VariationsInOrder
<1>6. index[j] # Image!Count(j) => index[j] + 1 <= Image!Count(j)
  BY <1>2, <1>5
<1>7. /\ DOMAIN images[j] = 1..(index[j] - 1) /\ 1..((index[j] + 1) - 1) = 1..index[j]
      /\ 1..index[j] \subseteq 1..4
  BY <1>1, <1>2, <1>3, <1>4
     DEF Image!ImageInv, Image!TypeOK, Image!IsAccounted, Image!VariationsInOrder
<1>8. images'[j] = [v \in 1..index[j] |->
             IF v = index[j] THEN Image!OwnLora(j) ELSE images[j][v]]
  BY <1>1, <1>4 DEF Image!ImageInv, Image!TypeOK
<1>9. DOMAIN images'[j] = 1..index[j] /\ \A v \in 1..index[j] : images'[j][v] = Image!OwnLora(j)
  BY <1>1, <1>4 DEF Image!ImageInv, Image!TypeOK, Image!IsAccounted, Image!VariationsInOrder
<1>10. DOMAIN images' = Jobs
  BY <1>1 DEF Image!ImageInv, Image!TypeOK
<1>11. Image!TypeOK'
  BY <1>5 DEF Image!ImageInv, Image!TypeOK, Image!Labels, Image!InLease, Image!Variations
<1>12. /\ pc'[j] = l /\ cancelled'[j] = cancelled[j] /\ held'[j] = held[j]
      /\ index'[j] = index[j] + 1
      /\ images'[j] = [v \in 1..index[j] |->
             IF v = index[j] THEN Image!OwnLora(j) ELSE images[j][v]]
      /\ files'[j] = files[j] /\ outputs'[j] = outputs[j]
  BY <1>4 DEF Image!ImageInv, Image!TypeOK
<1>13. \A k \in Jobs \ {j} : /\ pc'[k] = pc[k] /\ cancelled'[k] = cancelled[k]
                          /\ held'[k] = held[k] /\ index'[k] = index[k]
                          /\ images'[k] = images[k] /\ files'[k] = files[k]
                          /\ outputs'[k] = outputs[k]
  BY DEF Image!ImageInv, Image!TypeOK
<1>14. Image!DrawsWithOwn(j)'
  BY <1>1, <1>12, <1>2 DEF Image!IsAccounted, Image!DrawsWithOwn
<1>15. Image!VariationsInOrder(j)'
  BY <1>1, <1>12, <1>2, <1>5 DEF Image!IsAccounted, Image!VariationsInOrder
<1>16. Image!FilesAreNamed(j)'
  BY <1>1, <1>12 DEF Image!IsAccounted, Image!FilesAreNamed, Image!InLease
<1>17. Image!OwnerIsInLease'
  BY <1>1, <1>12, <1>13, JobsAssumption
     DEF Image!ImageInv, Image!TypeOK, Image!OwnerIsInLease, Image!InLease
<1>18. Image!PipelineIsAsClaimed'
  BY <1>1, <1>12, <1>13 DEF Image!ImageInv, Image!TypeOK, Image!PipelineIsAsClaimed
<1>19. Image!IsAccounted(j)'
  BY <1>14, <1>15, <1>16 DEF Image!IsAccounted
<1> QED
  BY <1>11, <1>13, <1>10, <1>17, <1>18, <1>19, ImageOthers

\* ... and its report fails.
LEMMA ImageCollectedUnreported ==
    ASSUME Image!ImageInv, NEW j \in Jobs,
           pc[j] = "inferring",
           NEW l \in {"exit", "inferred"},
           l = "inferred" => index[j] # Image!Count(j),
           pc' = [pc EXCEPT ![j] = l],
           index' = [index EXCEPT ![j] = @ + 1],
           images' = [images EXCEPT ![j] = [v \in 1..index[j] |->
                          IF v = index[j] THEN Image!InEffect ELSE @[v]]],
           held' = [held EXCEPT ![j] = @ \cup {"progress"}],
           UNCHANGED <<cancelled, files, outputs>>,
           req' = req,
           faults' \in 0..PictureFaults,
           UNCHANGED <<cached, owner, active, adapters, weights>>
    PROVE  Image!ImageInv'
<1>1. Image!IsAccounted(j)
  BY DEF Image!ImageInv
<1>2. /\ Image!OwnLora(j)' = Image!OwnLora(j) /\ Image!Count(j)' = Image!Count(j)
      /\ Image!Count(j) \in 1..4
  BY <1>1, PictureType DEF Image!ImageInv, Image!TypeOK, Image!OwnLora, Image!Count
<1>3. owner = j /\ cached = "ready" /\ NoJob # j
  BY <1>1, <1>2, JobsAssumption DEF Image!ImageInv, Image!OwnerIsInLease, Image!InLease
<1>4. Image!InEffect = Image!OwnLora(j)
  BY <1>1, <1>2, <1>3
     DEF Image!ImageInv, Image!TypeOK, Image!IsAccounted, Image!DrawsWithOwn, Image!OwnLora,
         Image!InEffect
<1>5. index[j] \in 1..4 /\ index[j] <= Image!Count(j) /\ index[j] + 1 \in 1..5
  BY <1>1, <1>2 DEF Image!ImageInv, Image!TypeOK, Image!IsAccounted, Image!VariationsInOrder
<1>6. index[j] # Image!Count(j) => index[j] + 1 <= Image!Count(j)
  BY <1>2, <1>5
<1>7. /\ DOMAIN images[j] = 1..(index[j] - 1) /\ 1..((index[j] + 1) - 1) = 1..index[j]
      /\ 1..index[j] \subseteq 1..4
  BY <1>1, <1>5 DEF Image!IsAccounted, Image!VariationsInOrder
<1>8. images'[j] = [v \in 1..index[j] |->
             IF v = index[j] THEN Image!OwnLora(j) ELSE images[j][v]]
  BY <1>1, <1>4 DEF Image!ImageInv, Image!TypeOK
<1>9. DOMAIN images'[j] = 1..index[j] /\ \A v \in 1..index[j] : images'[j][v] = Image!OwnLora(j)
  BY <1>1, <1>4 DEF Image!ImageInv, Image!TypeOK, Image!IsAccounted, Image!VariationsInOrder
<1>10. DOMAIN images' = Jobs
  BY <1>1 DEF Image!ImageInv, Image!TypeOK
<1>11. Image!TypeOK'
  BY <1>2, <1>5 DEF Image!ImageInv, Image!TypeOK, Image!Labels, Image!InLease, Image!Variations
<1>12. /\ pc'[j] = l /\ cancelled'[j] = cancelled[j] /\ held'[j] = held[j] \cup {"progress"}
      /\ index'[j] = index[j] + 1
      /\ images'[j] = [v \in 1..index[j] |->
             IF v = index[j] THEN Image!OwnLora(j) ELSE images[j][v]]
      /\ files'[j] = files[j] /\ outputs'[j] = outputs[j]
  BY <1>4 DEF Image!ImageInv, Image!TypeOK
<1>13. \A k \in Jobs \ {j} : /\ pc'[k] = pc[k] /\ cancelled'[k] = cancelled[k]
                          /\ held'[k] = held[k] /\ index'[k] = index[k]
                          /\ images'[k] = images[k] /\ files'[k] = files[k]
                          /\ outputs'[k] = outputs[k]
  BY DEF Image!ImageInv, Image!TypeOK
<1>14. Image!DrawsWithOwn(j)'
  BY <1>1, <1>12, <1>2 DEF Image!IsAccounted, Image!DrawsWithOwn
<1>15. Image!VariationsInOrder(j)'
  BY <1>1, <1>12, <1>2, <1>5 DEF Image!IsAccounted, Image!VariationsInOrder
<1>16. Image!FilesAreNamed(j)'
  BY <1>1, <1>12 DEF Image!IsAccounted, Image!FilesAreNamed, Image!InLease
<1>17. Image!OwnerIsInLease'
  BY <1>1, <1>12, <1>13, JobsAssumption
     DEF Image!ImageInv, Image!TypeOK, Image!OwnerIsInLease, Image!InLease
<1>18. Image!PipelineIsAsClaimed'
  BY <1>1, <1>12, <1>13 DEF Image!ImageInv, Image!TypeOK, Image!PipelineIsAsClaimed
<1>19. Image!IsAccounted(j)'
  BY <1>14, <1>15, <1>16 DEF Image!IsAccounted
<1> QED
  BY <1>11, <1>13, <1>10, <1>17, <1>18, <1>19, ImageOthers

\* The lease ends; the files are written after it.
LEMMA ImageLeaves ==
    ASSUME Image!ImageInv, NEW j \in Jobs,
           pc[j] = "exit",
           pc' = [pc EXCEPT ![j] = Image!Outcome(j)],
           index' = [index EXCEPT ![j] = 1],
           UNCHANGED <<cancelled, held, images, files, outputs>>,
           req' = req,
           faults' \in 0..PictureFaults,
           UNCHANGED <<cached, active, adapters, weights>>,
           owner' = NoJob
    PROVE  Image!ImageInv'
<1>1. Image!IsAccounted(j)
  BY DEF Image!ImageInv
<1>2. /\ Image!OwnLora(j)' = Image!OwnLora(j) /\ Image!Count(j)' = Image!Count(j)
      /\ Image!Count(j) \in 1..4
  BY <1>1, PictureType DEF Image!ImageInv, Image!TypeOK, Image!OwnLora, Image!Count
<1>3. owner = j /\ cached = "ready" /\ NoJob # j
  BY <1>1, <1>2, JobsAssumption DEF Image!ImageInv, Image!OwnerIsInLease, Image!InLease
<1>4. files[j] = {} /\ outputs[j] = {}
  BY <1>1, <1>2, <1>3
     DEF Image!ImageInv, Image!TypeOK, Image!IsAccounted, Image!FilesAreNamed, Image!InLease
<1>5. \/ Image!Outcome(j) \in {"failed", "cancelled"}
      \/ Image!Outcome(j) = "saving" /\ held[j] = {}
  BY <1>1 DEF Image!ImageInv, Image!TypeOK, Image!Outcome
<1>6. DOMAIN images' = Jobs
  BY <1>1 DEF Image!ImageInv, Image!TypeOK
<1>7. Image!TypeOK'
  BY <1>5 DEF Image!ImageInv, Image!TypeOK, Image!Labels, Image!Ended
<1>8. /\ pc'[j] = Image!Outcome(j) /\ cancelled'[j] = cancelled[j] /\ held'[j] = held[j]
      /\ index'[j] = 1 /\ images'[j] = images[j] /\ files'[j] = files[j]
      /\ outputs'[j] = outputs[j]
  BY DEF Image!ImageInv, Image!TypeOK
<1>9. \A k \in Jobs \ {j} : /\ pc'[k] = pc[k] /\ cancelled'[k] = cancelled[k]
                          /\ held'[k] = held[k] /\ index'[k] = index[k]
                          /\ images'[k] = images[k] /\ files'[k] = files[k]
                          /\ outputs'[k] = outputs[k]
  BY DEF Image!ImageInv, Image!TypeOK
<1>10. Image!DrawsWithOwn(j)'
  BY <1>1, <1>8, <1>5 DEF Image!IsAccounted, Image!DrawsWithOwn
<1>11. Image!VariationsInOrder(j)'
  BY <1>1, <1>8, <1>2, <1>5 DEF Image!IsAccounted, Image!VariationsInOrder
<1>12. Image!FilesAreNamed(j)'
  BY <1>1, <1>8, <1>4, <1>5 DEF Image!FilesAreNamed, Image!Variations
<1>13. Image!OwnerIsInLease'
  BY <1>1, <1>8, <1>9, <1>5, JobsAssumption
     DEF Image!ImageInv, Image!TypeOK, Image!OwnerIsInLease, Image!InLease
<1>14. Image!PipelineIsAsClaimed'
  BY <1>1, <1>8, <1>9 DEF Image!ImageInv, Image!TypeOK, Image!PipelineIsAsClaimed
<1>15. Image!IsAccounted(j)'
  BY <1>10, <1>11, <1>12 DEF Image!IsAccounted
<1> QED
  BY <1>7, <1>9, <1>6, <1>13, <1>14, <1>15, ImageOthers

\* The job ends, and what it saved is unlinked.
LEMMA ImageDropped ==
    ASSUME Image!ImageInv, NEW j \in Jobs,
           pc[j] \in {"saving", "saved"},
           NEW l \in {"failed", "cancelled"},
           pc' = [pc EXCEPT ![j] = l],
           files' = [files EXCEPT ![j] = @ \ outputs[j]],
           UNCHANGED <<cancelled, held, index, images, outputs>>,
           req' = req,
           faults' \in 0..PictureFaults,
           UNCHANGED <<cached, owner, active, adapters, weights>>
    PROVE  Image!ImageInv'
<1>1. Image!IsAccounted(j)
  BY DEF Image!ImageInv
<1>2. /\ Image!OwnLora(j)' = Image!OwnLora(j) /\ Image!Count(j)' = Image!Count(j)
      /\ Image!Count(j) \in 1..4
  BY <1>1, PictureType DEF Image!ImageInv, Image!TypeOK, Image!OwnLora, Image!Count
<1>3. files[j] = outputs[j] /\ 1 \in Image!Variations
  BY <1>1, <1>2
     DEF Image!ImageInv, Image!TypeOK, Image!IsAccounted, Image!FilesAreNamed,
         Image!Variations
<1>4. DOMAIN images' = Jobs
  BY <1>1, <1>2, <1>3 DEF Image!ImageInv, Image!TypeOK
<1>5. Image!TypeOK'
  BY <1>2, <1>3, <1>4 DEF Image!ImageInv, Image!TypeOK, Image!Labels, Image!Ended
<1>6. /\ pc'[j] = l /\ cancelled'[j] = cancelled[j] /\ held'[j] = held[j]
      /\ index'[j] = index[j] /\ images'[j] = images[j] /\ files'[j] = {}
      /\ outputs'[j] = outputs[j]
  BY <1>2, <1>3, <1>4 DEF Image!ImageInv, Image!TypeOK
<1>7. \A k \in Jobs \ {j} : /\ pc'[k] = pc[k] /\ cancelled'[k] = cancelled[k]
                          /\ held'[k] = held[k] /\ index'[k] = index[k]
                          /\ images'[k] = images[k] /\ files'[k] = files[k]
                          /\ outputs'[k] = outputs[k]
  BY DEF Image!ImageInv, Image!TypeOK
<1>8. Image!DrawsWithOwn(j)'
  BY <1>1, <1>6 DEF Image!IsAccounted, Image!DrawsWithOwn
<1>9. Image!VariationsInOrder(j)'
  BY <1>1, <1>6, <1>2 DEF Image!IsAccounted, Image!VariationsInOrder
<1>10. Image!FilesAreNamed(j)'
  BY <1>1, <1>6 DEF Image!FilesAreNamed, Image!InLease, Image!Variations
<1>11. Image!OwnerIsInLease'
  BY <1>1, <1>6, <1>7, JobsAssumption
     DEF Image!ImageInv, Image!TypeOK, Image!OwnerIsInLease, Image!InLease
<1>12. Image!PipelineIsAsClaimed'
  BY <1>1, <1>6, <1>7 DEF Image!ImageInv, Image!TypeOK, Image!PipelineIsAsClaimed
<1>13. Image!IsAccounted(j)'
  BY <1>8, <1>9, <1>10 DEF Image!IsAccounted
<1> QED
  BY <1>5, <1>7, <1>4, <1>11, <1>12, <1>13, ImageOthers

\* A save raises, and may leave its file.
LEMMA ImageUnsaved ==
    ASSUME Image!ImageInv, NEW j \in Jobs,
           pc[j] = "saving",
           pc' = [pc EXCEPT ![j] = "failed"],
           files' = [files EXCEPT ![j] = (@ \ outputs[j]) \cup {index[j]}],
           UNCHANGED <<cancelled, held, index, images, outputs>>,
           req' = req,
           faults' \in 0..PictureFaults,
           UNCHANGED <<cached, owner, active, adapters, weights>>
    PROVE  Image!ImageInv'
<1>1. Image!IsAccounted(j)
  BY DEF Image!ImageInv
<1>2. /\ Image!OwnLora(j)' = Image!OwnLora(j) /\ Image!Count(j)' = Image!Count(j)
      /\ Image!Count(j) \in 1..4
  BY <1>1, PictureType DEF Image!ImageInv, Image!TypeOK, Image!OwnLora, Image!Count
<1>3. files[j] = outputs[j] /\ 1 \in Image!Variations
  BY <1>1, <1>2
     DEF Image!ImageInv, Image!TypeOK, Image!IsAccounted, Image!FilesAreNamed,
         Image!Variations
<1>4. index[j] \in 1..4 /\ index[j] + 1 \in 1..5 /\ index[j] <= Image!Count(j)
  BY <1>1, <1>2, <1>3 DEF Image!ImageInv, Image!TypeOK, Image!IsAccounted, Image!VariationsInOrder
<1>5. files[j] = 1..(index[j] - 1)
  BY <1>1 DEF Image!IsAccounted, Image!FilesAreNamed
<1>6. index[j] \notin 1..(index[j] - 1) /\ index[j] \in Image!Variations
  BY <1>1, <1>4 DEF Image!ImageInv, Image!TypeOK, Image!Variations
<1>7. DOMAIN images' = Jobs
  BY <1>1 DEF Image!ImageInv, Image!TypeOK
<1>8. Image!TypeOK'
  BY <1>4 DEF Image!ImageInv, Image!TypeOK, Image!Labels, Image!Ended, Image!Variations
<1>9. /\ pc'[j] = "failed" /\ cancelled'[j] = cancelled[j] /\ held'[j] = held[j]
      /\ index'[j] = index[j] /\ images'[j] = images[j] /\ files'[j] = {index[j]}
      /\ outputs'[j] = outputs[j]
  BY <1>3 DEF Image!ImageInv, Image!TypeOK
<1>10. \A k \in Jobs \ {j} : /\ pc'[k] = pc[k] /\ cancelled'[k] = cancelled[k]
                          /\ held'[k] = held[k] /\ index'[k] = index[k]
                          /\ images'[k] = images[k] /\ files'[k] = files[k]
                          /\ outputs'[k] = outputs[k]
  BY DEF Image!ImageInv, Image!TypeOK
<1>11. Image!DrawsWithOwn(j)'
  BY <1>1, <1>9 DEF Image!IsAccounted, Image!DrawsWithOwn
<1>12. Image!VariationsInOrder(j)'
  BY <1>1, <1>9, <1>2 DEF Image!IsAccounted, Image!VariationsInOrder
<1>13. Image!FilesAreNamed(j)'
  BY <1>1, <1>9, <1>4 DEF Image!IsAccounted, Image!FilesAreNamed, Image!InLease, Image!Variations
<1>14. Image!OwnerIsInLease'
  BY <1>1, <1>9, <1>10, JobsAssumption
     DEF Image!ImageInv, Image!TypeOK, Image!OwnerIsInLease, Image!InLease
<1>15. Image!PipelineIsAsClaimed'
  BY <1>1, <1>9, <1>10 DEF Image!ImageInv, Image!TypeOK, Image!PipelineIsAsClaimed
<1>16. Image!IsAccounted(j)'
  BY <1>11, <1>12, <1>13 DEF Image!IsAccounted
<1> QED
  BY <1>8, <1>10, <1>7, <1>14, <1>15, <1>16, ImageOthers

\* A variation is saved and named.
LEMMA ImageSaved ==
    ASSUME Image!ImageInv, NEW j \in Jobs,
           pc[j] = "saving",
           pc' = [pc EXCEPT ![j] = "saved"],
           files' = [files EXCEPT ![j] = @ \cup {index[j]}],
           outputs' = [outputs EXCEPT ![j] = @ \cup {index[j]}],
           UNCHANGED <<cancelled, held, index, images>>,
           req' = req,
           faults' \in 0..PictureFaults,
           UNCHANGED <<cached, owner, active, adapters, weights>>
    PROVE  Image!ImageInv'
<1>1. Image!IsAccounted(j)
  BY DEF Image!ImageInv
<1>2. /\ Image!OwnLora(j)' = Image!OwnLora(j) /\ Image!Count(j)' = Image!Count(j)
      /\ Image!Count(j) \in 1..4
  BY <1>1, PictureType DEF Image!ImageInv, Image!TypeOK, Image!OwnLora, Image!Count
<1>3. index[j] \in 1..4 /\ index[j] + 1 \in 1..5 /\ index[j] <= Image!Count(j)
  BY <1>1, <1>2 DEF Image!ImageInv, Image!TypeOK, Image!IsAccounted, Image!VariationsInOrder
<1>4. files[j] = 1..(index[j] - 1) /\ outputs[j] = 1..(index[j] - 1) /\ held[j] = {}
  BY <1>1, <1>2, <1>3 DEF Image!IsAccounted, Image!FilesAreNamed
<1>5. /\ (1..(index[j] - 1)) \cup {index[j]} = 1..index[j] /\ index[j] \in Image!Variations
      /\ 1..index[j] \subseteq Image!Variations
  BY <1>1, <1>3 DEF Image!ImageInv, Image!TypeOK, Image!Variations
<1>6. DOMAIN images' = Jobs
  BY <1>1 DEF Image!ImageInv, Image!TypeOK
<1>7. Image!TypeOK'
  BY <1>3 DEF Image!ImageInv, Image!TypeOK, Image!Labels, Image!Variations
<1>8. /\ pc'[j] = "saved" /\ cancelled'[j] = cancelled[j] /\ held'[j] = held[j]
      /\ index'[j] = index[j] /\ images'[j] = images[j] /\ files'[j] = 1..index[j]
      /\ outputs'[j] = 1..index[j]
  BY <1>4 DEF Image!ImageInv, Image!TypeOK
<1>9. \A k \in Jobs \ {j} : /\ pc'[k] = pc[k] /\ cancelled'[k] = cancelled[k]
                          /\ held'[k] = held[k] /\ index'[k] = index[k]
                          /\ images'[k] = images[k] /\ files'[k] = files[k]
                          /\ outputs'[k] = outputs[k]
  BY DEF Image!ImageInv, Image!TypeOK
<1>10. Image!DrawsWithOwn(j)'
  BY <1>1, <1>8 DEF Image!IsAccounted, Image!DrawsWithOwn
<1>11. Image!VariationsInOrder(j)'
  BY <1>1, <1>8, <1>2 DEF Image!IsAccounted, Image!VariationsInOrder
<1>12. Image!FilesAreNamed(j)'
  BY <1>1, <1>8 DEF Image!IsAccounted, Image!FilesAreNamed, Image!InLease
<1>13. Image!OwnerIsInLease'
  BY <1>1, <1>8, <1>9, JobsAssumption
     DEF Image!ImageInv, Image!TypeOK, Image!OwnerIsInLease, Image!InLease
<1>14. Image!PipelineIsAsClaimed'
  BY <1>1, <1>8, <1>9 DEF Image!ImageInv, Image!TypeOK, Image!PipelineIsAsClaimed
<1>15. Image!IsAccounted(j)'
  BY <1>10, <1>11, <1>12 DEF Image!IsAccounted
<1> QED
  BY <1>7, <1>9, <1>6, <1>13, <1>14, <1>15, ImageOthers

\* A variation is scored, another one is next.
LEMMA ImageFinished ==
    ASSUME Image!ImageInv, NEW j \in Jobs,
           pc[j] = "saved",
           index[j] # Image!Count(j),
           pc' = [pc EXCEPT ![j] = "saving"],
           index' = [index EXCEPT ![j] = @ + 1],
           UNCHANGED <<cancelled, held, images, files, outputs>>,
           req' = req,
           faults' \in 0..PictureFaults,
           UNCHANGED <<cached, owner, active, adapters, weights>>
    PROVE  Image!ImageInv'
<1>1. Image!IsAccounted(j)
  BY DEF Image!ImageInv
<1>2. /\ Image!OwnLora(j)' = Image!OwnLora(j) /\ Image!Count(j)' = Image!Count(j)
      /\ Image!Count(j) \in 1..4
  BY <1>1, PictureType DEF Image!ImageInv, Image!TypeOK, Image!OwnLora, Image!Count
<1>3. index[j] \in 1..4 /\ index[j] + 1 \in 1..5 /\ index[j] <= Image!Count(j)
  BY <1>1, <1>2 DEF Image!ImageInv, Image!TypeOK, Image!IsAccounted, Image!VariationsInOrder
<1>4. index[j] + 1 <= Image!Count(j)
  BY <1>2, <1>3
<1>5. 1..((index[j] + 1) - 1) = 1..index[j]
  BY <1>2, <1>3, <1>4
<1>6. files[j] = 1..index[j] /\ outputs[j] = 1..index[j] /\ held[j] = {}
  BY <1>1 DEF Image!IsAccounted, Image!FilesAreNamed
<1>7. DOMAIN images' = Jobs
  BY <1>1 DEF Image!ImageInv, Image!TypeOK
<1>8. Image!TypeOK'
  BY <1>3 DEF Image!ImageInv, Image!TypeOK, Image!Labels
<1>9. /\ pc'[j] = "saving" /\ cancelled'[j] = cancelled[j] /\ held'[j] = held[j]
      /\ index'[j] = index[j] + 1 /\ images'[j] = images[j] /\ files'[j] = files[j]
      /\ outputs'[j] = outputs[j]
  BY DEF Image!ImageInv, Image!TypeOK
<1>10. \A k \in Jobs \ {j} : /\ pc'[k] = pc[k] /\ cancelled'[k] = cancelled[k]
                          /\ held'[k] = held[k] /\ index'[k] = index[k]
                          /\ images'[k] = images[k] /\ files'[k] = files[k]
                          /\ outputs'[k] = outputs[k]
  BY DEF Image!ImageInv, Image!TypeOK
<1>11. Image!DrawsWithOwn(j)'
  BY <1>1, <1>9 DEF Image!IsAccounted, Image!DrawsWithOwn
<1>12. Image!VariationsInOrder(j)'
  BY <1>1, <1>9, <1>2, <1>3 DEF Image!IsAccounted, Image!VariationsInOrder
<1>13. Image!FilesAreNamed(j)'
  BY <1>1, <1>9, <1>3 DEF Image!IsAccounted, Image!FilesAreNamed, Image!InLease
<1>14. Image!OwnerIsInLease'
  BY <1>1, <1>9, <1>10, JobsAssumption
     DEF Image!ImageInv, Image!TypeOK, Image!OwnerIsInLease, Image!InLease
<1>15. Image!PipelineIsAsClaimed'
  BY <1>1, <1>9, <1>10 DEF Image!ImageInv, Image!TypeOK, Image!PipelineIsAsClaimed
<1>16. Image!IsAccounted(j)'
  BY <1>11, <1>12, <1>13 DEF Image!IsAccounted
<1> QED
  BY <1>8, <1>10, <1>7, <1>14, <1>15, <1>16, ImageOthers

\* The last one is scored.
LEMMA ImageSucceeded ==
    ASSUME Image!ImageInv, NEW j \in Jobs,
           pc[j] = "saved",
           pc' = [pc EXCEPT ![j] = "succeeded"],
           index' = [index EXCEPT ![j] = @ + 1],
           UNCHANGED <<cancelled, held, images, files, outputs>>,
           req' = req,
           faults' \in 0..PictureFaults,
           UNCHANGED <<cached, owner, active, adapters, weights>>
    PROVE  Image!ImageInv'
<1>1. Image!IsAccounted(j)
  BY DEF Image!ImageInv
<1>2. /\ Image!OwnLora(j)' = Image!OwnLora(j) /\ Image!Count(j)' = Image!Count(j)
      /\ Image!Count(j) \in 1..4
  BY <1>1, PictureType DEF Image!ImageInv, Image!TypeOK, Image!OwnLora, Image!Count
<1>3. index[j] \in 1..4 /\ index[j] + 1 \in 1..5 /\ index[j] <= Image!Count(j)
  BY <1>1, <1>2 DEF Image!ImageInv, Image!TypeOK, Image!IsAccounted, Image!VariationsInOrder
<1>4. DOMAIN images' = Jobs
  BY <1>1, <1>2, <1>3 DEF Image!ImageInv, Image!TypeOK
<1>5. Image!TypeOK'
  BY <1>2, <1>3, <1>4 DEF Image!ImageInv, Image!TypeOK, Image!Labels, Image!Ended
<1>6. /\ pc'[j] = "succeeded" /\ cancelled'[j] = cancelled[j] /\ held'[j] = held[j]
      /\ index'[j] = index[j] + 1 /\ images'[j] = images[j] /\ files'[j] = files[j]
      /\ outputs'[j] = outputs[j]
  BY DEF Image!ImageInv, Image!TypeOK
<1>7. \A k \in Jobs \ {j} : /\ pc'[k] = pc[k] /\ cancelled'[k] = cancelled[k]
                          /\ held'[k] = held[k] /\ index'[k] = index[k]
                          /\ images'[k] = images[k] /\ files'[k] = files[k]
                          /\ outputs'[k] = outputs[k]
  BY DEF Image!ImageInv, Image!TypeOK
<1>8. Image!DrawsWithOwn(j)'
  BY <1>1, <1>6 DEF Image!IsAccounted, Image!DrawsWithOwn
<1>9. Image!VariationsInOrder(j)'
  BY <1>1, <1>6, <1>2 DEF Image!IsAccounted, Image!VariationsInOrder
<1>10. Image!FilesAreNamed(j)'
  BY <1>1, <1>6 DEF Image!FilesAreNamed, Image!InLease
<1>11. Image!OwnerIsInLease'
  BY <1>1, <1>6, <1>7, JobsAssumption
     DEF Image!ImageInv, Image!TypeOK, Image!OwnerIsInLease, Image!InLease
<1>12. Image!PipelineIsAsClaimed'
  BY <1>1, <1>6, <1>7 DEF Image!ImageInv, Image!TypeOK, Image!PipelineIsAsClaimed
<1>13. Image!IsAccounted(j)'
  BY <1>8, <1>9, <1>10 DEF Image!IsAccounted
<1> QED
  BY <1>5, <1>7, <1>4, <1>11, <1>12, <1>13, ImageOthers

\* What every step leaves of the count of faults, and what it may claim of the pipeline.
LEMMA ImageShared ==
    ASSUME Image!ImageInv
    PROVE  /\ active \in Loras \cup {NoLora} /\ NoLora \in Loras \cup {NoLora}
           /\ adapters \subseteq Loras /\ weights \in Loras \cup {NoLora} /\ NoLora \notin Loras
           /\ (Image!Fault \/ Image!NoFault) => faults' \in 0..PictureFaults
<1>1. faults \in 0..PictureFaults
  BY DEF Image!ImageInv, Image!TypeOK
<1>2. (Image!Fault \/ Image!NoFault) => faults' \in 0..PictureFaults
  BY <1>1, JobsAssumption DEF Image!Fault, Image!NoFault
<1> QED
  BY <1>2, PicturesAssumption DEF Image!ImageInv, Image!TypeOK

LEMMA ImageCancelKeeps ==
    ASSUME Image!ImageInv, NEW j \in Jobs, Image!Cancel(j)
    PROVE  Image!ImageInv'
<1>1. faults' \in 0..PictureFaults
  BY ImageShared DEF Image!Cancel, Image!runtimeVars, Image!NoFault
<1> QED
  BY <1>1, ImageStays, ImageShared DEF Image!Cancel, Image!runtimeVars

LEMMA ImagePrepareKeeps ==
    ASSUME Image!ImageInv, NEW j \in Jobs, Image!Prepare(j)
    PROVE  Image!ImageInv'
<1>1. faults' \in 0..PictureFaults
  BY ImageShared DEF Image!Prepare
<1>2. {"waiting", "failed", "cancelled", "inspected", "ready", "inferring"} \subseteq Image!Labels
  BY DEF Image!Labels, Image!Ended, Image!InLease
<1> QED
  BY <1>1, <1>2, ImageOutside, ImageShared DEF Image!Prepare, Image!Goto, Image!runtimeVars

LEMMA ImageAcquireKeeps ==
    ASSUME Image!ImageInv, NEW j \in Jobs, Image!Acquire(j)
    PROVE  Image!ImageInv'
<1>1. faults' \in 0..PictureFaults /\ req' = req
  BY ImageShared DEF Image!Acquire
<1>2. adapters' = (IF active' = NoLora THEN {} ELSE {active'})
  BY DEF Image!ImageInv, Image!PipelineIsAsClaimed, Image!Acquire
<1>3. /\ active' \in Loras \cup {NoLora} /\ adapters' \subseteq Loras
      /\ weights' \in Loras \cup {NoLora}
  BY ImageShared DEF Image!Acquire
<1> QED
  BY <1>1, <1>2, <1>3, ImageAcquires DEF Image!Acquire, Image!Goto

LEMMA ImageCancelledWhileWaitingKeeps ==
    ASSUME Image!ImageInv, NEW j \in Jobs, Image!CancelledWhileWaiting(j)
    PROVE  Image!ImageInv'
<1>1. faults' \in 0..PictureFaults
  BY ImageShared DEF Image!CancelledWhileWaiting
<1>2. {"waiting", "failed", "cancelled", "inspected", "ready", "inferring"} \subseteq Image!Labels
  BY DEF Image!Labels, Image!Ended, Image!InLease
<1> QED
  BY <1>1, <1>2, ImageOutside, ImageShared
     DEF Image!CancelledWhileWaiting, Image!Goto, Image!runtimeVars

LEMMA ImageProbeBeforeMutationKeeps ==
    ASSUME Image!ImageInv, NEW j \in Jobs, Image!ProbeBeforeMutation(j)
    PROVE  Image!ImageInv'
<1>1. faults' \in 0..PictureFaults
  BY ImageShared DEF Image!ProbeBeforeMutation, Image!Probe
<1>2. {"waiting", "failed", "cancelled", "inspected", "ready", "inferring"} \subseteq Image!Labels
  BY DEF Image!Labels, Image!Ended, Image!InLease
<1> QED
  BY <1>1, <1>2, ImageProbedClear, ImageProbedStop, ImageShared
     DEF Image!ProbeBeforeMutation, Image!Probe, Image!Goto, Image!runtimeVars

LEMMA ImageInspectKeeps ==
    ASSUME Image!ImageInv, NEW j \in Jobs, Image!Inspect(j)
    PROVE  Image!ImageInv'
<1>1. faults' \in 0..PictureFaults
  BY ImageShared DEF Image!Inspect, Image!Probe
<1>2. {"waiting", "failed", "cancelled", "inspected", "ready", "inferring"} \subseteq Image!Labels
  BY DEF Image!Labels, Image!Ended, Image!InLease
<1> QED
  BY <1>1, <1>2, ImageProbedClear, ImageProbedStop, ImageShared
     DEF Image!Inspect, Image!Probe, Image!Goto, Image!runtimeVars

LEMMA ImageProbeBeforeVariationKeeps ==
    ASSUME Image!ImageInv, NEW j \in Jobs, Image!ProbeBeforeVariation(j)
    PROVE  Image!ImageInv'
<1>1. faults' \in 0..PictureFaults
  BY ImageShared DEF Image!ProbeBeforeVariation, Image!Probe
<1>2. {"waiting", "failed", "cancelled", "inspected", "ready", "inferring"} \subseteq Image!Labels
  BY DEF Image!Labels, Image!Ended, Image!InLease
<1> QED
  BY <1>1, <1>2, ImageProbedClear, ImageProbedStop, ImageShared
     DEF Image!ProbeBeforeVariation, Image!Probe, Image!Goto, Image!runtimeVars

LEMMA ImageApplyLoraKeeps ==
    ASSUME Image!ImageInv, NEW j \in Jobs, Image!ApplyLora(j)
    PROVE  Image!ImageInv'
<1>1. /\ faults' \in 0..PictureFaults /\ req[j].lora \in Loras \cup {NoLora} /\ owner = j
      /\ cached = "ready"
  <2>1. owner = j /\ owner # NoJob
    BY JobsAssumption DEF Image!ImageInv, Image!OwnerIsInLease, Image!InLease, Image!ApplyLora
  <2> QED
    BY <2>1, ImageShared, PictureType
       DEF Image!ImageInv, Image!TypeOK, Image!OwnerIsInLease, Image!ApplyLora
<1>2. adapters = (IF active = NoLora THEN {} ELSE {active})
  BY <1>1 DEF Image!ImageInv, Image!PipelineIsAsClaimed
<1>3. /\ adapters' = Image!OwnLora(j)
      /\ req[j].lora # NoLora => weights' = req[j].lora
      /\ active' = req[j].lora
      /\ weights' \in {req[j].lora, NoLora, weights}
  <2>1. CASE req[j].lora = NoLora
    <3>1. Image!LoraSteps(NoLora) = IF active # NoLora THEN {"reset"} ELSE {}
      BY DEF Image!LoraSteps
    <3> QED
      BY <1>2, <2>1, <3>1 DEF Image!ApplyLora, Image!OwnLora
  <2>2. CASE req[j].lora # NoLora /\ active = req[j].lora
    <3>1. Image!LoraSteps(req[j].lora) = {"select"}
      BY <2>2 DEF Image!LoraSteps
    <3> QED
      BY <1>2, <2>2, <3>1 DEF Image!ApplyLora, Image!OwnLora
  <2>3. CASE req[j].lora # NoLora /\ active = NoLora
    <3>1. Image!LoraSteps(req[j].lora) = {"load", "select"}
      BY <2>3 DEF Image!LoraSteps
    <3> QED
      BY <1>2, <2>3, <3>1 DEF Image!ApplyLora, Image!OwnLora
  <2>4. CASE req[j].lora # NoLora /\ active # NoLora /\ active # req[j].lora
    <3>1. Image!LoraSteps(req[j].lora) = {"reset", "load", "select"}
      BY <2>4 DEF Image!LoraSteps
    <3> QED
      BY <1>2, <2>4, <3>1 DEF Image!ApplyLora, Image!OwnLora
  <2> QED
    BY <2>1, <2>2, <2>3, <2>4
<1>4. /\ adapters' \subseteq Loras /\ active' \in Loras \cup {NoLora}
      /\ weights' \in Loras \cup {NoLora}
      /\ adapters' = (IF active' = NoLora THEN {} ELSE {active'})
  BY <1>1, <1>3, ImageShared DEF Image!OwnLora
<1> QED
  BY <1>1, <1>3, <1>4, ImageLoraApplied DEF Image!ApplyLora, Image!Goto

LEMMA ImageApplyLoraFailsKeeps ==
    ASSUME Image!ImageInv, NEW j \in Jobs, Image!ApplyLoraFails(j)
    PROVE  Image!ImageInv'
<1>1. faults' \in 0..PictureFaults /\ req[j].lora \in Loras \cup {NoLora} /\ req' = req
  BY ImageShared, PictureType DEF Image!ImageInv, Image!TypeOK, Image!ApplyLoraFails
<1>2. "load" \in Image!LoraSteps(req[j].lora) => req[j].lora \in Loras
  BY <1>1 DEF Image!LoraSteps
<1>3. "select" \in Image!LoraSteps(req[j].lora) => req[j].lora \in Loras
  BY <1>1 DEF Image!LoraSteps
<1>4. /\ adapters' \subseteq Loras /\ active' \in Loras \cup {NoLora}
      /\ weights' \in Loras \cup {NoLora}
  BY <1>2, <1>3, ImageShared DEF Image!ApplyLoraFails
<1> QED
  BY <1>1, <1>4, ImageRaises
     DEF Image!ApplyLoraFails, Image!LoraFailure, Image!RaiseInLease, Image!Goto

LEMMA ImageStepEndKeeps ==
    ASSUME Image!ImageInv, NEW j \in Jobs, Image!StepEnd(j)
    PROVE  Image!ImageInv'
<1>1. faults' \in 0..PictureFaults
  BY ImageShared DEF Image!StepEnd
<1> QED
  BY <1>1, ImageRaises, ImageRaisesUnreported, ImageUnreported, ImageShared
     DEF Image!StepEnd, Image!RaiseInLease, Image!Goto

LEMMA ImageInferenceFailsKeeps ==
    ASSUME Image!ImageInv, NEW j \in Jobs, Image!InferenceFails(j)
    PROVE  Image!ImageInv'
<1>1. faults' \in 0..PictureFaults
  BY ImageShared DEF Image!InferenceFails
<1> QED
  BY <1>1, ImageRaises, ImageShared DEF Image!InferenceFails, Image!RaiseInLease, Image!Goto

LEMMA ImageInferenceEndsKeeps ==
    ASSUME Image!ImageInv, NEW j \in Jobs, Image!InferenceEnds(j)
    PROVE  Image!ImageInv'
<1>1. /\ faults' \in 0..PictureFaults /\ req' = req /\ pc[j] = "inferring"
      /\ UNCHANGED <<cached, owner, active, adapters, weights, cancelled, files, outputs>>
  BY ImageShared DEF Image!InferenceEnds, Image!runtimeVars
<1>2. CASE /\ \E e \in {"probe", "cancel"} : held' = [held EXCEPT ![j] = @ \cup {e}]
           /\ pc' = [pc EXCEPT ![j] = "exit"] /\ UNCHANGED <<index, images>>
  BY <1>1, <1>2, ImageProbedStop
<1>3. ASSUME NEW l \in {"exit", "inferred"}, l = "inferred" => index[j] # Image!Count(j),
             pc' = [pc EXCEPT ![j] = l], index' = [index EXCEPT ![j] = @ + 1],
             images' = [images EXCEPT ![j] = [v \in 1..index[j] |->
                          IF v = index[j] THEN Image!InEffect ELSE @[v]]],
             UNCHANGED held \/ held' = [held EXCEPT ![j] = @ \cup {"progress"}]
      PROVE  Image!ImageInv'
  BY <1>1, <1>3, ImageCollected, ImageCollectedUnreported
<1> QED
  BY <1>2, <1>3 DEF Image!InferenceEnds, Image!Goto

LEMMA ImageExitLeaseKeeps ==
    ASSUME Image!ImageInv, NEW j \in Jobs, Image!ExitLease(j)
    PROVE  Image!ImageInv'
<1>1. faults' \in 0..PictureFaults
  BY ImageShared DEF Image!ExitLease
<1> QED
  BY <1>1, ImageLeaves, ImageShared DEF Image!ExitLease, Image!Goto

LEMMA ImageSaveKeeps ==
    ASSUME Image!ImageInv, NEW j \in Jobs, Image!Save(j)
    PROVE  Image!ImageInv'
<1>1. faults' \in 0..PictureFaults
  BY ImageShared DEF Image!Save
<1> QED
  BY <1>1, ImageDropped, ImageUnsaved, ImageSaved, ImageShared
     DEF Image!Save, Image!Discard, Image!Goto, Image!runtimeVars

LEMMA ImageFinishVariationKeeps ==
    ASSUME Image!ImageInv, NEW j \in Jobs, Image!FinishVariation(j)
    PROVE  Image!ImageInv'
<1>1. faults' \in 0..PictureFaults
  BY ImageShared DEF Image!FinishVariation
<1> QED
  BY <1>1, ImageDropped, ImageFinished, ImageSucceeded, ImageShared
     DEF Image!FinishVariation, Image!Discard, Image!Goto, Image!runtimeVars

LEMMA ImageKept ==
    ASSUME medium = "image", Image!ImageInv, [Next]_vars
    PROVE  medium' = "image" /\ Image!ImageInv'
<1>1. /\ medium' = "image"
      /\ (\E j \in Jobs : Image!Work(j) \/ Image!Cancel(j)) \/ UNCHANGED Image!vars
  BY ImageStep
<1>2. ASSUME NEW j \in Jobs, Image!Work(j) \/ Image!Cancel(j)
      PROVE  Image!ImageInv'
  BY <1>2, ImageCancelKeeps, ImagePrepareKeeps, ImageAcquireKeeps,
     ImageCancelledWhileWaitingKeeps, ImageProbeBeforeMutationKeeps, ImageInspectKeeps,
     ImageApplyLoraKeeps, ImageApplyLoraFailsKeeps, ImageProbeBeforeVariationKeeps,
     ImageStepEndKeeps, ImageInferenceFailsKeeps, ImageInferenceEndsKeeps,
     ImageExitLeaseKeeps, ImageSaveKeeps, ImageFinishVariationKeeps DEF Image!Work
<1>3. CASE UNCHANGED Image!vars
  <2>1. UNCHANGED <<cached, owner, active, adapters, weights, pc, req, cancelled, held, index,
                    images, files, outputs, faults>>
    BY <1>3 DEF Image!vars, Image!runtimeVars, Image!jobVars
  <2>2. Image!TypeOK' /\ DOMAIN images' = Jobs
    BY <2>1 DEF Image!ImageInv, Image!TypeOK, Image!Labels, Image!Ended, Image!InLease,
                Image!Variations
  <2>3. Image!OwnerIsInLease' /\ Image!PipelineIsAsClaimed'
    BY <2>1 DEF Image!ImageInv, Image!OwnerIsInLease, Image!PipelineIsAsClaimed
  <2>4. ASSUME NEW j \in Jobs
        PROVE  Image!IsAccounted(j)'
    BY <2>1 DEF Image!ImageInv, Image!IsAccounted, Image!DrawsWithOwn, Image!VariationsInOrder,
                Image!FilesAreNamed, Image!OwnLora, Image!Count, Image!InLease, Image!Variations
  <2> QED
    BY <1>1, <2>2, <2>3, <2>4 DEF Image!ImageInv
<1> QED
  BY <1>1, <1>2, <1>3

\* Only a LoRA change or an inference that raises drops the runtime.
LEMMA ImageKeepsHealthy ==
    ASSUME medium = "image", Image!ImageInv, [Next]_vars
    PROVE  Image!HealthyRuntimeKept
<1>1. (\E j \in Jobs : Image!Work(j) \/ Image!Cancel(j)) \/ UNCHANGED Image!vars
  BY ImageStep
<1>2. ASSUME NEW j \in Jobs, Image!Work(j) \/ Image!Cancel(j)
      PROVE  cached' \in {cached, "ready"} \/ pc[j] \in {"ready", "inferring"}
  <2>1. CASE Image!Cancel(j) \/ Image!Prepare(j) \/ Image!Acquire(j)
               \/ Image!CancelledWhileWaiting(j) \/ Image!ApplyLora(j) \/ Image!InferenceEnds(j)
               \/ Image!ExitLease(j) \/ Image!Save(j) \/ Image!FinishVariation(j)
    BY <2>1 DEF Image!Cancel, Image!Prepare, Image!Acquire, Image!CancelledWhileWaiting,
                Image!ApplyLora, Image!InferenceEnds, Image!ExitLease, Image!Save,
                Image!FinishVariation, Image!runtimeVars
  <2>2. CASE Image!ProbeBeforeMutation(j) \/ Image!Inspect(j) \/ Image!ProbeBeforeVariation(j)
    BY <2>2 DEF Image!ProbeBeforeMutation, Image!Inspect, Image!ProbeBeforeVariation,
                Image!Probe, Image!runtimeVars
  <2>3. CASE Image!ApplyLoraFails(j) \/ Image!StepEnd(j) \/ Image!InferenceFails(j)
    BY <2>3 DEF Image!ApplyLoraFails, Image!StepEnd, Image!InferenceFails
  <2> QED
    BY <1>2, <2>1, <2>2, <2>3 DEF Image!Work
<1>3. ASSUME NEW j \in Jobs, pc[j] \in {"ready", "inferring"}
      PROVE  owner = j
  BY <1>3 DEF Image!ImageInv, Image!OwnerIsInLease, Image!InLease
<1>4. UNCHANGED Image!vars => cached' = cached
  BY DEF Image!vars, Image!runtimeVars
<1> QED
  BY <1>1, <1>2, <1>3, <1>4 DEF Image!HealthyRuntimeKept

\* Only the last variation of a job that is still wanted ends in a success.
LEMMA ImageSucceedsWhole ==
    ASSUME medium = "image", Image!ImageInv, [Next]_vars
    PROVE  Image!SuccessIsComplete
<1>1. (\E j \in Jobs : Image!Work(j) \/ Image!Cancel(j)) \/ UNCHANGED Image!vars
  BY ImageStep
<1>2. ASSUME NEW j \in Jobs, Image!Work(j) \/ Image!Cancel(j), NEW k \in Jobs,
             pc[k] # "succeeded", pc'[k] = "succeeded"
      PROVE  /\ k = j /\ pc[j] = "saved" /\ index[j] = Image!Count(j) /\ ~cancelled[j]
  <2>0. pc \in [Jobs -> Image!Labels]
    BY DEF Image!ImageInv, Image!TypeOK
  <2>1. ASSUME NEW l, l # "succeeded", Image!Goto(j, l) \/ UNCHANGED pc
        PROVE  FALSE
    BY <1>2, <2>0, <2>1 DEF Image!Goto
  <2>2. Image!Outcome(j) # "succeeded"
    BY DEF Image!Outcome
  <2>3. CASE Image!Cancel(j) \/ Image!Prepare(j) \/ Image!Acquire(j)
               \/ Image!CancelledWhileWaiting(j) \/ Image!ApplyLora(j) \/ Image!InferenceEnds(j)
               \/ Image!ExitLease(j) \/ Image!Save(j)
    BY <2>1, <2>2, <2>3
       DEF Image!Cancel, Image!Prepare, Image!Acquire, Image!CancelledWhileWaiting,
           Image!ApplyLora, Image!InferenceEnds, Image!ExitLease, Image!Save, Image!Discard
  <2>4. CASE Image!ProbeBeforeMutation(j) \/ Image!Inspect(j) \/ Image!ProbeBeforeVariation(j)
    BY <2>1, <2>4 DEF Image!ProbeBeforeMutation, Image!Inspect, Image!ProbeBeforeVariation,
                Image!Probe
  <2>5. CASE Image!ApplyLoraFails(j) \/ Image!StepEnd(j) \/ Image!InferenceFails(j)
    BY <2>1, <2>5 DEF Image!ApplyLoraFails, Image!LoraFailure, Image!StepEnd,
                      Image!InferenceFails, Image!RaiseInLease
  <2>6. CASE Image!FinishVariation(j)
    <3>1. CASE ~cancelled[j] /\ index[j] = Image!Count(j) /\ pc' = [pc EXCEPT ![j] = "succeeded"]
      BY <1>2, <2>6, <3>1 DEF Image!FinishVariation
    <3> QED
      BY <2>1, <2>6, <3>1 DEF Image!FinishVariation, Image!Discard, Image!Goto
  <2> QED
    BY <1>2, <2>3, <2>4, <2>5, <2>6 DEF Image!Work
<1>3. ASSUME NEW j \in Jobs, pc[j] = "saved", index[j] = Image!Count(j)
      PROVE  outputs[j] = 1..Image!Count(j) /\ files[j] = outputs[j] /\ held[j] = {}
  BY <1>3 DEF Image!ImageInv, Image!IsAccounted, Image!FilesAreNamed
<1>4. UNCHANGED Image!vars => pc' = pc
  BY DEF Image!vars, Image!jobVars
<1> QED
  BY <1>1, <1>2, <1>3, <1>4 DEF Image!SuccessIsComplete

\* What the composite properties ask of an image job.
LEMMA ImageConsequences ==
    ASSUME Image!ImageInv
    PROVE  /\ Image!TypeOK /\ Image!OwnLoraOnly /\ Image!CachedRuntimeIsClean
           /\ Image!NoStrayFiles
<1>1. Image!TypeOK /\ Image!PipelineIsAsClaimed /\ \A j \in Jobs : Image!IsAccounted(j)
  BY DEF Image!ImageInv
<1>2. Image!OwnLoraOnly
  BY <1>1 DEF Image!IsAccounted, Image!VariationsInOrder, Image!OwnLora, Image!OwnLoraOnly
<1>3. Image!CachedRuntimeIsClean
  BY <1>1 DEF Image!PipelineIsAsClaimed, Image!CachedRuntimeIsClean
<1>4. ASSUME NEW j \in Jobs, pc[j] \in {"failed", "cancelled"}
      PROVE  files[j] \cap outputs[j] = {} /\ Image!Cardinality(files[j]) <= 1
  <2>1. files[j] \cap outputs[j] = {} /\ \E v \in Image!Variations : files[j] \subseteq {v}
    BY <1>1, <1>4 DEF Image!IsAccounted, Image!FilesAreNamed
  <2>2. PICK v \in Image!Variations : files[j] \subseteq {v}
    BY <2>1
  <2>3. files[j] = {} \/ files[j] = {v}
    BY <2>2
  <2>4. Cardinality(files[j]) <= 1
    BY <2>3, FS_EmptySet, FS_Singleton
  <2>5. Image!Cardinality(files[j]) = Cardinality(files[j])
    BY DEF Image!Cardinality, Cardinality
  <2> QED
    BY <2>1, <2>4, <2>5
<1> QED
  BY <1>1, <1>2, <1>3, <1>4 DEF Image!NoStrayFiles

-----------------------------------------------------------------------------
(* The composition.                                                        *)

Media == {"image", "music", "speech", "text", "video", "remote", "assembly", "references"}

\* The inductive invariant: that of the medium at work.
GeneratorsInv ==
    /\ medium \in Media
    /\ medium = "image" => Image!ImageInv
    /\ medium = "music" => Music!MusicInv
    /\ medium = "speech" => Speech!SpeechInv
    /\ medium = "text" => Text!TextInv
    /\ medium = "video" => Video!VideoInv
    /\ medium = "remote" => Provider!ProviderInv
    /\ medium = "assembly" => Assembly!AssemblyInv
    /\ medium = "references" => Refs!ReferencesInv

\* Every generator starts with nothing drawn, written, sent or held.
LEMMA GeneratorsInit == Init => GeneratorsInv
<1>1. Init => medium \in Media
  BY DEF Init, Media
<1> QED
  BY <1>1, ImageInit, MusicInit, SpeechInit, TextInit, VideoInit, ProviderInit, AssemblyInit,
     ReferencesInit DEF GeneratorsInv

\* A step keeps the medium and its invariant.
LEMMA GeneratorsKept == GeneratorsInv /\ [Next]_vars => GeneratorsInv'
<1> SUFFICES ASSUME GeneratorsInv, [Next]_vars
             PROVE  GeneratorsInv'
  OBVIOUS
<1>1. CASE medium = "image"
  <2>1. medium' = "image" /\ Image!ImageInv'
    BY <1>1, ImageKept DEF GeneratorsInv
  <2> QED
    BY <2>1 DEF GeneratorsInv, Media
<1>2. CASE medium = "music"
  <2>1. medium' = "music" /\ Music!MusicInv'
    BY <1>2, MusicKept DEF GeneratorsInv
  <2> QED
    BY <2>1 DEF GeneratorsInv, Media
<1>3. CASE medium = "speech"
  <2>1. medium' = "speech" /\ Speech!SpeechInv'
    BY <1>3, SpeechKept DEF GeneratorsInv
  <2> QED
    BY <2>1 DEF GeneratorsInv, Media
<1>4. CASE medium = "text"
  <2>1. medium' = "text" /\ Text!TextInv'
    BY <1>4, TextKept DEF GeneratorsInv
  <2> QED
    BY <2>1 DEF GeneratorsInv, Media
<1>5. CASE medium = "video"
  <2>1. medium' = "video" /\ Video!VideoInv'
    BY <1>5, VideoKept DEF GeneratorsInv
  <2> QED
    BY <2>1 DEF GeneratorsInv, Media
<1>6. CASE medium = "remote"
  <2>1. medium' = "remote" /\ Provider!ProviderInv'
    BY <1>6, ProviderKept DEF GeneratorsInv
  <2> QED
    BY <2>1 DEF GeneratorsInv, Media
<1>7. CASE medium = "assembly"
  <2>1. medium' = "assembly" /\ Assembly!AssemblyInv'
    BY <1>7, AssemblyKept DEF GeneratorsInv
  <2> QED
    BY <2>1 DEF GeneratorsInv, Media
<1>8. CASE medium = "references"
  <2>1. medium' = "references" /\ Refs!ReferencesInv'
    BY <1>8, ReferencesKept DEF GeneratorsInv
  <2> QED
    BY <2>1 DEF GeneratorsInv, Media
<1> QED
  BY <1>1, <1>2, <1>3, <1>4, <1>5, <1>6, <1>7, <1>8 DEF GeneratorsInv, Media

(* Every reachable state of a generator satisfies the invariant of its medium: *)
(* who holds the shared model and what is set on it, how far the loops over    *)
(* variations, segments, chunks, frames and attempts have come, which files    *)
(* lie on disk for them (the generators and providers under src/generators).   *)
THEOREM GeneratorsAreAccounted == Spec => []GeneratorsInv
BY GeneratorsInit, GeneratorsKept, PTL DEF Spec

(* A reference image is applied, as an image of the job's own project, or the *)
(* job is refused; with at least one denoising step, and never when the user  *)
(* named two (image/generator.py:268-392, 927-1026).                          *)
THEOREM ReferencesNeverDropped == Spec => []ReferencesAreApplied
<1>1. GeneratorsInv => ReferencesAreApplied
  BY ReferencesConsequences DEF GeneratorsInv, ReferencesAreApplied
<1> QED
  BY <1>1, GeneratorsAreAccounted, PTL

(* For every retry policy and every error a transport may raise: consent before *)
(* sending, another attempt only after a failure worth one, no answer of an    *)
(* attempt given up, no credential in what the audio adapter raises            *)
(* (image/providers.py:606-623, 822-879, audio/providers.py:374-376).          *)
THEOREM RetriesAreSound == Spec => ProviderRetriesAreSound
<1>1. ASSUME GeneratorsInv, GeneratorsInv', [Next]_vars, medium = "remote"
      PROVE  /\ Provider!NoLateAnswer' /\ Provider!RetriesAreJustified
             /\ Provider!ConsentBeforeSending' /\ Provider!AudioErrorsAreClean'
  <2>1. Provider!ProviderInv /\ Provider!ProviderInv'
    BY <1>1, ProviderKept DEF GeneratorsInv
  <2>2. Provider!NoLateAnswer' /\ Provider!ConsentBeforeSending' /\ Provider!AudioErrorsAreClean'
    BY <2>1, ProviderConsequences, PTL
  <2> QED
    BY <1>1, <2>1, <2>2, RetriesStep
<1>2. GeneratorsInv /\ GeneratorsInv' /\ [Next]_vars =>
        [medium = "remote" =>
          /\ Provider!NoLateAnswer' /\ Provider!RetriesAreJustified
          /\ Provider!ConsentBeforeSending' /\ Provider!AudioErrorsAreClean']_vars
  BY <1>1
<1> QED
  BY <1>2, GeneratorsAreAccounted, PTL DEF Spec, ProviderRetriesAreSound

(* A failed or cancelled job leaves no output its generator promises to remove, *)
(* except what a learned video callable wrote before it was interrupted, and a  *)
(* cancellation that stands when a probe is due stops the next model call       *)
(* (image/generator.py:578-651, text/generator.py:319-324, 462-467,             *)
(* video/generator.py, assembly.py:460-465, 1131-1132).                         *)
THEOREM StoppedWorkIsTidy == Spec => []StoppedWorkLeavesNothing
<1>1. GeneratorsInv => StoppedWorkLeavesNothing
  BY ImageConsequences, TextConsequences, VideoConsequences, SpeechConsequences,
     AssemblyConsequences DEF GeneratorsInv, StoppedWorkLeavesNothing
<1> QED
  BY <1>1, GeneratorsAreAccounted, PTL

(* Frames, seconds and backoffs stay within what was admitted, and every field  *)
(* of a job, a request or a delivery keeps its type (speech.py:279-289, 507-517, *)
(* assembly.py:324-336, image/providers.py).                                    *)
THEOREM LimitsHold == Spec => []WithinLimits
<1>1. GeneratorsInv => WithinLimits
  BY ImageConsequences, TextConsequences, VideoConsequences, SpeechConsequences,
     AssemblyConsequences
     DEF GeneratorsInv, WithinLimits, Refs!ReferencesInv, Provider!ProviderInv
<1> QED
  BY <1>1, GeneratorsAreAccounted, PTL

(* A job draws with its own LoRA, parameters, callback and seed, and only a     *)
(* fault of the model, an interruption inside it or an infinite control of a    *)
(* storyboard costs a reload (image/generator.py:183-230 and _apply_lora,       *)
(* text/generator.py:211-254, video/generator.py:172-191,                       *)
(* audio/generator.py:612-645, 714-723, audio/speech.py:218-226).               *)
THEOREM ModelsStayHealthy == Spec => SharedModelsStayHealthy
<1>1. ASSUME GeneratorsInv, GeneratorsInv', [Next]_vars
      PROVE  /\ medium = "image" =>
                   Image!HealthyRuntimeKept /\ (Image!OwnLoraOnly /\ Image!CachedRuntimeIsClean)'
             /\ medium = "music" => /\ Music!DroppedForCause
                                    /\ (Music!NothingLeftOnModel /\ Music!DrawnAsAsked)'
             /\ medium = "text" => Text!DroppedForCause
             /\ medium = "video" => Video!DroppedForCause
             /\ medium = "speech" => Speech!RefusedControlsKeepRuntime'
  <2>1. CASE medium = "image"
    <3>1. Image!ImageInv /\ Image!ImageInv'
      BY <1>1, <2>1, ImageKept DEF GeneratorsInv
    <3>2. Image!OwnLoraOnly' /\ Image!CachedRuntimeIsClean'
      BY <3>1, ImageConsequences, PTL
    <3> QED
      BY <1>1, <2>1, <3>1, <3>2, ImageKeepsHealthy
  <2>2. CASE medium = "music"
    <3>1. Music!MusicInv /\ Music!MusicInv'
      BY <1>1, <2>2, MusicKept DEF GeneratorsInv
    <3>2. Music!NothingLeftOnModel' /\ Music!DrawnAsAsked'
      BY <3>1, MusicConsequences, PTL
    <3>3. Music!DroppedForCause
      BY <1>1, <2>2, <3>1, MusicDropsForCause
    <3> QED
      BY <2>2, <3>2, <3>3
  <2>3. CASE medium = "text"
    BY <1>1, <2>3, TextDropsForCause DEF GeneratorsInv
  <2>4. CASE medium = "video"
    BY <1>1, <2>4, VideoDropsForCause DEF GeneratorsInv
  <2>5. CASE medium = "speech"
    <3>1. Speech!SpeechInv'
      BY <1>1, <2>5, SpeechKept DEF GeneratorsInv
    <3>2. Speech!RefusedControlsKeepRuntime'
      BY <3>1, SpeechConsequences, PTL
    <3> QED
      BY <2>5, <3>2
  <2> QED
    BY <2>1, <2>2, <2>3, <2>4, <2>5
<1>2. GeneratorsInv /\ GeneratorsInv' /\ [Next]_vars =>
        [ /\ medium = "image" =>
                Image!HealthyRuntimeKept /\ (Image!OwnLoraOnly /\ Image!CachedRuntimeIsClean)'
          /\ medium = "music" => /\ Music!DroppedForCause
                                 /\ (Music!NothingLeftOnModel /\ Music!DrawnAsAsked)'
          /\ medium = "text" => Text!DroppedForCause
          /\ medium = "video" => Video!DroppedForCause
          /\ medium = "speech" => Speech!RefusedControlsKeepRuntime' ]_vars
  BY <1>1
<1> QED
  BY <1>2, GeneratorsAreAccounted, PTL DEF Spec, SharedModelsStayHealthy

(* A success is whole: every variation asked for and no recorded error, both    *)
(* files of the response that was accepted, all segments reported in order, a   *)
(* delivery moved into place only when ffmpeg had finished it                   *)
(* (image/generator.py:578-651, text/generator.py, audio/generator.py:663-682,  *)
(* assembly.py:1121-1124).                                                      *)
THEOREM SuccessesAreWhole == Spec => SuccessIsWhole
<1>1. ASSUME GeneratorsInv, GeneratorsInv', [Next]_vars
      PROVE  /\ medium = "image" => Image!SuccessIsComplete
             /\ medium = "text" =>
                   Text!EvidenceIsTheLastResponse' /\ Text!RepairShowsTheResponse'
             /\ medium = "music" => Music!SegmentsReportedInOrder'
             /\ medium = "assembly" => Assembly!DeliveryIsWhole'
  <2>1. CASE medium = "image"
    BY <1>1, <2>1, ImageSucceedsWhole DEF GeneratorsInv
  <2>2. CASE medium = "text"
    <3>1. Text!TextInv'
      BY <1>1, <2>2, TextKept DEF GeneratorsInv
    <3>2. Text!EvidenceIsTheLastResponse' /\ Text!RepairShowsTheResponse'
      BY <3>1, TextConsequences, PTL
    <3> QED
      BY <2>2, <3>2
  <2>3. CASE medium = "music"
    <3>1. Music!MusicInv'
      BY <1>1, <2>3, MusicKept DEF GeneratorsInv
    <3>2. Music!SegmentsReportedInOrder'
      BY <3>1, MusicConsequences, PTL
    <3> QED
      BY <2>3, <3>2
  <2>4. CASE medium = "assembly"
    <3>1. Assembly!AssemblyInv'
      BY <1>1, <2>4, AssemblyKept DEF GeneratorsInv
    <3>2. Assembly!DeliveryIsWhole'
      BY <3>1, AssemblyConsequences, PTL
    <3> QED
      BY <2>4, <3>2
  <2> QED
    BY <2>1, <2>2, <2>3, <2>4
<1>2. GeneratorsInv /\ GeneratorsInv' /\ [Next]_vars =>
        [ /\ medium = "image" => Image!SuccessIsComplete
          /\ medium = "text" =>
                Text!EvidenceIsTheLastResponse' /\ Text!RepairShowsTheResponse'
          /\ medium = "music" => Music!SegmentsReportedInOrder'
          /\ medium = "assembly" => Assembly!DeliveryIsWhole' ]_vars
  BY <1>1
<1> QED
  BY <1>2, GeneratorsAreAccounted, PTL DEF Spec, SuccessIsWhole

=============================================================================
