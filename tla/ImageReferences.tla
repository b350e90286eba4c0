--------------------------- MODULE ImageReferences ---------------------------
(***************************************************************************)
(* Which reference image conditions an image job:                          *)
(* ImageGenerator._resolve_references_for_conditioning, the inspection of  *)
(* the leased runtime in ImageGenerator.generate (generators/image/        *)
(* generator.py), validate_capabilities (generators/image/providers.py)    *)
(* and validate_reference_inputs (core/reference_capabilities.py).         *)
(*                                                                         *)
(* A job names references itself and inherits the ones of the Bible        *)
(* entries its prompt uses.  Bible entries and assets can be edited while  *)
(* the job waits: what counts is what the worker finds.  Strengths are in  *)
(* tenths.                                                                 *)
(***************************************************************************)
EXTENDS Naturals, FiniteSets

CONSTANTS
    Assets, Projects, NoAsset,
    Inputs,         \* the ReferenceImageInputs jobs and entries may carry
    Capability,     \* ModelManifest.reference_capability, or NoCapability
    NoCapability,
    MaxSteps        \* largest num_inference_steps asked for

VARIABLES
    job,        \* project, request.references, steps, parameters img2img refuses,
                \* and whether its runtime has an img2img pipeline taking a strength
    bible,      \* references of the Bible entries the prompt resolves
    store,      \* the asset repository: [project, media] or gone
    pc,
    primary,    \* the one reference to apply, once resolved
    chosenAs,   \* what the repository said of it then
    applied,    \* reference_conditioning_applied of the result
    denoise     \* effective_inference_steps

vars == <<job, bible, store, pc, primary, chosenAs, applied, denoise>>

Gone == [project |-> "none", media |-> "gone"]
Kinds == [project : Projects, media : {"image", "audio"}] \cup {Gone}
None == [asset |-> NoAsset]
AtMost(n, S) == {T \in SUBSET S : IsFiniteSet(T) /\ Cardinality(T) <= n}

TypeOK ==
    /\ job \in [project : Projects, refs : SUBSET Inputs, steps : 1..MaxSteps,
                clash : BOOLEAN, img2img : BOOLEAN]
    /\ bible \subseteq Inputs
    /\ store \in [Assets -> Kinds]
    /\ pc \in {"queued", "resolved", "refused", "generating"}
    /\ primary \in Inputs \cup {None}
    /\ chosenAs \in Kinds
    /\ applied \in BOOLEAN
    /\ denoise \in 0..MaxSteps

Init ==
    /\ job \in [project : Projects, refs : AtMost(2, Inputs), steps : 1..MaxSteps,
                clash : BOOLEAN, img2img : BOOLEAN]
    /\ bible \in AtMost(1, Inputs)
    /\ store \in [Assets -> Kinds \ {Gone}]
    /\ pc = "queued"
    /\ primary = None /\ chosenAs = Gone
    /\ applied = FALSE /\ denoise = 0

-----------------------------------------------------------------------------
\* The user edits a Bible entry, or moves, replaces or deletes an asset, at any
\* time before the worker has finished with the job.

EditBible ==
    /\ pc \in {"queued", "resolved"}
    /\ bible' \in AtMost(1, Inputs) \ {bible}
    /\ UNCHANGED <<job, store, pc, primary, chosenAs, applied, denoise>>

DeleteAsset(a) ==
    /\ pc \in {"queued", "resolved"}
    /\ store[a] # Gone
    /\ store' = [store EXCEPT ![a] = Gone]
    /\ UNCHANGED <<job, bible, pc, primary, chosenAs, applied, denoise>>

-----------------------------------------------------------------------------
\* The request's references and the prompt's, each distinct one once.
Considered == job.refs \cup bible

\* Mutant: a weak reference counts as none.
EffectiveRounded(refs) == {r \in refs : r.strength >= 5}

\* select_effective_references: strength zero asks for nothing.
Effective(refs) == {r \in refs : r.strength > 0}

\* validate_reference_inputs raises.
InputsRefused(refs) ==
    \/ Capability = NoCapability
    \/ Capability.modes = {} \/ Capability.roles = {}
    \/ \E r \in refs : \/ r.role \notin Capability.roles
                       \/ r.strength \notin Capability.min..Capability.max
                       \/ r.prep \notin Capability.preps
    \/ \E role \in Capability.roles :
          Cardinality({r \in refs : r.role = role}) > Capability.perRole

\* ... or this path, which implements img2img with one plainly resized image.
CannotCondition(refs) ==
    \/ InputsRefused(refs)
    \/ "img2img" \notin Capability.modes
    \/ Cardinality(refs) > 1
    \/ \E r \in refs : r.prep \notin {"none", "auto"}

\* The asset is read again when the job runs: missing, not an image, or of
\* another project than the job.
AssetRefused(r) ==
    \/ store[r.asset] = Gone
    \/ store[r.asset].media # "image"
    \/ store[r.asset].project # job.project

\* _resolve_references_for_conditioning.
Resolve ==
    LET refs == Effective(Considered) IN
    /\ pc = "queued"
    /\ \/ /\ refs = {}
          /\ pc' = "resolved"
          /\ UNCHANGED <<primary, chosenAs>>
       \/ /\ refs # {}
          /\ CannotCondition(refs) \/ \E r \in refs : AssetRefused(r)
          /\ pc' = "refused"
          /\ UNCHANGED <<primary, chosenAs>>
       \/ \E r \in refs :
            /\ ~CannotCondition(refs) /\ ~AssetRefused(r)
            /\ pc' = "resolved"
            /\ primary' = r
            /\ chosenAs' = store[r.asset]
    /\ UNCHANGED <<job, bible, store, applied, denoise>>

-----------------------------------------------------------------------------
\* The leased runtime can condition on the image.
ReferenceCapable == primary # None /\ job.img2img

\* int(num_inference_steps * (1 - strength)): what diffusers will really run.
DenoisingSteps == (job.steps * (10 - primary.strength)) \div 10

\* validation_error: a parameter that does not compose with a strength, a
\* provider that does not advertise references, no denoising step left.
InspectionRefuses ==
    IF ReferenceCapable THEN job.clash \/ DenoisingSteps < 1
                        ELSE primary # None

Inspect ==
    /\ pc = "resolved"
    /\ IF InspectionRefuses
       THEN pc' = "refused" /\ UNCHANGED <<applied, denoise>>
       ELSE /\ pc' = "generating"
            /\ applied' = ReferenceCapable
            /\ denoise' = IF ReferenceCapable THEN DenoisingSteps ELSE job.steps
    /\ UNCHANGED <<job, bible, store, primary, chosenAs>>

Serve == Resolve \/ Inspect
Edit == EditBible \/ \E a \in Assets : DeleteAsset(a)

Done == pc \in {"refused", "generating"} /\ UNCHANGED vars

Next == Edit \/ Serve \/ Done

Spec == Init /\ [][Next]_vars

-----------------------------------------------------------------------------
(* A reference the job asks for with a strength above zero is never dropped  *)
(* silently: a job that generates without conditioning on an image had no    *)
(* such reference of its own (generator.py:927-1026, 268-392).               *)
NeverSilentlyDropped ==
    (pc = "generating" /\ ~applied) => \A r \in job.refs : r.strength = 0

(* The image that conditions a job was, when the worker resolved it, an      *)
(* image of the job's own project, whatever was edited since the job was     *)
(* created (generator.py:989-1016).                                          *)
OnlyOwnImagesApplied ==
    applied => chosenAs = [project |-> job.project, media |-> "image"]

(* A job that conditions on a reference runs at least one denoising step, so *)
(* it has an image to return; and never when the user named two references   *)
(* (generator.py:957-964, 358-392).                                          *)
ConditioningIsSound ==
    applied => /\ denoise >= 1
               /\ \A r \in job.refs : r.strength > 0 => r = primary
-----------------------------------------------------------------------------
(* What the three properties rest on: the primary reference was chosen from  *)
(* all that counted then, and as an image of the job's project; later edits  *)
(* do not touch the choice, and a job generates without one only when it     *)
(* asked for none.                                                           *)
ReferencesInv ==
    /\ TypeOK
    /\ IsFiniteSet(job.refs) /\ IsFiniteSet(bible)
    /\ pc = "queued" => primary = None
    /\ pc # "generating" => ~applied
    /\ primary # None =>
          /\ chosenAs = [project |-> job.project, media |-> "image"]
          /\ Effective(job.refs) \subseteq {primary}
    /\ (pc \in {"resolved", "generating"} /\ primary = None) => Effective(job.refs) = {}
    /\ pc = "generating" => applied = (primary # None)
    /\ applied => denoise >= 1
=============================================================================
