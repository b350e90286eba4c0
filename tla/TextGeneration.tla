---------------------------- MODULE TextGeneration ----------------------------
(***************************************************************************)
(* TextGenerator.generate (generators/text/generator.py): a story task on  *)
(* a leased text runtime, with one repair attempt when the first response  *)
(* does not satisfy the schema.                                            *)
(*                                                                         *)
(* A response is known by the attempt that gave it; which model call       *)
(* raises, if any, is the request's.  Everything else that goes wrong      *)
(* inside the lease is recorded and raised after the lease has ended.      *)
(***************************************************************************)
EXTENDS Naturals

CONSTANTS
    Jobs, NoJob,
    MaxFaults       \* bound: calls that raise

VARIABLES
    cached,     \* the runtime is in the cache and valid
    owner,      \* the job with the lease
    raises,     \* the model call that raises for the job; 0 for none
    pc, cancelled,
    held,       \* errors recorded inside the lease
    attempt,    \* model calls made for the job
    shown,      \* the response its prompt shows for correction; 0 for none
    raw,        \* raw_text: the last response
    accepted,   \* the response that satisfied the schema; 0 for none
    seen,       \* a probe of the job found it cancelled
    stood,      \* it was already cancelled when its first response was refused
    files,      \* what the job has written: <<kind, response>>
    faults

jobVars == <<cancelled, held, attempt, shown, raw, accepted, seen, stood, files>>
vars == <<cached, owner, raises, pc, jobVars, faults>>

Ended == {"succeeded", "failed", "cancelled"}
Labels == Ended \cup {"new", "waiting", "leased", "call", "between", "late", "exit", "refused",
                      "writing_md", "writing_json", "judging"}
Files == {"md", "json", "raw"} \X (1..2)

TypeOK ==
    /\ cached \in BOOLEAN /\ owner \in Jobs \cup {NoJob}
    /\ raises \in [Jobs -> 0..2]
    /\ pc \in [Jobs -> Labels]
    /\ cancelled \in [Jobs -> BOOLEAN] /\ seen \in [Jobs -> BOOLEAN]
    /\ stood \in [Jobs -> BOOLEAN]
    /\ held \in [Jobs -> SUBSET {"probe", "cancel", "schema"}]
    /\ attempt \in [Jobs -> 0..2] /\ shown \in [Jobs -> 0..2] /\ raw \in [Jobs -> 0..2]
    /\ accepted \in [Jobs -> 0..2]
    /\ files \in [Jobs -> SUBSET Files]
    /\ faults \in 0..MaxFaults

Init ==
    /\ cached = FALSE /\ owner = NoJob
    /\ raises \in [Jobs -> 0..2]
    /\ pc = [j \in Jobs |-> "new"]
    /\ cancelled = [j \in Jobs |-> FALSE] /\ seen = [j \in Jobs |-> FALSE]
    /\ stood = [j \in Jobs |-> FALSE]
    /\ held = [j \in Jobs |-> {}]
    /\ attempt = [j \in Jobs |-> 0] /\ shown = [j \in Jobs |-> 0]
    /\ raw = [j \in Jobs |-> 0] /\ accepted = [j \in Jobs |-> 0]
    /\ files = [j \in Jobs |-> {}]
    /\ faults = 0

Goto(j, l) == pc' = [pc EXCEPT ![j] = l]
Fault == faults < MaxFaults /\ faults' = faults + 1
NoFault == UNCHANGED faults

Cancel(j) ==
    /\ pc[j] \notin Ended /\ ~cancelled[j]
    /\ cancelled' = [cancelled EXCEPT ![j] = TRUE]
    /\ UNCHANGED <<cached, owner, raises, pc, held, attempt, shown, raw, accepted, seen, stood,
                   files, faults>>

-----------------------------------------------------------------------------
\* validate_request, the manifest, the parameters and the prompt.
Prepare(j) ==
    /\ pc[j] = "new"
    /\ \E ok \in BOOLEAN : Goto(j, IF ok THEN "waiting" ELSE "failed")
    /\ NoFault
    /\ UNCHANGED <<cached, owner, raises, jobVars>>

\* _acquire_runtime: loads the model unless it is cached.
Acquire(j) ==
    /\ pc[j] = "waiting" /\ owner = NoJob
    /\ owner' = j /\ cached' = TRUE
    /\ Goto(j, "leased") /\ NoFault
    /\ UNCHANGED <<raises, jobVars>>

CancelledWhileWaiting(j) ==
    /\ pc[j] = "waiting" /\ cancelled[j]
    /\ Goto(j, "cancelled") /\ NoFault
    /\ UNCHANGED <<cached, owner, raises, jobVars>>

\* safe_is_cancelled: what it finds or fails with is recorded.
Probe(j, clear, stop) ==
    /\ \/ ~cancelled[j] /\ Goto(j, clear) /\ NoFault /\ UNCHANGED <<held, seen>>
       \/ /\ cancelled[j] /\ Goto(j, stop) /\ NoFault
          /\ held' = [held EXCEPT ![j] = @ \cup {"cancel"}]
          /\ seen' = [seen EXCEPT ![j] = TRUE]
       \/ /\ Fault /\ Goto(j, stop)
          /\ held' = [held EXCEPT ![j] = @ \cup {"probe"}]
          /\ UNCHANGED seen
    /\ UNCHANGED <<cached, owner, raises, cancelled, attempt, shown, raw, accepted, stood, files>>

ProbeBefore(j) == pc[j] = "leased" /\ Probe(j, "call", "exit")

\* An exception leaves the lease: the runtime is marked invalid.
RaiseInLease(j) == cached' = FALSE /\ owner' = NoJob /\ Goto(j, "failed")

\* generate_text returns and the response satisfies the schema.
Accept(j) ==
    /\ pc[j] = "call" /\ raises[j] # attempt[j] + 1
    /\ attempt' = [attempt EXCEPT ![j] = @ + 1]
    /\ raw' = [raw EXCEPT ![j] = attempt[j] + 1]
    /\ accepted' = [accepted EXCEPT ![j] = attempt[j] + 1]
    /\ Goto(j, "late") /\ NoFault
    /\ UNCHANGED <<cached, owner, raises, cancelled, held, shown, seen, stood, files>>

\* ... or it does not: the next prompt shows it; the second one is recorded.
Refuse(j) ==
    /\ pc[j] = "call" /\ raises[j] # attempt[j] + 1
    /\ attempt' = [attempt EXCEPT ![j] = @ + 1]
    /\ raw' = [raw EXCEPT ![j] = attempt[j] + 1]
    /\ shown' = [shown EXCEPT ![j] = attempt[j] + 1]
    /\ stood' = [stood EXCEPT ![j] = @ \/ (cancelled[j] /\ attempt[j] = 0)]
    /\ NoFault
    /\ IF attempt[j] = 0
       THEN Goto(j, "between") /\ UNCHANGED held
       ELSE held' = [held EXCEPT ![j] = @ \cup {"schema"}] /\ Goto(j, "late")
    /\ UNCHANGED <<cached, owner, raises, cancelled, accepted, seen, files>>

\* generate_text itself raises.
CallRaises(j) ==
    /\ pc[j] = "call" /\ raises[j] = attempt[j] + 1 /\ NoFault
    /\ attempt' = [attempt EXCEPT ![j] = @ + 1]
    /\ RaiseInLease(j)
    /\ UNCHANGED <<raises, cancelled, held, shown, raw, accepted, seen, stood, files>>

BetweenAttempts(j) == pc[j] = "between" /\ Probe(j, "call", "exit")

\* After an accepted response and after the second refusal.
LateProbe(j) == pc[j] = "late" /\ Probe(j, "exit", "exit")

-----------------------------------------------------------------------------
\* What is raised after the lease, in this order.
Outcome(j) ==
    IF "probe" \in held[j] THEN "failed"
    ELSE IF "cancel" \in held[j] THEN "cancelled"
    ELSE IF "schema" \in held[j] THEN "refused" ELSE "writing_md"

\* Mutant: the lease is left without giving up the slot.
ExitLeaseKeeps(j) ==
    /\ pc[j] = "exit"
    /\ Goto(j, Outcome(j)) /\ NoFault
    /\ UNCHANGED <<cached, owner, raises, jobVars>>

ExitLease(j) ==
    /\ pc[j] = "exit"
    /\ owner' = NoJob
    /\ Goto(j, Outcome(j)) /\ NoFault
    /\ UNCHANGED <<cached, raises, jobVars>>

\* _write_raw_response, then the error that names the file; the write may
\* itself fail.
WriteRawResponse(j) ==
    /\ pc[j] = "refused"
    /\ \/ files' = [files EXCEPT ![j] = @ \cup {<<"raw", raw[j]>>}] /\ NoFault
       \/ UNCHANGED files /\ Fault
    /\ Goto(j, "failed")
    /\ UNCHANGED <<cached, owner, raises, cancelled, held, attempt, shown, raw, accepted, seen,
                   stood>>

\* The Markdown file, the JSON file, the quality report: what raises leaves
\* the files already written.
WriteFile(j, here, kind, next) ==
    /\ pc[j] = here
    /\ \/ files' = [files EXCEPT ![j] = @ \cup {<<kind, accepted[j]>>}] /\ Goto(j, next) /\ NoFault
       \/ UNCHANGED files /\ Goto(j, "failed") /\ Fault
    /\ UNCHANGED <<cached, owner, raises, cancelled, held, attempt, shown, raw, accepted, seen,
                   stood>>

WriteMarkdown(j) == WriteFile(j, "writing_md", "md", "writing_json")
WriteStructured(j) == WriteFile(j, "writing_json", "json", "judging")

EvaluateQuality(j) ==
    /\ pc[j] = "judging"
    /\ \/ Goto(j, "succeeded") /\ NoFault
       \/ Goto(j, "failed") /\ Fault
    /\ UNCHANGED <<cached, owner, raises, jobVars>>

Work(j) ==
    \/ Prepare(j) \/ Acquire(j) \/ CancelledWhileWaiting(j) \/ ProbeBefore(j)
    \/ Accept(j) \/ Refuse(j) \/ CallRaises(j) \/ BetweenAttempts(j) \/ LateProbe(j)
    \/ ExitLease(j) \/ WriteRawResponse(j) \/ WriteMarkdown(j) \/ WriteStructured(j)
    \/ EvaluateQuality(j)

AllEnded == (\A j \in Jobs : pc[j] \in Ended) /\ UNCHANGED vars

Next == (\E j \in Jobs : Cancel(j) \/ Work(j)) \/ AllEnded

Spec == Init /\ [][Next]_vars /\ \A j \in Jobs : WF_vars(Work(j))

-----------------------------------------------------------------------------
(* A lease costs the runtime exactly when its last model call raised:        *)
(* neither output that fails its schema twice, nor a cancellation, nor a row *)
(* that cannot be read invalidates it (generator.py:211-217, 249-254).       *)
DroppedForCause ==
    \A j \in Jobs : owner = j /\ owner' # j =>
        (~cached' <=> attempt'[j] # 0 /\ attempt'[j] = raises[j])

(* The second model call works on the first response: it is shown for        *)
(* correction, and no third call is made (generator.py:457-460, 490-496).    *)
RepairShowsTheResponse == \A j \in Jobs : attempt[j] = 2 => shown[j] >= 1

(* A job whose cancellation a probe has seen writes nothing, not even the    *)
(* refused response, and makes no further call (generator.py:319-324).       *)
CancellationLeavesNothing ==
    \A j \in Jobs : seen[j] => files[j] = {} /\ pc[j] \in Ended \cup {"exit"}

(* A cancellation that stands when the first response has been refused stops *)
(* the repair call (generator.py:462-467).                                   *)
NoRepairAfterCancellation == \A j \in Jobs : stood[j] => attempt[j] = 1

(* What is kept of a failed job is the last response it was judged by, and a *)
(* job that succeeds has both files of the response that was accepted.       *)
EvidenceIsTheLastResponse ==
    \A j \in Jobs :
        /\ \A n \in 1..2 : <<"raw", n>> \in files[j] => n = attempt[j] /\ accepted[j] = 0
        /\ pc[j] = "succeeded" => files[j] = {<<"md", raw[j]>>, <<"json", raw[j]>>}

-----------------------------------------------------------------------------

(* What these rest on, at each place of the program: whose the lease is and  *)
(* that its runtime is cached, how many calls were made and what they gave,  *)
(* which errors are held, which files are written.                           *)
InLease == {"leased", "call", "between", "late", "exit"}

LeaseIsHeld ==
    /\ \A j \in Jobs : pc[j] \in InLease <=> owner = j
    /\ \A j \in Jobs : pc[j] \in InLease => raises[j] \notin 1..attempt[j]
    /\ owner # NoJob => cached

Early == {"new", "waiting", "leased", "call", "between"}

CallsInOrder(j) ==
    /\ pc[j] \in {"new", "waiting", "leased"} => attempt[j] = 0
    /\ pc[j] = "call" => attempt[j] \in {0, 1}
    /\ pc[j] = "between" => attempt[j] = 1
    /\ (pc[j] = "call" /\ attempt[j] = 1) => shown[j] >= 1
    /\ (pc[j] = "between" \/ attempt[j] = 2) => shown[j] >= 1
    /\ stood[j] => cancelled[j] /\ attempt[j] = 1 /\ pc[j] \notin Early \ {"between"}

ErrorsAreHeld(j) ==
    /\ pc[j] \in Early => held[j] = {}
    /\ seen[j] => "cancel" \in held[j] /\ pc[j] \in {"exit", "failed", "cancelled"}
    /\ seen[j] => files[j] = {}

OneResponseCounts(j) ==
    /\ pc[j] \in Early => accepted[j] = 0
    /\ accepted[j] # 0 => accepted[j] = raw[j] /\ raw[j] = attempt[j]
    /\ (pc[j] = "late" \/ (pc[j] = "exit" /\ held[j] = {})) =>
         "schema" \in held[j] \/ accepted[j] # 0
    /\ "schema" \in held[j] => accepted[j] = 0 /\ raw[j] = attempt[j] /\ attempt[j] = 2
    /\ pc[j] = "refused" => "schema" \in held[j]
    /\ pc[j] \in {"writing_md", "writing_json", "judging", "succeeded"} => accepted[j] # 0

FilesInOrder(j) ==
    /\ pc[j] \in Early \cup {"late", "exit", "refused", "writing_md", "cancelled"} => files[j] = {}
    /\ pc[j] = "writing_json" => files[j] = {<<"md", accepted[j]>>}
    /\ pc[j] \in {"judging", "succeeded"} =>
         files[j] = {<<"md", accepted[j]>>, <<"json", accepted[j]>>}
    /\ \A n \in 1..2 : <<"raw", n>> \in files[j] => n = attempt[j] /\ accepted[j] = 0

IsAccounted(j) ==
    CallsInOrder(j) /\ ErrorsAreHeld(j) /\ OneResponseCounts(j) /\ FilesInOrder(j)

JobsInv == TypeOK /\ \A j \in Jobs : IsAccounted(j)

TextInv == JobsInv /\ LeaseIsHeld
===============================================================================
