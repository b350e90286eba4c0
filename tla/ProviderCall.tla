----------------------------- MODULE ProviderCall -----------------------------
(***************************************************************************)
(* One request to an image or audio provider: consent, credential, the     *)
(* transport on a thread of its own with a timeout, retries and backoff,   *)
(* redaction.  generators/image/providers.py and generators/audio/         *)
(* providers.py hold the same code twice from the retry policy down; they  *)
(* differ in what consent they ask for.  The audio adapter is              *)
(* generators/audio/example_provider.py.                                   *)
(*                                                                         *)
(* A transport that outlives its timeout is not stopped: its thread runs   *)
(* on and may answer when a later attempt is under way or the call is      *)
(* over.  Seconds are whole numbers; a text is the set of its words.       *)
(***************************************************************************)
EXTENDS Integers, FiniteSets, Sequences

CONSTANTS
    MaxRetries,             \* policy.max_retries
    Base, Multiplier, Cap,  \* policy.backoff_*, max_backoff_seconds
    Errors,                 \* what a transport may raise
    Secret                  \* the credential's value

Kinds == {"image", "audio"}
Retryable == {"timeout", "rate_limit", "transient"}
Categories == Retryable \cup {"auth", "permanent"}
Attempts == 1..(MaxRetries + 1)
NoError == [category |-> "none", words |-> {}, id |-> {}, after |-> {}]
TimedOut == [category |-> "timeout", words |-> {"why"}, id |-> {}, after |-> {}]

VARIABLES
    call,       \* the request: kind, local, who consented, key, capable
    pc,
    thread,     \* each attempt's thread: unborn, running, answered, raised
    error,      \* what that attempt raised
    current,    \* the attempt the caller waits for; 0 before the first
    slept,      \* the backoffs slept, in order
    verdicts,   \* how each attempt ended for the caller, in order
    answer,     \* the attempt whose answer was returned; 0 for none
    raised,     \* what the caller saw raised
    disclosed   \* the preflight disclosure was built

vars == <<call, pc, thread, error, current, slept, verdicts, answer, raised, disclosed>>

CallSpace == [kind : Kinds, local : BOOLEAN, global : BOOLEAN, own : BOOLEAN,
              key : {"none", "literal", "unset", "set"}, capable : BOOLEAN]

Ends == {"returned", "error"}

TypeOK ==
    /\ call \in CallSpace
    /\ pc \in {"new", "ready", "waiting", "backoff"} \cup Ends
    /\ thread \in [Attempts -> {"unborn", "running", "answered", "raised"}]
    /\ \A a \in Attempts : error[a] = NoError \/ error[a] \in Errors
    /\ current \in 0..(MaxRetries + 1)
    /\ slept \in Seq(Int) /\ Len(slept) <= MaxRetries
    /\ verdicts \in Seq(Categories \cup {"foreign", "interrupt"})
    /\ answer \in 0..(MaxRetries + 1)
    /\ disclosed \in BOOLEAN

Init ==
    /\ call \in {c \in CallSpace : c.kind = "audio" => ~c.local}
    /\ pc = "new"
    /\ thread = [a \in Attempts |-> "unborn"]
    /\ error = [a \in Attempts |-> NoError]
    /\ current = 0 /\ slept = <<>> /\ verdicts = <<>> /\ answer = 0
    /\ raised = NoError /\ disclosed = FALSE

-----------------------------------------------------------------------------
\* resolve_image_provider_credential: a literal key in a manifest is refused
\* for every provider, a missing one only for a remote provider.
ImageCredentialRefused ==
    \/ call.key = "literal"
    \/ ~call.local /\ call.key = "unset"

\* resolve_cloud_audio_provider_credential.
AudioCredentialRefused == call.key \in {"literal", "unset"}

\* cloud_image_provider_opt_in_granted: one of the two switches is enough.
ImageOptIn == call.global \/ call.own

\* cloud_audio_provider_opt_in_granted: both switches.
AudioOptIn == call.global /\ call.own

\* build_image_provider_preflight, ensure_image_provider_opt_in.
ImageGate == ~ImageCredentialRefused /\ (call.local \/ ImageOptIn)

\* ensure_capability_supported, ensure_cloud_audio_provider_opt_in.
AudioGate == ~AudioCredentialRefused /\ call.capable /\ AudioOptIn

Permitted == IF call.kind = "image" THEN ImageGate ELSE AudioGate

\* Whatever is refused is refused before a thread is started.
Gate ==
    /\ pc = "new"
    /\ pc' = IF Permitted THEN "ready" ELSE "error"
    /\ disclosed' = (call.kind = "image" /\ ~ImageCredentialRefused)
    /\ UNCHANGED <<call, thread, error, current, slept, verdicts, answer, raised>>

-----------------------------------------------------------------------------
\* _run_..._transport_with_timeout starts a thread; a local image provider is
\* called on the caller's own thread, without a timeout.
StartAttempt ==
    /\ pc = "ready"
    /\ current' = current + 1
    /\ thread' = [thread EXCEPT ![current + 1] = "running"]
    /\ pc' = "waiting"
    /\ UNCHANGED <<call, error, slept, verdicts, answer, raised, disclosed>>

\* The transport of any attempt, the current one or one given up, answers.
TransportAnswers(a) ==
    /\ thread[a] = "running"
    /\ thread' = [thread EXCEPT ![a] = "answered"]
    /\ UNCHANGED <<call, pc, error, current, slept, verdicts, answer, raised, disclosed>>

\* ... or raises: a provider error, some other exception, an interrupt.
TransportRaises(a) ==
    /\ thread[a] = "running"
    /\ thread' = [thread EXCEPT ![a] = "raised"]
    /\ \E e \in Errors : error' = [error EXCEPT ![a] = e]
    /\ UNCHANGED <<call, pc, current, slept, verdicts, answer, raised, disclosed>>

\* Mutant: the lists outcome and failure are shared by the attempts.
AnswerOfAny == {a \in Attempts : thread[a] = "answered"}

\* outcome is local to one attempt.
AnswerOf == {a \in {current} : thread[a] = "answered"}

\* join() returns because the thread has ended with an answer.
Return ==
    /\ pc = "waiting"
    /\ \E a \in AnswerOf : answer' = a
    /\ pc' = "returned"
    /\ UNCHANGED <<call, thread, error, current, slept, verdicts, raised, disclosed>>

\* not exc.retryable or attempt >= policy.max_retries; what is not a provider
\* error passes through the loop at once.
GivesUp(e) == e.category \notin Retryable \/ current > MaxRetries

Least(a, b) == IF a < b THEN a ELSE b
Greatest(a, b) == IF a > b THEN a ELSE b

\* _..._provider_backoff_seconds.
Backoff(e) ==
    IF e.after # {} THEN CHOOSE n \in {Greatest(0, Least(h, Cap)) : h \in e.after} : TRUE
    ELSE Least(Base * Multiplier^(current - 1), Cap)

\* redact_provider_error: the message and the provider's request id.
Redact(e) == [e EXCEPT !.words = @ \ {Secret}, !.id = @ \ {Secret}]

\* What leaves the call: the audio adapter redacts exceptions, and only those.
Leaves(e) ==
    IF call.kind = "audio" /\ e.category # "interrupt" THEN Redact(e) ELSE e

\* The attempt has failed with e: raise it, or sleep and try again.
Settle(e) ==
    /\ verdicts' = Append(verdicts, e.category)
    /\ \/ /\ GivesUp(e)
          /\ raised' = Leaves(e)
          /\ pc' = "error" /\ UNCHANGED slept
       \/ /\ ~GivesUp(e)
          /\ slept' = Append(slept, Backoff(e))
          /\ pc' = "backoff" /\ UNCHANGED raised

\* join() returns because the thread has ended with an exception.
AttemptFails ==
    /\ pc = "waiting" /\ thread[current] = "raised"
    /\ IF call.local THEN /\ raised' = error[current]
                          /\ pc' = "error" /\ UNCHANGED <<slept, verdicts>>
                     ELSE Settle(error[current])
    /\ UNCHANGED <<call, thread, error, current, answer, disclosed>>

\* join() returns because the time is over; the thread lives on.
TimeOut ==
    /\ pc = "waiting" /\ ~call.local
    /\ thread[current] = "running"
    /\ Settle(TimedOut)
    /\ UNCHANGED <<call, thread, error, current, answer, disclosed>>

WakeUp ==
    /\ pc = "backoff"
    /\ pc' = "ready"
    /\ UNCHANGED <<call, thread, error, current, slept, verdicts, answer, raised, disclosed>>

Caller == Gate \/ StartAttempt \/ Return \/ AttemptFails \/ TimeOut \/ WakeUp

Over == pc \in Ends /\ UNCHANGED vars

Next ==
    \/ Caller \/ Over
    \/ \E a \in Attempts : TransportAnswers(a) \/ TransportRaises(a)

\* The caller keeps running; a transport may hang for ever.
Spec == Init /\ [][Next]_vars /\ WF_vars(Caller)

-----------------------------------------------------------------------------
(* An answer that is returned is the answer of the attempt the caller was    *)
(* waiting for, never the late one of an attempt already given up            *)
(* (image/providers.py:822-842).                                             *)
NoLateAnswer == pc = "returned" => answer = current /\ thread[current] = "answered"

(* A request is sent again only when every attempt before it timed out or    *)
(* failed in a way worth retrying; an answered, refused or unauthorised      *)
(* request is not sent twice (image/providers.py:870-879).                   *)
RetriesAreJustified ==
    current' > current =>
         /\ answer = 0
         /\ Len(verdicts) = current
         /\ \A i \in DOMAIN verdicts : verdicts[i] \in Retryable

(* Nothing leaves the machine without consent: a thread for a remote request *)
(* exists only if the switches for that kind of provider are on, the         *)
(* provider is able and available, and, for images, the disclosure exists    *)
(* (image/providers.py:606-623, audio/providers.py:374-376).                 *)
ConsentBeforeSending ==
    (~call.local /\ \E a \in Attempts : thread[a] # "unborn") =>
        /\ call.global \/ (call.kind = "image" /\ call.own)
        /\ call.kind = "audio" => call.own /\ call.capable
        /\ call.kind = "image" => disclosed

(* No backoff is negative or longer than the policy allows, whatever the     *)
(* provider's Retry-After says.                                              *)
BackoffIsBounded == \A i \in DOMAIN slept : slept[i] \in 0..Cap

(* An exception the audio adapter lets out carries the credential neither in *)
(* its message nor in the provider's request id (example_provider.py:113).   *)
AudioErrorsAreClean ==
    (pc = "error" /\ call.kind = "audio" /\ raised.category # "interrupt") =>
        Secret \notin raised.words \cup raised.id

-----------------------------------------------------------------------------
(* What these rest on.  Until the call is over the caller has one verdict    *)
(* and one backoff for each attempt it has given up, all worth a retry; a    *)
(* thread is born of a permitted call only; and what a thread raised is an   *)
(* error of the transport.                                                   *)
Justified == \A i \in DOMAIN verdicts : verdicts[i] \in Retryable

CountsAgree ==
    /\ pc = "new" => current = 0
    /\ pc \in {"new", "ready", "backoff"} =>
          Len(verdicts) = current /\ Len(slept) = current /\ current <= MaxRetries
    /\ pc \in {"waiting", "returned"} =>
          current >= 1 /\ Len(verdicts) = current - 1 /\ Len(slept) = current - 1
    /\ pc \notin Ends => Justified
    /\ pc # "returned" => answer = 0
    /\ pc # "error" => raised = NoError

ThreadsArePermitted ==
    /\ call.kind = "audio" => ~call.local
    /\ pc = "new" => \A a \in Attempts : thread[a] = "unborn"
    /\ pc \in {"ready", "waiting", "backoff"} \/ (\E a \in Attempts : thread[a] # "unborn") =>
          Permitted /\ disclosed = (call.kind = "image")
    /\ \A a \in Attempts : thread[a] = "raised" => error[a] \in Errors

ProviderInv ==
    /\ TypeOK /\ DOMAIN error = Attempts
    /\ CountsAgree /\ ThreadsArePermitted
    /\ NoLateAnswer /\ BackoffIsBounded /\ AudioErrorsAreClean
=============================================================================
