--------------------------- MODULE Notifications ---------------------------
(***************************************************************************)
(* An e-mail with a code or a link: from the API's call, which stores the  *)
(* token and then queues a job (apps/api/src/modules/identity/application, *)
(* shared/infrastructure/queue.ts), to the worker processes that take the  *)
(* jobs and send (apps/worker/src).  BullMQ and the mail service are not   *)
(* part of the code: a job is taken by one worker at a time, tried again   *)
(* after a failure up to the attempts it was queued with, and taken away   *)
(* from a worker that stopped; a mail may go out though the answer is      *)
(* lost.  What the mail says is left out.                                  *)
(***************************************************************************)
EXTENDS Integers, FiniteSets

CONSTANTS Calls,         \* forgotPassword or createUser, each with a token of its own
          Found,         \* the calls whose user the worker finds
          Workers,       \* worker processes
          Transport,     \* "resend", "smtp" or "none", as configured
          Attempts,      \* the attempts a job is queued with
          MaxStalls,     \* how often BullMQ hands a job of a stopped worker on
          MaxStops       \* how often a process stops (bound)

ASSUME NotificationsAssumption ==
    /\ Found \subseteq Calls /\ Transport \in {"resend", "smtp", "none"}
    /\ Attempts \in Nat \ {0} /\ MaxStalls \in Nat /\ MaxStops \in Nat

VARIABLES call,      \* call[c]: how far the API is with call c
          token,     \* the calls whose token is stored
          job,       \* job[c]: the job queued for c
          worker,    \* worker[w]: the job worker w is at, and the step
          mails,     \* mails[c]: how many mails went out for c
          stops      \* how often a process stopped

mailVars == <<call, token, job, worker, mails, stops>>

NoJob    == [state |-> "none", attempts |-> 0, stalls |-> 0]
Resting  == [step |-> "rest"]

MailInit ==
    /\ call = [c \in Calls |-> "idle"]
    /\ token = {}
    /\ job = [c \in Calls |-> NoJob]
    /\ worker = [w \in Workers |-> Resting]
    /\ mails = [c \in Calls |-> 0]
    /\ stops = 0

-----------------------------------------------------------------------------
(* The API *)

CreateToken(c) ==
    /\ call[c] = "idle"
    /\ token' = token \cup {c}
    /\ call' = [call EXCEPT ![c] = "stored"]
    /\ UNCHANGED <<job, worker, mails, stops>>

EnqueueNotification(c) ==
    /\ call[c] = "stored"
    /\ job' = [job EXCEPT ![c].state = "waiting"]
    /\ call' = [call EXCEPT ![c] = "queued"]
    /\ UNCHANGED <<token, worker, mails, stops>>

(* The queue cannot be reached: the call fails, and the token stays. *)
EnqueueFails(c) ==
    /\ call[c] = "stored"
    /\ call' = [call EXCEPT ![c] = "failed"]
    /\ UNCHANGED <<token, job, worker, mails, stops>>

(* The audit event, and the answer. *)
Answer(c) ==
    /\ call[c] = "queued"
    /\ call' = [call EXCEPT ![c] = "answered"]
    /\ UNCHANGED <<token, job, worker, mails, stops>>

StopApi(c) ==
    /\ call[c] \in {"stored", "queued"} /\ stops < MaxStops
    /\ call' = [call EXCEPT ![c] = "failed"]
    /\ stops' = stops + 1
    /\ UNCHANGED <<token, job, worker, mails>>

-----------------------------------------------------------------------------
(* The worker *)

Take(w) ==
    /\ worker[w] = Resting
    /\ \E c \in Calls :
        /\ job[c].state = "waiting"
        /\ job' = [job EXCEPT ![c].state = "active"]
        /\ worker' = [worker EXCEPT ![w] = [step |-> "find", call |-> c]]
    /\ UNCHANGED <<call, token, mails, stops>>

Proceed(w, step) == worker' = [worker EXCEPT ![w].step = step]

(* Nobody to write to, or nothing to send with: the job is done. *)
FindUser(w) ==
    /\ worker[w].step = "find"
    /\ Proceed(w, IF worker[w].call \in Found /\ Transport # "none" THEN "send" ELSE "return")
    /\ UNCHANGED <<call, token, job, mails, stops>>

(* Faulty sending: whatever the mail service answers, the job is done. *)
SendMailUnchecked(w) ==
    /\ worker[w].step = "send"
    /\ \/ mails' = [mails EXCEPT ![worker[w].call] = @ + 1]
       \/ UNCHANGED mails
    /\ Proceed(w, "return")
    /\ UNCHANGED <<call, token, job, stops>>

(* The mail goes out or not; an answer that is no success, or none, throws.*)
SendMail(w) ==
    /\ worker[w].step = "send"
    /\ \/ mails' = [mails EXCEPT ![worker[w].call] = @ + 1] /\ Proceed(w, "return")
       \/ mails' = [mails EXCEPT ![worker[w].call] = @ + 1] /\ Proceed(w, "throw")
       \/ UNCHANGED mails /\ Proceed(w, "throw")
    /\ UNCHANGED <<call, token, job, stops>>

Completed(w) ==
    /\ worker[w].step = "return"
    /\ job' = [job EXCEPT ![worker[w].call].state = "completed"]
    /\ worker' = [worker EXCEPT ![w] = Resting]
    /\ UNCHANGED <<call, token, mails, stops>>

(* Faulty options: a job that failed is tried again for ever. *)
RetriedJobForever(j) == [j EXCEPT !.state = "delayed"]

RetriedJob(j) ==
    [j EXCEPT !.attempts = @ + 1, !.state = IF j.attempts + 1 < Attempts THEN "delayed" ELSE "failed"]

Failed(w) ==
    /\ worker[w].step = "throw"
    /\ job' = [job EXCEPT ![worker[w].call] = RetriedJob(@)]
    /\ worker' = [worker EXCEPT ![w] = Resting]
    /\ UNCHANGED <<call, token, mails, stops>>

(* The process stops where it is, and another one is started. *)
StopWorker(w) ==
    /\ worker[w] # Resting /\ stops < MaxStops
    /\ worker' = [worker EXCEPT ![w] = Resting]
    /\ stops' = stops + 1
    /\ UNCHANGED <<call, token, job, mails>>

-----------------------------------------------------------------------------
(* BullMQ *)

Backoff(c) ==
    /\ job[c].state = "delayed"
    /\ job' = [job EXCEPT ![c].state = "waiting"]
    /\ UNCHANGED <<call, token, worker, mails, stops>>

HeldBy(w, c) == worker[w] # Resting /\ worker[w].call = c

Stalled(c) ==
    /\ job[c].state = "active" /\ \A w \in Workers : ~HeldBy(w, c)
    /\ job' = [job EXCEPT ![c].stalls = @ + 1,
                          ![c].state = IF job[c].stalls < MaxStalls THEN "waiting" ELSE "failed"]
    /\ UNCHANGED <<call, token, worker, mails, stops>>

-----------------------------------------------------------------------------
ApiStep(c)    == CreateToken(c) \/ EnqueueNotification(c) \/ EnqueueFails(c) \/ Answer(c)
WorkerStep(w) == Take(w) \/ FindUser(w) \/ SendMail(w) \/ Completed(w) \/ Failed(w)
QueueStep(c)  == Backoff(c) \/ Stalled(c)

MailNext ==
    \/ \E c \in Calls : ApiStep(c) \/ QueueStep(c) \/ StopApi(c)
    \/ \E w \in Workers : WorkerStep(w) \/ StopWorker(w)

(* The API may stop for ever; a worker runs or is started again, and the   *)
(* queue's timers elapse.                                                  *)
MailFairness ==
    /\ \A w \in Workers : WF_mailVars(WorkerStep(w))
    /\ \A c \in Calls : WF_mailVars(QueueStep(c))

MailSpec == MailInit /\ [][MailNext]_mailVars /\ MailFairness

-----------------------------------------------------------------------------
JobStates == {"none", "waiting", "active", "delayed", "completed", "failed"}

MailTypeOK ==
    /\ call \in [Calls -> {"idle", "stored", "queued", "answered", "failed"}]
    /\ token \subseteq Calls
    /\ job \in [Calls -> [state : JobStates, attempts : 0..Attempts, stalls : 0..(MaxStalls + 1)]]
    /\ mails \in [Calls -> Nat] /\ stops \in 0..MaxStops
    /\ \A w \in Workers :
        worker[w] = Resting \/ worker[w].step \in {"find", "send", "return", "throw"}

(* A code that is mailed can be redeemed: its token is stored before the   *)
(* worker can know of the job.                                             *)
MailedIsStored == \A c \in Calls : mails[c] > 0 => c \in token

(* A job that is done has sent its mail, unless there is nobody to write   *)
(* to or nothing to send with.                                             *)
CompletedWasSent ==
    \A c \in Found :
        Transport # "none" /\ job[c].state = "completed" => mails[c] > 0

(* Every job comes to an end, sent or given up, although mails fail,       *)
(* workers stop and jobs stall.                                            *)
EveryJobSettles ==
    \A c \in Calls :
        job[c].state \in {"waiting", "active", "delayed"}
            ~> job[c].state \in {"completed", "failed"}

(* A job processed again after a lost answer or a stop has no further      *)
(* effect: one mail per job.                                               *)
MailedOnce == \A c \in Calls : mails[c] <= 1
-----------------------------------------------------------------------------
(* The inductive invariant *)

(* A job is queued once, after its token is stored, and while it may still *)
(* be tried it has attempts left; ...                                      *)
JobInv(c) ==
    /\ call[c] \in {"idle", "stored"} => job[c] = NoJob
    /\ call[c] = "stored" \/ job[c].state # "none" \/ mails[c] > 0 => c \in token
    /\ job[c].state \in {"waiting", "active", "delayed"} =>
          job[c].attempts < Attempts /\ job[c].stalls <= MaxStalls

(* ... the job a worker holds is active, no other worker holds it, and     *)
(* past the sending its mail went out.                                     *)
WorkerInv(w) ==
    worker[w] # Resting =>
        /\ worker[w] \in [step : {"find", "send", "return", "throw"}, call : Calls]
        /\ job[worker[w].call].state = "active"
        /\ \A v \in Workers \ {w} : ~HeldBy(v, worker[w].call)
        /\ worker[w].step = "return" /\ worker[w].call \in Found /\ Transport # "none"
              => mails[worker[w].call] > 0

MailInv ==
    /\ MailTypeOK
    /\ DOMAIN worker = Workers
    /\ \A c \in Calls : JobInv(c)
    /\ \A w \in Workers : WorkerInv(w)
    /\ CompletedWasSent
=============================================================================
