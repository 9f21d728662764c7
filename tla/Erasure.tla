------------------------------- MODULE Erasure -------------------------------
(***************************************************************************)
(* The LGPD requests of one user: exports, erasures, and the consents.     *)
(*                                                                         *)
(* createRequest looks for an open request and inserts one in two          *)
(* statements, then starts a goroutine that runs the job.  The job is a    *)
(* sequence of statements whose errors are all ignored, so it never marks  *)
(* its request failed.  Each statement is one action, and calls and jobs   *)
(* interleave.  The contents of the rows are left out: a row is clear, as  *)
(* its owner wrote it, or anonymised.  Tables are restricted to the rows   *)
(* of the user, and to the leads that carry the user's e-mail address; the *)
(* statement of the job that clears the partner's key is EraseData of      *)
(* module Payouts, and has no effect here; the audit entry the job ends    *)
(* with is left out.                                                       *)
(***************************************************************************)
EXTENDS Integers, FiniteSets

CONSTANTS Request,   \* identifiers of lgpd_requests
          Call,      \* HTTP calls the server may work on at the same time
          Lead,      \* leads that carry the user's e-mail address
          Consent    \* identifiers of consents

ASSUME ErasureAssumption ==
    /\ IsFiniteSet(Call)
    /\ Consent \cap Lead = {}

VARIABLES request,   \* the lgpd_requests table
          call,      \* the kind of request each call is about to insert
          job,       \* the statement each goroutine is at
          user,      \* the users row
          lead,      \* the leads table
          consent,   \* the consents table
          faulty,    \* history: requests whose job had a statement fail
          due        \* history: the consents and leads in force when each job started

rows == <<user, lead, consent>>
history == <<faulty, due>>
vars == <<request, call, job, rows, history>>

Kind == {"export", "erase"}
Step == {"start", "user", "leads", "consents", "complete"}

\* The request is completed before the consents are revoked.
FollowsFault(kind, step) ==
    CASE step = "start"    -> IF kind = "erase" THEN "user" ELSE "complete"
      [] step = "user"     -> "leads"
      [] step = "leads"    -> "complete"
      [] step = "complete" -> IF kind = "erase" THEN "consents" ELSE "none"
      [] step = "consents" -> "none"

\* An export runs the statements of an erasure.
FollowsKindFault(kind, step) ==
    CASE step = "start"    -> "user"
      [] step = "user"     -> "leads"
      [] step = "leads"    -> "consents"
      [] step = "consents" -> "complete"
      [] step = "complete" -> "none"

\* The order of the statements of each job.
Follows(kind, step) ==
    CASE step = "start"    -> IF kind = "erase" THEN "user" ELSE "complete"
      [] step = "user"     -> "leads"
      [] step = "leads"    -> "consents"
      [] step = "consents" -> "complete"
      [] step = "complete" -> "none"

TypeOK ==
    /\ request \in [Request -> [status: {"none", "pending", "processing", "completed"}, kind: Kind]]
    /\ call \in [Call -> Kind \cup {"none"}]
    /\ job \in [Request -> Step \cup {"none"}]
    /\ \A r \in Request : job[r] \in {"user", "leads", "consents"} => request[r].kind = "erase"
    /\ user \in {"clear", "anonymised"}
    /\ lead \in [Lead -> {"none", "clear", "anonymised"}]
    /\ consent \in [Consent -> {"none", "active", "revoked"}]
    /\ faulty \subseteq Request
    /\ due \in [Request -> SUBSET (Consent \cup Lead)]

Init ==
    /\ request = [r \in Request |-> [status |-> "none", kind |-> "export"]]
    /\ call = [c \in Call |-> "none"]
    /\ job = [r \in Request |-> "none"]
    /\ user = "clear"
    /\ lead = [l \in Lead |-> "none"]
    /\ consent = [a \in Consent |-> "none"]
    /\ faulty = {}
    /\ due = [r \in Request |-> {}]

-----------------------------------------------------------------------------
(* The calls.                                                              *)

Open(kind) == {r \in Request : request[r].kind = kind /\ request[r].status \in {"pending", "processing"}}

\* Only a request whose job has not started counts as open.
CreateRequestFault(c, kind) ==
    /\ call[c] = "none"
    /\ \A r \in Open(kind) : request[r].status = "processing"
    /\ call' = [call EXCEPT ![c] = kind]
    /\ UNCHANGED <<request, job, rows, history>>

\* A call that finds an open request answers with it and changes nothing.
CreateRequest(c, kind) ==
    /\ call[c] = "none"
    /\ Open(kind) = {}
    /\ call' = [call EXCEPT ![c] = kind]
    /\ UNCHANGED <<request, job, rows, history>>

\* The INSERT, and the goroutine it starts.
Dispatch(c) ==
    /\ call[c] # "none"
    /\ \E r \in Request :
          /\ request[r].status = "none"
          /\ request' = [request EXCEPT ![r] = [status |-> "pending", kind |-> call[c]]]
          /\ job' = [job EXCEPT ![r] = "start"]
          /\ due' = [due EXCEPT ![r] = {a \in Consent : consent[a] = "active"}
                                        \cup {l \in Lead : lead[l] = "clear"}]
    /\ call' = [call EXCEPT ![c] = "none"]
    /\ UNCHANGED <<rows, faulty>>

\* The INSERT fails, or the call does not live to run it.
CallFails(c) ==
    /\ call[c] # "none"
    /\ call' = [call EXCEPT ![c] = "none"]
    /\ UNCHANGED <<request, job, rows, history>>

Grant(a) ==
    /\ consent[a] = "none"
    /\ consent' = [consent EXCEPT ![a] = "active"]
    /\ UNCHANGED <<request, call, job, user, lead, history>>

Revoke(a) ==
    /\ consent[a] = "active"
    /\ consent' = [consent EXCEPT ![a] = "revoked"]
    /\ UNCHANGED <<request, call, job, user, lead, history>>

\* A partner refers somebody with the user's address.
CreateLead(l) ==
    /\ lead[l] = "none"
    /\ lead' = [lead EXCEPT ![l] = "clear"]
    /\ UNCHANGED <<request, call, job, user, consent, history>>

-----------------------------------------------------------------------------
(* The jobs.                                                               *)

\* The goroutine of request r runs one statement and goes on to the next.
Executes(r, step) ==
    /\ job[r] = step
    /\ job' = [job EXCEPT ![r] = Follows(request[r].kind, step)]

SetStatus(r, to) == request' = [request EXCEPT ![r].status = to]

Start(r) ==
    /\ Executes(r, "start")
    /\ SetStatus(r, "processing")
    /\ UNCHANGED <<call, rows, history>>

\* The name, the e-mail address and its hash, the password, the phone.
AnonymiseUser(r) ==
    /\ Executes(r, "user")
    /\ user' = "anonymised"
    /\ UNCHANGED <<request, call, lead, consent, history>>

\* The leads are found by the hash the users row holds now.
AnonymiseLeads(r) ==
    /\ Executes(r, "leads")
    /\ lead' = [l \in Lead |-> IF lead[l] = "clear" /\ user = "clear" THEN "anonymised" ELSE lead[l]]
    /\ UNCHANGED <<request, call, user, consent, history>>

RevokeConsents(r) ==
    /\ Executes(r, "consents")
    /\ consent' = [a \in Consent |-> IF consent[a] = "active" THEN "revoked" ELSE consent[a]]
    /\ UNCHANGED <<request, call, user, lead, history>>

Complete(r) ==
    /\ Executes(r, "complete")
    /\ SetStatus(r, "completed")
    /\ UNCHANGED <<call, rows, history>>

\* The statement returns an error, or the ten minutes of the job are over.
StatementFails(r) ==
    /\ \E step \in Step : Executes(r, step)
    /\ faulty' = faulty \cup {r}
    /\ UNCHANGED <<request, call, rows, due>>

\* The process stops; nothing starts the goroutine again.
Lost(r) ==
    /\ job[r] # "none"
    /\ job' = [job EXCEPT ![r] = "none"]
    /\ UNCHANGED <<request, call, rows, history>>

-----------------------------------------------------------------------------
Calls ==
    \/ \E c \in Call : (\E kind \in Kind : CreateRequest(c, kind)) \/ Dispatch(c) \/ CallFails(c)
    \/ \E a \in Consent : Grant(a) \/ Revoke(a)
    \/ \E l \in Lead : CreateLead(l)

Work(r) ==
    \/ Start(r) \/ AnonymiseUser(r) \/ AnonymiseLeads(r) \/ RevokeConsents(r)
    \/ Complete(r)

Next == Calls \/ \E r \in Request : Work(r) \/ StatementFails(r) \/ Lost(r)

Spec == Init /\ [][Next]_vars

-----------------------------------------------------------------------------
(* Properties.                                                             *)

Inserting(kind) == {c \in Call : call[c] = kind}

\* The look-up does not exclude a second open request of a kind, but it keeps
\* their number within that of the calls the server works on at once.
OpenBoundedByCalls ==
    \A kind \in Kind :
        Cardinality(Open(kind)) + Cardinality(Inserting(kind)) <= Cardinality(Call)

\* A request that is completed and had no statement fail.
Honoured(r) == request[r].status = "completed" /\ request[r].kind = "erase" /\ r \notin faulty

\* However jobs and calls interleave, an erasure that is completed with no error
\* has anonymised the user and revoked every consent that was in force.
ErasureReachesUser ==
    \A r \in Request : Honoured(r) =>
        /\ user = "anonymised"
        /\ \A a \in due[r] \cap Consent : consent[a] = "revoked"

\* Such an erasure has anonymised the leads that carried the user's address.
ErasureReachesLeads ==
    \A r \in Request : Honoured(r) => \A l \in due[r] \cap Lead : lead[l] = "anonymised"
=============================================================================
