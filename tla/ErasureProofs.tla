---------------------------- MODULE ErasureProofs ----------------------------
(***************************************************************************)
(* Theorems about Erasure, for every set of requests, consents and leads,  *)
(* and any finite number of calls the server works on at once.             *)
(***************************************************************************)
EXTENDS Erasure, FiniteSetTheorems, TLAPS

USE ErasureAssumption

Erasing(r) == request[r].kind = "erase" /\ r \notin faulty

\* What the statements that have been run without an error leave behind, step by step.
UserDone ==
    \A r \in Request : Erasing(r) /\ job[r] \in {"leads", "consents", "complete"} => user = "anonymised"

ConsentsDone ==
    \A r \in Request : Erasing(r) /\ job[r] = "complete" =>
        \A a \in due[r] \cap Consent : consent[a] = "revoked"

\* A consent that was in force has been given: it can only be revoked.
DueGiven == \A r \in Request : \A a \in due[r] \cap Consent : consent[a] # "none"

IInv ==
    /\ TypeOK
    /\ UserDone
    /\ ConsentsDone
    /\ DueGiven
    /\ ErasureReachesUser

LEMMA InitIInv == Init => IInv
  BY DEF Init, IInv, TypeOK, UserDone, ConsentsDone, DueGiven, ErasureReachesUser, Honoured, Kind, Step

-----------------------------------------------------------------------------
(* Types.                                                                  *)

LEMMA FollowsType ==
    ASSUME NEW kind \in Kind, NEW step \in Step
    PROVE  /\ Follows(kind, step) \in Step \cup {"none"}
           /\ step \in {"user", "leads", "consents"} /\ kind = "erase" =>
                 Follows(kind, step) \in {"leads", "consents", "complete"}
           /\ Follows(kind, step) \in {"user", "leads", "consents"} =>
                 kind = "erase" \/ step \in {"user", "leads"}
  BY DEF Follows, Kind, Step

\* A statement of the job of r, and what becomes of the job.
LEMMA ExecutesType ==
    ASSUME TypeOK, NEW r \in Request, NEW step \in Step, Executes(r, step)
    PROVE  /\ job' \in [Request -> Step \cup {"none"}]
           /\ job' = [job EXCEPT ![r] = Follows(request[r].kind, step)]
           /\ \A s \in Request : job'[s] \in {"user", "leads", "consents"} => request[s].kind = "erase"
<1>1. request[r].kind \in Kind
  BY DEF TypeOK
<1>2. job'[r] \in {"user", "leads", "consents"} => request[r].kind = "erase"
  BY <1>1, FollowsType DEF Executes, TypeOK
<1>3. QED
  BY <1>1, <1>2, FollowsType DEF Executes, TypeOK

LEMMA NextTypeOK == TypeOK /\ [Next]_vars => TypeOK'
<1> SUFFICES ASSUME TypeOK, [Next]_vars PROVE TypeOK'
  OBVIOUS
<1> USE DEF TypeOK, rows, history
<1>1. ASSUME NEW c \in Call, NEW kind \in Kind, CreateRequest(c, kind) PROVE TypeOK'
  BY <1>1 DEF CreateRequest
<1>2. ASSUME NEW c \in Call, Dispatch(c) PROVE TypeOK'
  <2>1. PICK r \in Request :
           /\ request' = [request EXCEPT ![r] = [status |-> "pending", kind |-> call[c]]]
           /\ job' = [job EXCEPT ![r] = "start"]
           /\ due' = [due EXCEPT ![r] = {a \in Consent : consent[a] = "active"}
                                         \cup {l \in Lead : lead[l] = "clear"}]
    BY <1>2 DEF Dispatch
  <2>2. call[c] \in Kind
    BY <1>2 DEF Dispatch
  <2>3. QED
    BY <1>2, <2>1, <2>2 DEF Dispatch, Step
<1>3. ASSUME NEW c \in Call, CallFails(c) PROVE TypeOK'
  BY <1>3 DEF CallFails
<1>4. ASSUME NEW a \in Consent, Grant(a) \/ Revoke(a) PROVE TypeOK'
  BY <1>4 DEF Grant, Revoke
<1>5. ASSUME NEW l \in Lead, CreateLead(l) PROVE TypeOK'
  BY <1>5 DEF CreateLead
<1>6. ASSUME NEW r \in Request, Start(r) \/ Complete(r) PROVE TypeOK'
  BY <1>6, ExecutesType DEF Start, Complete, SetStatus, Step
<1>7. ASSUME NEW r \in Request, AnonymiseUser(r) \/ AnonymiseLeads(r) \/ RevokeConsents(r) PROVE TypeOK'
  BY <1>7, ExecutesType DEF AnonymiseUser, AnonymiseLeads, RevokeConsents, Step
<1>8. ASSUME NEW r \in Request, StatementFails(r) PROVE TypeOK'
  BY <1>8, ExecutesType DEF StatementFails
<1>9. ASSUME NEW r \in Request, Lost(r) PROVE TypeOK'
  BY <1>9 DEF Lost
<1>10. CASE UNCHANGED vars
  BY <1>10 DEF vars
<1>11. QED
  BY <1>1, <1>2, <1>3, <1>4, <1>5, <1>6, <1>7, <1>8, <1>9, <1>10 DEF Next, Calls, Work

-----------------------------------------------------------------------------
(* The jobs.                                                               *)

\* Nothing that has been done is undone, and no consent is forgotten.
LEMMA RowsStep ==
    ASSUME TypeOK, [Next]_vars
    PROVE  /\ user = "anonymised" => user' = "anonymised"
           /\ \A a \in Consent : /\ consent[a] = "revoked" => consent'[a] = "revoked"
                                 /\ consent[a] # "none" => consent'[a] # "none"
           /\ faulty \subseteq faulty'
  BY DEF TypeOK, Next, Calls, Work, vars, rows, history, CreateRequest, Dispatch, CallFails, Grant,
     Revoke, CreateLead, Start, AnonymiseUser, AnonymiseLeads, RevokeConsents, Complete,
     StatementFails, Lost

\* A request whose job starts is new; otherwise its kind and what is due of it stay.
LEMMA RequestStep ==
    ASSUME TypeOK, [Next]_vars, NEW r \in Request
    PROVE  \/ job'[r] = "start" /\ request'[r].status = "pending"
              /\ due'[r] = {a \in Consent : consent[a] = "active"} \cup {l \in Lead : lead[l] = "clear"}
              /\ UNCHANGED consent
           \/ request'[r].kind = request[r].kind /\ due'[r] = due[r]
  BY DEF TypeOK, Next, Calls, Work, vars, rows, history, CreateRequest, Dispatch, CallFails, Grant,
     Revoke, CreateLead, Start, AnonymiseUser, AnonymiseLeads, RevokeConsents, Complete,
     StatementFails, Lost, SetStatus

\* How a job moves on.
LEMMA JobStep ==
    ASSUME TypeOK, [Next]_vars, NEW r \in Request
    PROVE  \/ job'[r] \in {"start", "none", job[r]}
           \/ AnonymiseUser(r) \/ AnonymiseLeads(r) \/ RevokeConsents(r) \/ Start(r) \/ StatementFails(r)
<1>1. ASSUME NEW s \in Request, NEW step \in Step, Executes(s, step), s # r PROVE job'[r] = job[r]
  BY <1>1 DEF Executes, TypeOK
<1>2. ASSUME Complete(r) PROVE job'[r] = "none"
  BY <1>2 DEF Complete, Executes, Follows, TypeOK
<1>3. ASSUME NEW s \in Request, s # r, Work(s) PROVE job'[r] = job[r]
  BY <1>1, <1>3 DEF Work, Start, AnonymiseUser, AnonymiseLeads, RevokeConsents, Complete, Step
<1>4. ASSUME NEW s \in Request, s # r, StatementFails(s) PROVE job'[r] = job[r]
  BY <1>1, <1>4 DEF StatementFails
<1>5. ASSUME NEW s \in Request, Lost(s) PROVE job'[r] \in {"none", job[r]}
  BY <1>5 DEF Lost, TypeOK
<1>6. CASE Calls
  BY <1>6 DEF Calls, CreateRequest, Dispatch, CallFails, Grant, Revoke, CreateLead, TypeOK
<1>7. CASE UNCHANGED vars
  BY <1>7 DEF vars
<1>8. QED
  BY <1>2, <1>3, <1>4, <1>5, <1>6, <1>7 DEF Next, Work

LEMMA NextUserDone == IInv /\ [Next]_vars => UserDone'
<1> SUFFICES ASSUME IInv, [Next]_vars, NEW r \in Request, Erasing(r)',
                    job'[r] \in {"leads", "consents", "complete"}
             PROVE  user' = "anonymised"
  BY DEF UserDone
<1> USE DEF IInv
<1>1. request'[r].kind = request[r].kind /\ Erasing(r)
  BY RequestStep, RowsStep DEF Erasing
<1>2. request[r].kind = "erase" /\ r \notin faulty'
  BY <1>1 DEF Erasing
<1>3. CASE job'[r] = job[r]
  BY <1>1, <1>3, RowsStep DEF UserDone
<1>4. CASE AnonymiseUser(r)
  BY <1>4 DEF AnonymiseUser
<1>5. CASE AnonymiseLeads(r) \/ RevokeConsents(r)
  BY <1>1, <1>5, RowsStep DEF UserDone, AnonymiseLeads, RevokeConsents, Executes
<1>6. CASE Start(r)
  BY <1>2, <1>6 DEF Start, Executes, Follows, TypeOK
<1>7. CASE StatementFails(r)
  BY <1>2, <1>7 DEF StatementFails
<1>8. QED
  BY <1>3, <1>4, <1>5, <1>6, <1>7, JobStep

LEMMA NextDueGiven == IInv /\ [Next]_vars => DueGiven'
<1> SUFFICES ASSUME IInv, [Next]_vars, NEW r \in Request, NEW a \in due'[r] \cap Consent
             PROVE  consent'[a] # "none"
  BY DEF DueGiven
<1>1. CASE due'[r] = due[r]
  BY <1>1, RowsStep DEF IInv, DueGiven
<1>2. CASE /\ due'[r] = {b \in Consent : consent[b] = "active"} \cup {l \in Lead : lead[l] = "clear"}
           /\ UNCHANGED consent
  BY <1>2
<1>3. QED
  BY <1>1, <1>2, RequestStep DEF IInv

LEMMA NextConsentsDone == IInv /\ [Next]_vars => ConsentsDone'
<1> SUFFICES ASSUME IInv, [Next]_vars, NEW r \in Request, Erasing(r)', job'[r] = "complete",
                    NEW a \in due'[r] \cap Consent
             PROVE  consent'[a] = "revoked"
  BY DEF ConsentsDone
<1> USE DEF IInv
<1>1. request'[r].kind = request[r].kind /\ due'[r] = due[r] /\ Erasing(r)
  BY RequestStep, RowsStep DEF Erasing
<1>2. request[r].kind = "erase" /\ r \notin faulty' /\ job[r] \in Step \cup {"none"}
  BY <1>1 DEF Erasing, TypeOK
<1>3. CASE job'[r] = job[r]
  BY <1>1, <1>3, RowsStep DEF ConsentsDone
<1>4. CASE AnonymiseUser(r) \/ AnonymiseLeads(r) \/ Start(r)
  BY <1>2, <1>4 DEF AnonymiseUser, AnonymiseLeads, Start, Executes, Follows, TypeOK
<1>5. CASE RevokeConsents(r)
  BY <1>1, <1>5 DEF RevokeConsents, DueGiven, TypeOK
<1>6. CASE StatementFails(r)
  BY <1>2, <1>6 DEF StatementFails
<1>7. QED
  BY <1>3, <1>4, <1>5, <1>6, JobStep

\* A request is completed by its job, and stays so.
LEMMA CompletedStep ==
    ASSUME TypeOK, [Next]_vars, NEW r \in Request, request'[r].status = "completed"
    PROVE  request[r].status = "completed" \/ Complete(r)
  BY DEF TypeOK, Next, Calls, Work, vars, rows, history, CreateRequest, Dispatch, CallFails, Grant,
     Revoke, CreateLead, Start, AnonymiseUser, AnonymiseLeads, RevokeConsents, Complete,
     StatementFails, Lost, SetStatus

LEMMA NextErasureReachesUser == IInv /\ [Next]_vars => ErasureReachesUser'
<1> SUFFICES ASSUME IInv, [Next]_vars, NEW r \in Request, Honoured(r)'
             PROVE  /\ user' = "anonymised"
                    /\ \A a \in due'[r] \cap Consent : consent'[a] = "revoked"
  BY DEF ErasureReachesUser
<1> USE DEF IInv
<1>1. request'[r].kind = request[r].kind /\ due'[r] = due[r] /\ Erasing(r)
  BY RequestStep, RowsStep DEF Honoured, Erasing
<1>2. CASE request[r].status = "completed"
  BY <1>1, <1>2, RowsStep DEF ErasureReachesUser, Honoured, Erasing
<1>3. CASE Complete(r)
  BY <1>1, <1>3, RowsStep DEF Complete, Executes, UserDone, ConsentsDone
<1>4. QED
  BY <1>2, <1>3, CompletedStep DEF Honoured

LEMMA NextIInv == IInv /\ [Next]_vars => IInv'
  BY NextTypeOK, NextUserDone, NextConsentsDone, NextDueGiven, NextErasureReachesUser DEF IInv

LEMMA Invariance == Spec => []IInv
<1>1. Init => IInv
  BY InitIInv
<1>2. IInv /\ [Next]_vars => IInv'
  BY NextIInv
<1>3. QED
  BY <1>1, <1>2, PTL DEF Spec

-----------------------------------------------------------------------------
(* Counting the open requests.                                             *)

Counted(kind) ==
    /\ IsFiniteSet(Open(kind))
    /\ Cardinality(Open(kind)) + Cardinality(Inserting(kind)) <= Cardinality(Call)

\* The request of a job that has not ended is open.
Working == \A r \in Request : job[r] # "none" => request[r].status \in {"pending", "processing"}

CInv == TypeOK /\ Working /\ \A kind \in Kind : Counted(kind)

LEMMA InitCInv == Init => CInv
<1> SUFFICES ASSUME Init, NEW kind \in Kind PROVE Counted(kind)
  BY InitIInv DEF CInv, IInv, Init, Working
<1>1. Open(kind) = {} /\ Inserting(kind) = {}
  BY DEF Init, Open, Inserting, Kind
<1>2. Cardinality(Call) \in Nat
  BY FS_CardinalityType
<1>3. QED
  BY <1>1, <1>2, FS_EmptySet DEF Counted

\* A smaller set of open requests and of calls about to insert one stays counted.
LEMMA FewerCounted ==
    ASSUME NEW kind, Counted(kind), Open(kind)' \subseteq Open(kind),
           Inserting(kind)' \subseteq Inserting(kind)
    PROVE  Counted(kind)'
<1>1. Inserting(kind) \subseteq Call /\ IsFiniteSet(Inserting(kind))
  BY FS_Subset DEF Inserting
<1>2. /\ IsFiniteSet(Open(kind)') /\ Cardinality(Open(kind)') <= Cardinality(Open(kind))
      /\ Cardinality(Inserting(kind)') <= Cardinality(Inserting(kind))
  BY <1>1, FS_Subset DEF Counted
<1>3. /\ Cardinality(Open(kind)) \in Nat /\ Cardinality(Inserting(kind)) \in Nat
      /\ Cardinality(Open(kind)') \in Nat /\ Cardinality(Inserting(kind)') \in Nat
      /\ Cardinality(Call) \in Nat
  BY <1>1, <1>2, FS_CardinalityType, FS_Subset DEF Counted
<1>4. QED
  BY <1>2, <1>3 DEF Counted

\* The look-up has found nothing open: however many calls insert, they are calls.
LEMMA CreateRequestCounted ==
    ASSUME TypeOK, NEW c \in Call, NEW kind \in Kind, CreateRequest(c, kind)
    PROVE  Counted(kind)'
<1>1. Open(kind)' = {}
  BY DEF CreateRequest, Open
<1>2. Inserting(kind)' \subseteq Call
  BY DEF Inserting
<1>3. Cardinality(Inserting(kind)') <= Cardinality(Call) /\ Cardinality(Inserting(kind)') \in Nat
  BY <1>2, FS_Subset, FS_CardinalityType
<1>4. QED
  BY <1>1, <1>3, FS_EmptySet, FS_CardinalityType DEF Counted

\* A call becomes the request it inserts.
LEMMA DispatchCounted ==
    ASSUME TypeOK, NEW c \in Call, Dispatch(c), NEW kind \in Kind, kind = call[c], Counted(kind)
    PROVE  Counted(kind)'
<1>1. PICK r \in Request : request[r].status = "none"
                           /\ request' = [request EXCEPT ![r] = [status |-> "pending", kind |-> kind]]
  BY DEF Dispatch
<1>2. Open(kind)' = Open(kind) \cup {r} /\ r \notin Open(kind)
  BY <1>1 DEF Open, TypeOK
<1>3. Inserting(kind)' = Inserting(kind) \ {c} /\ c \in Inserting(kind)
  BY DEF Inserting, Dispatch, TypeOK, Kind
<1>4. Inserting(kind) \subseteq Call /\ IsFiniteSet(Inserting(kind))
  BY FS_Subset DEF Inserting
<1>5. /\ IsFiniteSet(Open(kind)') /\ Cardinality(Open(kind)') = Cardinality(Open(kind)) + 1
  BY <1>2, FS_AddElement DEF Counted
<1>6. Cardinality(Inserting(kind)') = Cardinality(Inserting(kind)) - 1
  BY <1>3, <1>4, FS_RemoveElement
<1>7. Cardinality(Open(kind)) \in Nat /\ Cardinality(Inserting(kind)) \in Nat /\ Cardinality(Call) \in Nat
  BY <1>4, FS_CardinalityType DEF Counted
<1>8. QED
  BY <1>5, <1>6, <1>7 DEF Counted

LEMMA NextWorking == TypeOK /\ Working /\ [Next]_vars => Working'
<1> SUFFICES ASSUME TypeOK, Working, [Next]_vars, NEW r \in Request, job'[r] # "none"
             PROVE  request'[r].status \in {"pending", "processing"}
  BY DEF Working
<1> USE DEF TypeOK, Working
<1>1. ASSUME NEW c \in Call, Dispatch(c) PROVE request'[r].status \in {"pending", "processing"}
  BY <1>1 DEF Dispatch
<1>2. ASSUME NEW s \in Request, Complete(s) PROVE request'[r].status \in {"pending", "processing"}
  BY <1>2 DEF Complete, Executes, Follows, SetStatus
<1>3. ASSUME NEW s \in Request, Start(s) PROVE request'[r].status \in {"pending", "processing"}
  BY <1>3 DEF Start, Executes, SetStatus
<1>4. ASSUME NEW s \in Request, NEW step \in Step, Executes(s, step), UNCHANGED request
      PROVE  request'[r].status \in {"pending", "processing"}
  BY <1>4 DEF Executes, Step
<1>5. ASSUME NEW s \in Request, Lost(s) PROVE request'[r].status \in {"pending", "processing"}
  BY <1>5 DEF Lost
<1>6. CASE UNCHANGED <<job, request>>
  BY <1>6
<1>7. QED
  BY <1>1, <1>2, <1>3, <1>4, <1>5, <1>6 DEF Next, Calls, Work, vars, CreateRequest, CallFails,
     Grant, Revoke, CreateLead, AnonymiseUser, AnonymiseLeads, RevokeConsents, StatementFails, Step

LEMMA NextCInv == CInv /\ [Next]_vars => CInv'
<1> SUFFICES ASSUME CInv, [Next]_vars, NEW kind \in Kind PROVE Counted(kind)'
  BY NextTypeOK, NextWorking DEF CInv
<1>1. TypeOK /\ Working /\ Counted(kind)
  BY DEF CInv
<1>2. ASSUME NEW c \in Call, CreateRequest(c, kind) PROVE Counted(kind)'
  BY <1>1, <1>2, CreateRequestCounted
<1>3. ASSUME NEW c \in Call, Dispatch(c), call[c] = kind PROVE Counted(kind)'
  BY <1>1, <1>3, DispatchCounted
<1>4. ASSUME NEW c \in Call, NEW other \in Kind \ {kind}, CreateRequest(c, other) PROVE Counted(kind)'
  <2>1. Open(kind)' = Open(kind) /\ Inserting(kind)' = Inserting(kind)
    BY <1>1, <1>4 DEF CreateRequest, Open, Inserting, TypeOK, Kind
  <2>2. QED
    BY <1>1, <2>1, FewerCounted
<1>5. ASSUME NEW c \in Call, Dispatch(c), call[c] # kind PROVE Counted(kind)'
  <2>1. Open(kind)' = Open(kind) /\ Inserting(kind)' = Inserting(kind)
    BY <1>1, <1>5 DEF Dispatch, Open, Inserting, TypeOK, Kind
  <2>2. QED
    BY <1>1, <2>1, FewerCounted
<1>6. ASSUME NEW c \in Call, CallFails(c) PROVE Counted(kind)'
  <2>1. Open(kind)' = Open(kind) /\ Inserting(kind)' \subseteq Inserting(kind)
    BY <1>1, <1>6 DEF CallFails, Open, Inserting, TypeOK, Kind
  <2>2. QED
    BY <1>1, <2>1, FewerCounted
<1>7. ASSUME NEW r \in Request, Start(r) \/ Complete(r) PROVE Counted(kind)'
  <2>1. job[r] # "none" => request[r].status \in {"pending", "processing"}
    BY <1>1 DEF Working
  <2>2. Open(kind)' \subseteq Open(kind)
    BY <1>1, <1>7, <2>1 DEF Start, Complete, SetStatus, Executes, Open, TypeOK
  <2>3. Inserting(kind)' = Inserting(kind)
    BY <1>7 DEF Start, Complete, Inserting
  <2>4. QED
    BY <1>1, <2>2, <2>3, FewerCounted
<1>8. CASE UNCHANGED <<request, call>>
  <2>1. Open(kind)' = Open(kind) /\ Inserting(kind)' = Inserting(kind)
    BY <1>8 DEF Open, Inserting
  <2>2. QED
    BY <1>1, <2>1, FewerCounted
<1>9. QED
  BY <1>2, <1>3, <1>4, <1>5, <1>6, <1>7, <1>8 DEF Next, Calls, Work, vars, Grant, Revoke, CreateLead,
     AnonymiseUser, AnonymiseLeads, RevokeConsents, StatementFails, Lost

-----------------------------------------------------------------------------
(* Theorems.                                                               *)

\* The tables keep their types; in particular no export runs a statement of an erasure.
THEOREM TypeCorrect == Spec => []TypeOK
<1>1. IInv => TypeOK
  BY DEF IInv
<1>2. QED
  BY <1>1, Invariance, PTL

\* A completed erasure without an error has anonymised the user and revoked the consents
\* that were in force when it was asked for, whatever other jobs and calls do meanwhile.
THEOREM UserIsErased == Spec => []ErasureReachesUser
<1>1. IInv => ErasureReachesUser
  BY DEF IInv
<1>2. QED
  BY <1>1, Invariance, PTL

\* The look-up of createRequest does not exclude two open requests of a kind, but there
\* are never more than the calls that may be served at once.
THEOREM OpenBounded == Spec => []OpenBoundedByCalls
<1>1. Init => CInv
  BY InitCInv
<1>2. CInv /\ [Next]_vars => CInv'
  BY NextCInv
<1>3. CInv => OpenBoundedByCalls
  BY DEF CInv, Counted, OpenBoundedByCalls
<1>4. QED
  BY <1>1, <1>2, <1>3, PTL DEF Spec

-----------------------------------------------------------------------------
(* The leads.                                                              *)

\* The statement that anonymises the leads finds none, because the one before it has
\* replaced the hash they are found by: it reaches them only for a job whose own
\* statement on the users row failed.
LeadsNeedFault ==
    \A l \in Lead : lead[l] = "anonymised" => \E r \in faulty : request[r].kind = "erase"

FaultyAsked == \A r \in faulty : request[r].status # "none"

LInv == IInv /\ Working /\ FaultyAsked /\ LeadsNeedFault

\* A request that was asked for keeps its kind, and remains.
LEMMA AskedStep ==
    ASSUME TypeOK, [Next]_vars, NEW r \in Request, request[r].status # "none"
    PROVE  request'[r].status # "none" /\ request'[r].kind = request[r].kind
<1> USE DEF TypeOK
<1>1. ASSUME NEW c \in Call, Dispatch(c)
      PROVE  request'[r].status # "none" /\ request'[r].kind = request[r].kind
  BY <1>1 DEF Dispatch
<1>2. ASSUME NEW s \in Request, NEW to \in {"processing", "completed"}, SetStatus(s, to)
      PROVE  request'[r].status # "none" /\ request'[r].kind = request[r].kind
  <2>1. CASE s = r
    BY <1>2, <2>1 DEF SetStatus
  <2>2. CASE s # r
    BY <1>2, <2>2 DEF SetStatus
  <2>3. QED
    BY <2>1, <2>2
<1>3. CASE UNCHANGED request
  BY <1>3
<1>4. QED
  BY <1>1, <1>2, <1>3 DEF Next, Calls, Work, vars, CreateRequest, CallFails, Grant, Revoke, CreateLead,
     Start, AnonymiseUser, AnonymiseLeads, RevokeConsents, Complete, StatementFails, Lost

LEMMA NextFaultyAsked ==
    ASSUME TypeOK, Working, FaultyAsked, [Next]_vars
    PROVE  FaultyAsked'
<1> SUFFICES ASSUME NEW r \in faulty' PROVE request'[r].status # "none"
  BY DEF FaultyAsked
<1>1. CASE r \in faulty
  BY <1>1, AskedStep DEF FaultyAsked, TypeOK
<1>2. ASSUME NEW s \in Request, StatementFails(s) PROVE request'[r].status # "none"
  BY <1>1, <1>2 DEF StatementFails, Executes, Working, FaultyAsked, Step
<1>3. CASE UNCHANGED faulty
  BY <1>1, <1>3
<1>4. QED
  BY <1>1, <1>2, <1>3 DEF Next, Calls, Work, vars, history, CreateRequest, Dispatch, CallFails, Grant,
     Revoke, CreateLead, Start, AnonymiseUser, AnonymiseLeads, RevokeConsents, Complete, Lost

\* A lead is anonymised by a job that finds the user as it was.
LEMMA LeadStep ==
    ASSUME TypeOK, [Next]_vars, NEW l \in Lead, lead'[l] = "anonymised"
    PROVE  \/ lead[l] = "anonymised"
           \/ \E r \in Request : job[r] = "leads" /\ user = "clear"
<1> USE DEF TypeOK
<1>1. ASSUME NEW r \in Request, AnonymiseLeads(r)
      PROVE  lead[l] = "anonymised" \/ (job[r] = "leads" /\ user = "clear")
  BY <1>1 DEF AnonymiseLeads, Executes
<1>2. ASSUME NEW m \in Lead, CreateLead(m) PROVE lead[l] = "anonymised"
  BY <1>2 DEF CreateLead
<1>3. CASE UNCHANGED lead
  BY <1>3
<1>4. QED
  BY <1>1, <1>2, <1>3 DEF Next, Calls, Work, vars, rows, CreateRequest, Dispatch, CallFails, Grant,
     Revoke, Start, AnonymiseUser, RevokeConsents, Complete, StatementFails, Lost

LEMMA NextLeadsNeedFault == LInv /\ [Next]_vars => LeadsNeedFault'
<1> SUFFICES ASSUME LInv, [Next]_vars, NEW l \in Lead, lead'[l] = "anonymised"
             PROVE  \E r \in faulty' : request'[r].kind = "erase"
  BY DEF LeadsNeedFault
<1> USE DEF LInv, IInv
<1>1. PICK r \in faulty : request[r].kind = "erase"
  <2>1. CASE lead[l] = "anonymised"
    BY <2>1 DEF LeadsNeedFault
  <2>2. ASSUME NEW r \in Request, job[r] = "leads", user = "clear"
        PROVE  r \in faulty /\ request[r].kind = "erase"
    BY <2>2 DEF UserDone, Erasing, TypeOK
  <2>3. QED
    BY <2>1, <2>2, LeadStep
<1>2. r \in faulty' /\ r \in Request /\ request[r].status # "none"
  BY <1>1, RowsStep DEF FaultyAsked, TypeOK
<1>3. request'[r].kind = "erase"
  BY <1>1, <1>2, AskedStep
<1>4. QED
  BY <1>2, <1>3

\* No erasure reaches the leads of the user it is about, unless one of its statements,
\* or one of an earlier erasure, failed.
THEOREM LeadsReachedByFaultOnly == Spec => []LeadsNeedFault
<1>1. Init => LInv
  BY InitIInv DEF Init, LInv, Working, FaultyAsked, LeadsNeedFault
<1>2. LInv /\ [Next]_vars => LInv'
  BY NextIInv, NextWorking, NextFaultyAsked, NextLeadsNeedFault DEF LInv, IInv
<1>3. LInv => LeadsNeedFault
  BY DEF LInv
<1>4. QED
  BY <1>1, <1>2, <1>3, PTL DEF Spec
=============================================================================
