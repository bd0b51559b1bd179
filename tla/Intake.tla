------------------------------- MODULE Intake -------------------------------
(***************************************************************************)
(* How a document becomes an invoice (intake.py): looked up by its digest  *)
(* without a lock, put into the object store, then looked up again under   *)
(* the workspace row's lock, counted against the workspace's uploads and   *)
(* the daily quota of all workspaces, and inserted.  Uploads and checks of *)
(* the inbox take this one path.  Workspaces are created within a quota of *)
(* their own.                                                              *)
(*                                                                         *)
(* A session loads the workspace row when a request begins (auth.py), so a *)
(* request knows a count of uploads that others may have raised since.     *)
(* The days of the quotas are left out: one day.  What the invoice's first *)
(* revision and run then do is InvoiceRuns.                                *)
(***************************************************************************)
EXTENDS Integers, FiniteSets

CONSTANTS
    Workspaces,      \* workspaces that may be created
    Invoices,        \* identities of invoices
    Documents,       \* contents that may be submitted
    Requests,        \* requests served at the same time
    None,            \* a row that does not exist yet, a free lock
    SessionUploads,  \* uploads of one workspace: 40
    GlobalUploads,   \* uploads of all workspaces in a day: 300
    SessionQuota     \* workspaces created in a day: 200

ASSUME IntakeAssumption ==
    /\ IsFiniteSet(Invoices) /\ IsFiniteSet(Workspaces)
    /\ None \notin Workspaces \cup Invoices \cup Documents \cup Requests
    /\ SessionUploads \in Nat /\ GlobalUploads \in Nat /\ SessionQuota \in Nat

VARIABLES
    invoices,    \* the invoice table, keyed by id; workspace = None: no such row yet
    workspaces,  \* the workspace table, keyed by id
    quota,       \* the two counters of the day
    objects,     \* invoices whose source is in the object store
    locks,       \* per workspace, the request that holds its row
    quotaLock,   \* the request that holds the row of the uploads' quota
    requests     \* where each request stands

vars == <<invoices, workspaces, quota, objects, locks, quotaLock, requests>>

InvoiceRow == [workspace: Workspaces \cup {None}, document: Documents \cup {None}]

WorkspaceRow == [created: BOOLEAN, uploads: Nat]

(* received: loaded and looked up without a lock; stored: the source was   *)
(* put; locked: the workspace row held; charged: the quota's row too.      *)
RequestRow ==
    [step: {"idle", "received", "stored", "locked", "charged"},
     workspace: Workspaces \cup {None},
     document: Documents \cup {None},
     invoice: Invoices \cup {None},
     uploads: Nat]

Idle == [step |-> "idle", workspace |-> None, document |-> None, invoice |-> None, uploads |-> 0]

Init ==
    /\ invoices = [i \in Invoices |-> [workspace |-> None, document |-> None]]
    /\ workspaces = [w \in Workspaces |-> [created |-> FALSE, uploads |-> 0]]
    /\ quota = [uploads |-> 0, sessions |-> 0]
    /\ objects = {}
    /\ locks = [w \in Workspaces |-> None]
    /\ quotaLock = None
    /\ requests = [q \in Requests |-> Idle]

-----------------------------------------------------------------------------
Submitted == {i \in Invoices : invoices[i].workspace # None}

SubmittedIn(w) == {i \in Submitted : invoices[i].workspace = w}

Created == {w \in Workspaces : workspaces[w].created}

Seen(w, document) == \E i \in SubmittedIn(w) : invoices[i].document = document

Move(q, step) == requests' = [requests EXCEPT ![q].step = step]

Release(q) ==
    /\ locks' = [w \in Workspaces |-> IF locks[w] = q THEN None ELSE locks[w]]
    /\ quotaLock' = IF quotaLock = q THEN None ELSE quotaLock
    /\ requests' = [requests EXCEPT ![q] = Idle]

(* create_session: the quota and the seeded workspace in one transaction;  *)
(* beyond the quota it changes nothing.                                    *)
CreateSession(w) ==
    /\ w \notin Created
    /\ quota.sessions < SessionQuota
    /\ quota' = [quota EXCEPT !.sessions = quota.sessions + 1]
    /\ workspaces' = [workspaces EXCEPT ![w].created = TRUE]
    /\ UNCHANGED <<invoices, objects, locks, quotaLock, requests>>

-----------------------------------------------------------------------------
(* submit_invoice for a readable document that the first lookup does not   *)
(* find; uid() gives the invoice an identity of its own.                   *)
Unused(i) == i \notin Submitted /\ \A q \in Requests : requests[q].invoice # i

Receive(q, w, document, i) ==
    /\ requests[q].step = "idle"
    /\ w \in Created
    /\ ~Seen(w, document)
    /\ Unused(i)
    /\ requests' = [requests EXCEPT ![q] =
          [step |-> "received", workspace |-> w, document |-> document, invoice |-> i,
           uploads |-> workspaces[w].uploads]]
    /\ UNCHANGED <<invoices, workspaces, quota, objects, locks, quotaLock>>

(* Mutated form of Store: the source is put after the commit. *)
StoreLater(q) ==
    /\ requests[q].step = "received"
    /\ Move(q, "stored")
    /\ UNCHANGED <<invoices, workspaces, quota, objects, locks, quotaLock>>

Store(q) ==
    /\ requests[q].step = "received"
    /\ objects' = objects \cup {requests[q].invoice}
    /\ Move(q, "stored")
    /\ UNCHANGED <<invoices, workspaces, quota, locks, quotaLock>>

(* Mutated form of LockWorkspace: the loaded row is not refreshed. *)
LockWorkspaceStale(q) ==
    /\ requests[q].step = "stored"
    /\ locks[requests[q].workspace] = None
    /\ locks' = [locks EXCEPT ![requests[q].workspace] = q]
    /\ Move(q, "locked")
    /\ UNCHANGED <<invoices, workspaces, quota, objects, quotaLock>>

(* Mutated form of LockWorkspace: the row is read without FOR UPDATE. *)
LockWorkspaceShared(q) ==
    /\ requests[q].step = "stored"
    /\ requests' = [requests EXCEPT ![q].step = "locked",
                                    ![q].uploads = workspaces[requests[q].workspace].uploads]
    /\ UNCHANGED <<invoices, workspaces, quota, objects, locks, quotaLock>>

(* The workspace row is locked and its attributes are loaded again. *)
LockWorkspace(q) ==
    /\ requests[q].step = "stored"
    /\ locks[requests[q].workspace] = None
    /\ locks' = [locks EXCEPT ![requests[q].workspace] = q]
    /\ requests' = [requests EXCEPT ![q].step = "locked",
                                    ![q].uploads = workspaces[requests[q].workspace].uploads]
    /\ UNCHANGED <<invoices, workspaces, quota, objects, quotaLock>>

(* Mutated form of Charge: the document is not looked up again. *)
ChargeTrusting(q) ==
    /\ requests[q].step = "locked"
    /\ requests[q].uploads < SessionUploads
    /\ quotaLock = None
    /\ quota.uploads < GlobalUploads
    /\ quotaLock' = q
    /\ Move(q, "charged")
    /\ UNCHANGED <<invoices, workspaces, quota, objects, locks>>

(* The document is still new, the workspace may upload, and the quota's    *)
(* upsert, which waits for whoever charged it before, stays in the limit.  *)
(* The raised count is visible to others at the commit.                    *)
Charge(q) ==
    /\ requests[q].step = "locked"
    /\ ~Seen(requests[q].workspace, requests[q].document)
    /\ requests[q].uploads < SessionUploads
    /\ quotaLock = None
    /\ quota.uploads < GlobalUploads
    /\ quotaLock' = q
    /\ Move(q, "charged")
    /\ UNCHANGED <<invoices, workspaces, quota, objects, locks>>

(* Mutated form of Refuse: the refused request's count is committed. *)
RefuseKept(q) ==
    /\ requests[q].step = "locked"
    /\ \/ Seen(requests[q].workspace, requests[q].document)
       \/ requests[q].uploads >= SessionUploads
       \/ quotaLock = None /\ quota.uploads >= GlobalUploads
    /\ quota' = [quota EXCEPT !.uploads = quota.uploads + 1]
    /\ Release(q)
    /\ UNCHANGED <<invoices, workspaces, objects>>

(* Already submitted meanwhile (answered with the other invoice), or over  *)
(* one of the limits; the transaction is rolled back.                      *)
Refuse(q) ==
    /\ requests[q].step = "locked"
    /\ \/ Seen(requests[q].workspace, requests[q].document)
       \/ requests[q].uploads >= SessionUploads
       \/ quotaLock = None /\ quota.uploads >= GlobalUploads
    /\ Release(q)
    /\ UNCHANGED <<invoices, workspaces, quota, objects>>

(* The invoice with its revision, run, event and audit entry; the session  *)
(* writes the count it computed from the row it loaded.                    *)
Commit(q) ==
    /\ requests[q].step = "charged"
    /\ invoices' = [invoices EXCEPT ![requests[q].invoice] =
          [workspace |-> requests[q].workspace, document |-> requests[q].document]]
    /\ workspaces' = [workspaces EXCEPT ![requests[q].workspace].uploads = requests[q].uploads + 1]
    /\ quota' = [quota EXCEPT !.uploads = quota.uploads + 1]
    /\ Release(q)
    /\ UNCHANGED objects

(* The store or the database fails, or the process ends. *)
Abort(q) ==
    /\ requests[q].step # "idle"
    /\ Release(q)
    /\ UNCHANGED <<invoices, workspaces, quota, objects>>

Next ==
    \/ \E w \in Workspaces : CreateSession(w)
    \/ \E q \in Requests, w \in Workspaces, document \in Documents, i \in Invoices :
          Receive(q, w, document, i)
    \/ \E q \in Requests :
          Store(q) \/ LockWorkspace(q) \/ Charge(q) \/ Refuse(q) \/ Commit(q) \/ Abort(q)

Spec == Init /\ [][Next]_vars

-----------------------------------------------------------------------------
(* Types; a request holds the rows it locked, and only those.              *)
TypeOK ==
    /\ invoices \in [Invoices -> InvoiceRow]
    /\ workspaces \in [Workspaces -> WorkspaceRow]
    /\ quota \in [uploads: Nat, sessions: Nat]
    /\ objects \in SUBSET Invoices
    /\ locks \in [Workspaces -> Requests \cup {None}]
    /\ quotaLock \in Requests \cup {None}
    /\ requests \in [Requests -> RequestRow]
    /\ \A q \in Requests, w \in Workspaces :
          locks[w] = q <=> requests[q].step \in {"locked", "charged"} /\ requests[q].workspace = w
    /\ \A q \in Requests : quotaLock = q <=> requests[q].step = "charged"

(* A document submitted several times at once makes one invoice; what the  *)
(* unique constraint would refuse with an error never reaches it           *)
(* (intake.py:57).                                                         *)
OneInvoicePerDocument ==
    \A i, j \in Submitted :
        invoices[i].workspace = invoices[j].workspace /\ invoices[i].document = invoices[j].document
        => i = j

(* The workspace's counter is what it counts, and within the limit, also   *)
(* when uploads of other documents ran since the session was loaded        *)
(* (intake.py:56).                                                         *)
UploadsAreCounted ==
    \A w \in Workspaces :
        /\ workspaces[w].uploads = Cardinality(SubmittedIn(w))
        /\ workspaces[w].uploads <= SessionUploads

(* Refused uploads are not charged to the day's quotas, accepted ones and  *)
(* new workspaces are (intake.py:68, main.py:133).                         *)
QuotaIsCharged ==
    /\ quota.uploads = Cardinality(Submitted) /\ quota.uploads <= GlobalUploads
    /\ quota.sessions = Cardinality(Created) /\ quota.sessions <= SessionQuota

(* Whatever is refused, aborted or overtaken, an upload counts exactly if  *)
(* its invoice is there, once in its workspace and once in the day's quota. *)
CountersAgree == UploadsAreCounted /\ QuotaIsCharged

(* Every invoice's source can be read by its worker (intake.py:46).        *)
SubmittedIsStored == Submitted \subseteq objects
=============================================================================
