----------------------------- MODULE References -----------------------------
(***************************************************************************)
(* The company documents of one workspace (product.py).  save_reference    *)
(* looks a document up by its digest, counts the active ones and charges   *)
(* two daily quotas, all before the slow reading; then it locks the        *)
(* workspace row, looks and counts again, stores the objects and commits.  *)
(* A document is archived under the same lock, and saving it again brings  *)
(* the same row back.  The inbox saves its documents the same way.         *)
(*                                                                         *)
(* A document's text and pages follow from its digest and are left out.    *)
(* The days of the quotas are left out: one day.                           *)
(***************************************************************************)
EXTENDS Integers, FiniteSets

CONSTANTS
    Documents,       \* identities of company documents
    Digests,         \* contents that may be uploaded
    Requests,        \* requests served at the same time
    None,            \* a row that does not exist yet, a free lock
    Limit,           \* active documents: 20
    GlobalQuota,     \* uploads of all workspaces in a day: 300
    WorkspaceQuota   \* uploads of this workspace in a day: 30

ASSUME ReferencesAssumption ==
    /\ IsFiniteSet(Documents)
    /\ None \notin Documents \cup Digests \cup Requests
    /\ Limit \in Nat /\ GlobalQuota \in Nat /\ WorkspaceQuota \in Nat

VARIABLES
    documents,  \* the company_document table, keyed by id; digest = None: no such row yet
    objects,    \* per document, what the object store holds of it
    quota,      \* the two counters of the day, and what other workspaces used
    lock,       \* the request that holds the workspace row
    requests    \* where each request stands

vars == <<documents, objects, quota, lock, requests>>

DocumentRow == [digest: Digests \cup {None}, archived: BOOLEAN]

Parts == {"source", "pages"}

Quota == [global: Nat, workspace: Nat, others: Nat]

(* checked: looked up and counted without a lock; reading: charged;        *)
(* locked to stored: the workspace row held, the row to write chosen, its  *)
(* objects put one after the other.                                        *)
Steps == {"idle", "checked", "reading", "read", "locked", "sourced", "stored"}

RequestRow ==
    [step: Steps, digest: Digests \cup {None}, document: Documents \cup {None}]

Idle == [step |-> "idle", digest |-> None, document |-> None]

Init ==
    /\ documents = [d \in Documents |-> [digest |-> None, archived |-> FALSE]]
    /\ objects = [d \in Documents |-> {}]
    /\ quota = [global |-> 0, workspace |-> 0, others |-> 0]
    /\ lock = None
    /\ requests = [q \in Requests |-> Idle]

-----------------------------------------------------------------------------
Saved == {d \in Documents : documents[d].digest # None}

(* What documents lists. *)
Active == {d \in Saved : ~documents[d].archived}

RowsOf(digest) == {d \in Saved : documents[d].digest = digest}

HasRoom == Cardinality(Active) < Limit

Move(q, step) == requests' = [requests EXCEPT ![q].step = step]

Leave(q) == requests' = [requests EXCEPT ![q] = Idle]

(* save_reference, up to the quotas.  A document that is active already is *)
(* answered at once, and a full library refused; neither changes anything. *)
Check(q, digest) ==
    /\ requests[q].step = "idle"
    /\ RowsOf(digest) \cap Active = {}
    /\ HasRoom
    /\ requests' = [requests EXCEPT ![q] = [step |-> "checked", digest |-> digest, document |-> None]]
    /\ UNCHANGED <<documents, objects, quota, lock>>

(* Both quotas are charged in one transaction. *)
Charge(q) ==
    /\ requests[q].step = "checked"
    /\ quota.global < GlobalQuota
    /\ quota.workspace < WorkspaceQuota
    /\ quota' = [quota EXCEPT !.global = quota.global + 1, !.workspace = quota.workspace + 1]
    /\ Move(q, "reading")
    /\ UNCHANGED <<documents, objects, lock>>

(* Mutated form of ChargeRefused: the counter charged first is committed. *)
ChargeRefusedKept(q) ==
    /\ requests[q].step = "checked"
    /\ quota.global >= GlobalQuota \/ quota.workspace >= WorkspaceQuota
    /\ quota' = [quota EXCEPT !.global = IF quota.global < GlobalQuota THEN quota.global + 1 ELSE quota.global]
    /\ Leave(q)
    /\ UNCHANGED <<documents, objects, lock>>

(* consume_quota counts first and refuses then; the rollback takes back    *)
(* what either counter was charged.                                        *)
ChargeRefused(q) ==
    /\ requests[q].step = "checked"
    /\ quota.global >= GlobalQuota \/ quota.workspace >= WorkspaceQuota
    /\ Leave(q)
    /\ UNCHANGED <<documents, objects, quota, lock>>

(* Another workspace charges the common counter. *)
OthersCharge ==
    /\ quota.global < GlobalQuota
    /\ quota' = [quota EXCEPT !.global = quota.global + 1, !.others = quota.others + 1]
    /\ UNCHANGED <<documents, objects, lock, requests>>

(* read_document succeeds; when it does not, or finds no text, the request *)
(* is refused (Abort) and stays charged.                                   *)
Read(q) ==
    /\ requests[q].step = "reading"
    /\ Move(q, "read")
    /\ UNCHANGED <<documents, objects, quota, lock>>

-----------------------------------------------------------------------------
(* Mutated form of Lock: the document is not looked up again. *)
LockTrusting(q, d) ==
    /\ requests[q].step = "read"
    /\ lock = None
    /\ HasRoom
    /\ d \notin Saved
    /\ lock' = q
    /\ requests' = [requests EXCEPT ![q].step = "locked", ![q].document = d]
    /\ UNCHANGED <<documents, objects, quota>>

(* Mutated form of Lock: the active documents are not counted again. *)
LockUncounted(q, d) ==
    /\ requests[q].step = "read"
    /\ lock = None
    /\ RowsOf(requests[q].digest) \cap Active = {}
    /\ IF RowsOf(requests[q].digest) = {} THEN d \notin Saved ELSE d \in RowsOf(requests[q].digest)
    /\ lock' = q
    /\ requests' = [requests EXCEPT ![q].step = "locked", ![q].document = d]
    /\ UNCHANGED <<documents, objects, quota>>

(* Mutated form of Lock: the row is read without FOR UPDATE. *)
LockUnheld(q, d) ==
    /\ requests[q].step = "read"
    /\ RowsOf(requests[q].digest) \cap Active = {}
    /\ HasRoom
    /\ IF RowsOf(requests[q].digest) = {} THEN d \notin Saved ELSE d \in RowsOf(requests[q].digest)
    /\ requests' = [requests EXCEPT ![q].step = "locked", ![q].document = d]
    /\ UNCHANGED <<documents, objects, quota, lock>>

(* The workspace row is locked, the document looked up and the active ones *)
(* counted again; an archived row of the digest is taken, or a new one.    *)
Lock(q, d) ==
    /\ requests[q].step = "read"
    /\ lock = None
    /\ RowsOf(requests[q].digest) \cap Active = {}
    /\ HasRoom
    /\ IF RowsOf(requests[q].digest) = {} THEN d \notin Saved ELSE d \in RowsOf(requests[q].digest)
    /\ lock' = q
    /\ requests' = [requests EXCEPT ![q].step = "locked", ![q].document = d]
    /\ UNCHANGED <<documents, objects, quota>>

(* Meanwhile the document was saved, or the library filled up. *)
LockRefused(q) ==
    /\ requests[q].step = "read"
    /\ lock = None
    /\ RowsOf(requests[q].digest) \cap Active # {} \/ ~HasRoom
    /\ Leave(q)
    /\ UNCHANGED <<documents, objects, quota, lock>>

(* The source is put, then the pages; a failure in between is an Abort. *)
PutSource(q) ==
    /\ requests[q].step = "locked"
    /\ objects' = [objects EXCEPT ![requests[q].document] = @ \cup {"source"}]
    /\ Move(q, "sourced")
    /\ UNCHANGED <<documents, quota, lock>>

PutPages(q) ==
    /\ requests[q].step = "sourced"
    /\ objects' = [objects EXCEPT ![requests[q].document] = @ \cup {"pages"}]
    /\ Move(q, "stored")
    /\ UNCHANGED <<documents, quota, lock>>

(* Mutated form of Commit: committed before the objects are put. *)
CommitEarly(q) ==
    /\ requests[q].step \in {"sourced", "stored"}
    /\ documents' = [documents EXCEPT ![requests[q].document] =
                        [digest |-> requests[q].digest, archived |-> FALSE]]
    /\ lock' = None
    /\ Leave(q)
    /\ UNCHANGED <<objects, quota>>

Commit(q) ==
    /\ requests[q].step = "stored"
    /\ documents' = [documents EXCEPT ![requests[q].document] =
                        [digest |-> requests[q].digest, archived |-> FALSE]]
    /\ lock' = None
    /\ Leave(q)
    /\ UNCHANGED <<objects, quota>>

(* A failure, or the end of the process: the database rolls back, charged  *)
(* quotas and stored objects stay.                                         *)
Abort(q) ==
    /\ requests[q].step # "idle"
    /\ lock' = IF lock = q THEN None ELSE lock
    /\ Leave(q)
    /\ UNCHANGED <<documents, objects, quota>>

(* archive_document. *)
Archive(d) ==
    /\ lock = None
    /\ d \in Active
    /\ documents' = [documents EXCEPT ![d].archived = TRUE]
    /\ UNCHANGED <<objects, quota, lock, requests>>

Next ==
    \/ \E q \in Requests, digest \in Digests : Check(q, digest)
    \/ \E q \in Requests :
          \/ Charge(q) \/ ChargeRefused(q) \/ Read(q) \/ LockRefused(q)
          \/ PutSource(q) \/ PutPages(q) \/ Commit(q) \/ Abort(q)
    \/ \E q \in Requests, d \in Documents : Lock(q, d)
    \/ \E d \in Documents : Archive(d)
    \/ OthersCharge

Spec == Init /\ [][Next]_vars

-----------------------------------------------------------------------------
(* Types; the request that holds the workspace row is about to commit.     *)
TypeOK ==
    /\ documents \in [Documents -> DocumentRow]
    /\ objects \in [Documents -> SUBSET Parts]
    /\ quota \in Quota
    /\ lock \in Requests \cup {None}
    /\ requests \in [Requests -> RequestRow]
    /\ \A q \in Requests : requests[q].step \in {"locked", "sourced", "stored"} <=> lock = q

(* The library never holds more active documents than the limit, however   *)
(* many were read at the same time (product.py:511).                       *)
WithinLimit == Cardinality(Active) <= Limit

(* A digest has one row, archived or not (product.py:504).                 *)
OneRowPerDigest ==
    \A d, e \in Saved : documents[d].digest = documents[e].digest => d = e

(* The source and the pages of every document can be served: the row is    *)
(* committed after its objects (product.py:536), and an upload of the same *)
(* document that fails takes nothing away.                                 *)
SavedIsStored == \A d \in Saved : objects[d] = Parts

(* Refused uploads leave no trace in the common counter (product.py:494).  *)
QuotasAgree ==
    /\ quota.global = quota.workspace + quota.others
    /\ quota.global <= GlobalQuota
    /\ quota.workspace <= WorkspaceQuota
=============================================================================
