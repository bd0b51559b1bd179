---------------------------- MODULE IntakeProofs ----------------------------
(***************************************************************************)
(* Proofs about Intake, for any finite sets of workspaces and invoices,    *)
(* any documents and requests, and any limits.                             *)
(***************************************************************************)
EXTENDS Intake, FiniteSetTheorems, TLAPS

Busy(q) == requests[q].step # "idle"

(* A request keeps an invoice identity that nobody else has.               *)
BusyAreFilled ==
    \A q \in Requests : Busy(q) =>
        /\ requests[q].workspace \in Workspaces
        /\ requests[q].document \in Documents
        /\ requests[q].invoice \in Invoices \ Submitted

IdentitiesDistinct ==
    \A p, q \in Requests : Busy(p) /\ Busy(q) /\ requests[p].invoice = requests[q].invoice => p = q

SourcesArePut ==
    \A q \in Requests : requests[q].step \in {"stored", "locked", "charged"} => requests[q].invoice \in objects

(* Under the workspace's lock the loaded row is the row.                   *)
RowsAreFresh ==
    \A q \in Requests : requests[q].step \in {"locked", "charged"} =>
        requests[q].uploads = workspaces[requests[q].workspace].uploads

ChargedAreChecked ==
    \A q \in Requests : requests[q].step = "charged" =>
        /\ ~Seen(requests[q].workspace, requests[q].document)
        /\ requests[q].uploads < SessionUploads
        /\ quota.uploads < GlobalUploads

IntakeInv ==
    /\ TypeOK
    /\ BusyAreFilled
    /\ IdentitiesDistinct
    /\ SourcesArePut
    /\ RowsAreFresh
    /\ ChargedAreChecked
    /\ OneInvoicePerDocument
    /\ UploadsAreCounted
    /\ QuotaIsCharged
    /\ SubmittedIsStored

-----------------------------------------------------------------------------
LEMMA SetsAreFinite ==
    /\ IsFiniteSet(Submitted) /\ Cardinality(Submitted) \in Nat
    /\ IsFiniteSet(Created) /\ Cardinality(Created) \in Nat
    /\ \A w \in Workspaces : IsFiniteSet(SubmittedIn(w)) /\ Cardinality(SubmittedIn(w)) \in Nat
<1>1. /\ Submitted \subseteq Invoices /\ Created \subseteq Workspaces
      /\ \A w \in Workspaces : SubmittedIn(w) \subseteq Invoices
    BY DEF Submitted, Created, SubmittedIn
<1> QED BY <1>1, IntakeAssumption, FS_Subset, FS_CardinalityType

LEMMA InitIntakeInv == Init => IntakeInv
<1> SUFFICES ASSUME Init PROVE IntakeInv
    OBVIOUS
<1> USE IntakeAssumption
<1>1. TypeOK
    BY DEF Init, TypeOK, InvoiceRow, WorkspaceRow, RequestRow, Idle
<1>2. Submitted = {} /\ Created = {} /\ \A w \in Workspaces : SubmittedIn(w) = {}
    BY DEF Init, Submitted, Created, SubmittedIn
<1>3. Cardinality({}) = 0
    BY FS_EmptySet
<1>4. OneInvoicePerDocument /\ UploadsAreCounted /\ QuotaIsCharged /\ SubmittedIsStored
    BY <1>2, <1>3 DEF Init, OneInvoicePerDocument, UploadsAreCounted, QuotaIsCharged, SubmittedIsStored
<1>5. BusyAreFilled /\ IdentitiesDistinct /\ SourcesArePut /\ RowsAreFresh /\ ChargedAreChecked
    BY DEF Init, Idle, Busy, BusyAreFilled, IdentitiesDistinct, SourcesArePut, RowsAreFresh, ChargedAreChecked
<1> QED BY <1>1, <1>4, <1>5 DEF IntakeInv

-----------------------------------------------------------------------------
(* Requests that leave: their locks are free afterwards, nothing else of   *)
(* the requests changes.                                                   *)
LEMMA ReleaseIsTyped ==
    ASSUME TypeOK, NEW q \in Requests, Release(q)
    PROVE  /\ requests' = [requests EXCEPT ![q] = Idle]
           /\ requests' \in [Requests -> RequestRow]
           /\ locks' \in [Workspaces -> Requests \cup {None}]
           /\ quotaLock' \in Requests \cup {None}
           /\ \A p \in Requests, w \in Workspaces :
                 locks'[w] = p <=> requests'[p].step \in {"locked", "charged"} /\ requests'[p].workspace = w
           /\ \A p \in Requests : quotaLock' = p <=> requests'[p].step = "charged"
<1> USE IntakeAssumption DEF TypeOK
<1>1. requests' = [requests EXCEPT ![q] = Idle]
    BY DEF Release
<1>2. Idle \in RequestRow
    BY DEF Idle, RequestRow
<1>3. requests'[q] = Idle /\ \A p \in Requests \ {q} : requests'[p] = requests[p]
    BY <1>1
<1>4. \A w \in Workspaces : locks'[w] = IF locks[w] = q THEN None ELSE locks[w]
    BY DEF Release
<1>5. locks' \in [Workspaces -> Requests \cup {None}]
    BY DEF Release
<1>6. quotaLock' = IF quotaLock = q THEN None ELSE quotaLock
    BY DEF Release
<1>7. \A p \in Requests, w \in Workspaces :
          locks'[w] = p <=> requests'[p].step \in {"locked", "charged"} /\ requests'[p].workspace = w
  <2> SUFFICES ASSUME NEW p \in Requests, NEW w \in Workspaces
               PROVE  locks'[w] = p <=> requests'[p].step \in {"locked", "charged"} /\ requests'[p].workspace = w
      OBVIOUS
  <2>1. CASE p = q
      BY <1>3, <1>4, <2>1 DEF Idle
  <2>2. CASE p # q
      BY <1>3, <1>4, <2>2
  <2> QED BY <2>1, <2>2
<1>8. \A p \in Requests : quotaLock' = p <=> requests'[p].step = "charged"
    BY <1>3, <1>6 DEF Idle
<1> QED BY <1>1, <1>2, <1>5, <1>6, <1>7, <1>8

LEMMA WorkspaceRowUpdates ==
    ASSUME NEW f \in [Workspaces -> WorkspaceRow], NEW w \in Workspaces, NEW n \in Nat
    PROVE  /\ [f EXCEPT ![w].created = TRUE] \in [Workspaces -> WorkspaceRow]
           /\ [f EXCEPT ![w].uploads = n] \in [Workspaces -> WorkspaceRow]
    BY DEF WorkspaceRow

LEMMA RequestRowUpdates ==
    ASSUME NEW f \in [Requests -> RequestRow], NEW q \in Requests, NEW n \in Nat
    PROVE  [f EXCEPT ![q].step = "locked", ![q].uploads = n] \in [Requests -> RequestRow]
    BY DEF RequestRow

LEMMA WorkspaceRowFields ==
    ASSUME NEW f \in [Workspaces -> WorkspaceRow], NEW w \in Workspaces, NEW n \in Nat, NEW v \in Workspaces
    PROVE  /\ [f EXCEPT ![w].created = TRUE][v].uploads = f[v].uploads
           /\ [f EXCEPT ![w].created = TRUE][v].created <=> v = w \/ f[v].created
           /\ [f EXCEPT ![w].uploads = n][v].uploads = IF v = w THEN n ELSE f[v].uploads
           /\ [f EXCEPT ![w].uploads = n][v].created <=> f[v].created
    BY DEF WorkspaceRow

LEMMA TypesPreserved == TypeOK /\ BusyAreFilled /\ [Next]_vars => TypeOK'
<1> SUFFICES ASSUME TypeOK, BusyAreFilled, [Next]_vars PROVE TypeOK'
    OBVIOUS
<1> USE IntakeAssumption
<1>1. ASSUME NEW w \in Workspaces, CreateSession(w) PROVE TypeOK'
  <2>1. workspaces' \in [Workspaces -> WorkspaceRow]
      BY <1>1, WorkspaceRowUpdates DEF CreateSession, TypeOK
  <2>2. quota' \in [uploads: Nat, sessions: Nat]
      BY <1>1 DEF CreateSession, TypeOK
  <2> QED BY <1>1, <2>1, <2>2 DEF CreateSession, TypeOK
<1>2. ASSUME NEW q \in Requests, NEW w \in Workspaces, NEW c \in Documents, NEW i \in Invoices,
             Receive(q, w, c, i)
      PROVE  TypeOK'
  <2>1. workspaces[w].uploads \in Nat
      BY DEF TypeOK, WorkspaceRow
  <2> DEFINE row == [step |-> "received", workspace |-> w, document |-> c, invoice |-> i,
                     uploads |-> workspaces[w].uploads]
  <2>2. row \in RequestRow
      BY <2>1 DEF RequestRow
  <2>3. requests' = [requests EXCEPT ![q] = row] /\ requests[q].step = "idle"
      BY <1>2 DEF Receive
  <2>4. requests'[q].step = "received" /\ \A p \in Requests \ {q} : requests'[p] = requests[p]
      BY <2>3 DEF TypeOK
  <2>5. UNCHANGED <<invoices, workspaces, quota, objects, locks, quotaLock>>
      BY <1>2 DEF Receive
  <2>6. requests' \in [Requests -> RequestRow]
      BY <2>2, <2>3 DEF TypeOK
  <2> HIDE DEF row
  <2>7. \A p \in Requests, v \in Workspaces :
            locks'[v] = p <=> requests'[p].step \in {"locked", "charged"} /\ requests'[p].workspace = v
    <3> SUFFICES ASSUME NEW p \in Requests, NEW v \in Workspaces
                 PROVE  locks'[v] = p <=> requests'[p].step \in {"locked", "charged"} /\ requests'[p].workspace = v
        OBVIOUS
    <3>1. CASE p = q
        BY <2>3, <2>4, <2>5, <3>1 DEF TypeOK
    <3>2. CASE p # q
        BY <2>4, <2>5, <3>2 DEF TypeOK
    <3> QED BY <3>1, <3>2
  <2>8. \A p \in Requests : quotaLock' = p <=> requests'[p].step = "charged"
      BY <2>3, <2>4, <2>5 DEF TypeOK
  <2>9. /\ invoices' \in [Invoices -> InvoiceRow]
        /\ workspaces' \in [Workspaces -> WorkspaceRow]
        /\ quota' \in [uploads: Nat, sessions: Nat]
        /\ objects' \in SUBSET Invoices
        /\ locks' \in [Workspaces -> Requests \cup {None}]
        /\ quotaLock' \in Requests \cup {None}
      BY <2>5 DEF TypeOK
  <2> QED BY <2>6, <2>7, <2>8, <2>9 DEF TypeOK
<1>3. ASSUME NEW q \in Requests, Store(q) PROVE TypeOK'
    BY <1>3 DEF Store, Move, TypeOK, RequestRow, BusyAreFilled, Busy
<1>4. ASSUME NEW q \in Requests, LockWorkspace(q) PROVE TypeOK'
  <2> DEFINE w == requests[q].workspace
  <2>1. w \in Workspaces
      BY <1>4 DEF LockWorkspace, BusyAreFilled, Busy
  <2>2. workspaces[w].uploads \in Nat
      BY <2>1 DEF TypeOK, WorkspaceRow
  <2>3. /\ locks' = [locks EXCEPT ![w] = q] /\ locks[w] = None /\ requests[q].step = "stored"
        /\ requests' = [requests EXCEPT ![q].step = "locked", ![q].uploads = workspaces[w].uploads]
        /\ UNCHANGED <<invoices, workspaces, quota, objects, quotaLock>>
      BY <1>4 DEF LockWorkspace
  <2>4. requests' \in [Requests -> RequestRow]
    <3>1. PICK n \in Nat : n = workspaces[w].uploads
        BY <2>2
    <3>2. requests' = [requests EXCEPT ![q].step = "locked", ![q].uploads = n]
        BY <2>3, <3>1
    <3>3. requests \in [Requests -> RequestRow]
        BY DEF TypeOK
    <3>4. [requests EXCEPT ![q].step = "locked", ![q].uploads = n] \in [Requests -> RequestRow]
        BY <3>3, RequestRowUpdates
    <3> QED BY <3>2, <3>4
  <2>5. /\ requests'[q].step = "locked" /\ requests'[q].workspace = w
        /\ \A p \in Requests \ {q} : requests'[p] = requests[p]
      BY <2>3 DEF TypeOK, RequestRow
  <2>6. /\ locks' \in [Workspaces -> Requests \cup {None}] /\ locks'[w] = q
        /\ \A v \in Workspaces \ {w} : locks'[v] = locks[v]
      BY <2>1, <2>3 DEF TypeOK
  <2>7. \A p \in Requests, v \in Workspaces :
            locks'[v] = p <=> requests'[p].step \in {"locked", "charged"} /\ requests'[p].workspace = v
    <3> SUFFICES ASSUME NEW p \in Requests, NEW v \in Workspaces
                 PROVE  locks'[v] = p <=> requests'[p].step \in {"locked", "charged"} /\ requests'[p].workspace = v
        OBVIOUS
    <3> HIDE DEF w
    <3>1. CASE p = q
        BY <2>3, <2>5, <2>6, <3>1 DEF TypeOK
    <3>2. CASE p # q
        BY <2>1, <2>3, <2>5, <2>6, <3>2 DEF TypeOK
    <3> QED BY <3>1, <3>2
  <2>8. \A p \in Requests : quotaLock' = p <=> requests'[p].step = "charged"
      BY <2>3, <2>5 DEF TypeOK
  <2> QED BY <2>3, <2>4, <2>6, <2>7, <2>8 DEF TypeOK
<1>5. ASSUME NEW q \in Requests, Charge(q) PROVE TypeOK'
    BY <1>5 DEF Charge, Move, TypeOK, RequestRow
<1>6. ASSUME NEW q \in Requests, Refuse(q) \/ Abort(q) PROVE TypeOK'
  <2>1. Release(q) /\ UNCHANGED <<invoices, workspaces, quota, objects>>
      BY <1>6 DEF Refuse, Abort
  <2> QED BY <2>1, ReleaseIsTyped DEF TypeOK
<1>7. ASSUME NEW q \in Requests, Commit(q) PROVE TypeOK'
  <2>1. /\ requests[q].workspace \in Workspaces /\ requests[q].document \in Documents
        /\ requests[q].invoice \in Invoices
      BY <1>7 DEF Commit, BusyAreFilled, Busy
  <2>2. requests[q].uploads + 1 \in Nat
      BY DEF TypeOK, RequestRow
  <2>3. invoices' \in [Invoices -> InvoiceRow]
      BY <1>7, <2>1 DEF Commit, TypeOK, InvoiceRow
  <2>4. workspaces' \in [Workspaces -> WorkspaceRow]
      BY <1>7, <2>1, <2>2 DEF Commit, TypeOK, WorkspaceRow
  <2>5. quota' \in [uploads: Nat, sessions: Nat]
      BY <1>7 DEF Commit, TypeOK
  <2>6. Release(q)
      BY <1>7 DEF Commit
  <2> QED BY <1>7, <2>3, <2>4, <2>5, <2>6, ReleaseIsTyped DEF Commit, TypeOK
<1>8. CASE UNCHANGED vars
    BY <1>8 DEF vars, TypeOK
<1> QED BY <1>1, <1>2, <1>3, <1>4, <1>5, <1>6, <1>7, <1>8 DEF Next

-----------------------------------------------------------------------------
(* The invariant.                                                          *)

(* Steps of one request that write no table, no counter and no object.     *)
LEMMA QuietPreserves ==
    ASSUME IntakeInv, TypeOK', NEW q \in Requests,
           \/ \E w \in Workspaces, c \in Documents, i \in Invoices : Receive(q, w, c, i)
           \/ LockWorkspace(q) \/ Charge(q) \/ Refuse(q) \/ Abort(q)
    PROVE  IntakeInv'
<1> USE DEF IntakeInv
<1>1. UNCHANGED <<invoices, workspaces, quota, objects>>
    BY DEF Receive, LockWorkspace, Charge, Refuse, Abort
<1>2. /\ Submitted' = Submitted /\ Created' = Created
      /\ \A w : SubmittedIn(w)' = SubmittedIn(w)
      /\ \A w, c : Seen(w, c)' = Seen(w, c)
    BY <1>1 DEF Submitted, Created, SubmittedIn, Seen
<1>3. OneInvoicePerDocument' /\ UploadsAreCounted' /\ QuotaIsCharged' /\ SubmittedIsStored'
    BY <1>1, <1>2 DEF OneInvoicePerDocument, UploadsAreCounted, QuotaIsCharged, SubmittedIsStored
<1>4. \A p \in Requests \ {q} : requests'[p] = requests[p]
    BY DEF Receive, LockWorkspace, Charge, Refuse, Abort, Move, Release, TypeOK
<1>5. CASE \E w \in Workspaces, c \in Documents, i \in Invoices : Receive(q, w, c, i)
  <2>1. PICK w \in Workspaces, c \in Documents, i \in Invoices : Receive(q, w, c, i)
      BY <1>5
  <2>2. /\ requests'[q].step = "received" /\ requests'[q].workspace = w
        /\ requests'[q].document = c /\ requests'[q].invoice = i
      BY <2>1 DEF Receive, TypeOK
  <2>3. i \notin Submitted /\ \A p \in Requests : requests[p].invoice # i
      BY <2>1 DEF Receive, Unused
  <2>4. BusyAreFilled'
      BY <1>2, <1>4, <2>2, <2>3 DEF BusyAreFilled, Busy
  <2>5. IdentitiesDistinct'
      BY <1>4, <2>2, <2>3 DEF IdentitiesDistinct, Busy
  <2>6. SourcesArePut' /\ RowsAreFresh' /\ ChargedAreChecked'
      BY <1>1, <1>2, <1>4, <2>2 DEF SourcesArePut, RowsAreFresh, ChargedAreChecked
  <2> QED BY <1>3, <2>4, <2>5, <2>6
<1>6. CASE LockWorkspace(q) \/ Charge(q)
  <2>1. /\ requests[q].step \in {"stored", "locked"}
        /\ requests'[q].step \in {"locked", "charged"}
        /\ requests'[q].workspace = requests[q].workspace
        /\ requests'[q].document = requests[q].document
        /\ requests'[q].invoice = requests[q].invoice
      BY <1>6 DEF LockWorkspace, Charge, Move, TypeOK, RequestRow
  <2>2. BusyAreFilled' /\ IdentitiesDistinct' /\ SourcesArePut'
      BY <1>1, <1>2, <1>4, <2>1 DEF BusyAreFilled, IdentitiesDistinct, SourcesArePut, Busy
  <2>3. RowsAreFresh'
    <3>1. requests'[q].uploads = workspaces[requests[q].workspace].uploads
        BY <1>6 DEF LockWorkspace, Charge, Move, TypeOK, RequestRow, RowsAreFresh
    <3> QED BY <1>1, <1>4, <2>1, <3>1 DEF RowsAreFresh
  <2>4. requests'[q].step = "charged" =>
            /\ ~Seen(requests'[q].workspace, requests'[q].document)
            /\ requests'[q].uploads < SessionUploads
            /\ quota.uploads < GlobalUploads
      BY <1>6 DEF LockWorkspace, Charge, Move, TypeOK, RequestRow
  <2>5. ChargedAreChecked'
      BY <1>1, <1>2, <1>4, <2>4 DEF ChargedAreChecked
  <2> QED BY <1>3, <2>2, <2>3, <2>5
<1>7. CASE Refuse(q) \/ Abort(q)
  <2>1. requests'[q].step = "idle"
      BY <1>7 DEF Refuse, Abort, Release, Idle, TypeOK
  <2>2. BusyAreFilled' /\ IdentitiesDistinct' /\ SourcesArePut' /\ RowsAreFresh' /\ ChargedAreChecked'
      BY <1>1, <1>2, <1>4, <2>1 DEF BusyAreFilled, IdentitiesDistinct, SourcesArePut, RowsAreFresh,
         ChargedAreChecked, Busy
  <2> QED BY <1>3, <2>2
<1> QED BY <1>5, <1>6, <1>7

LEMMA StorePreserves ==
    ASSUME IntakeInv, TypeOK', NEW q \in Requests, Store(q)
    PROVE  IntakeInv'
<1> USE DEF IntakeInv
<1>1. UNCHANGED <<invoices, workspaces, quota>> /\ objects' = objects \cup {requests[q].invoice}
    BY DEF Store
<1>2. /\ Submitted' = Submitted /\ Created' = Created
      /\ \A w : SubmittedIn(w)' = SubmittedIn(w)
      /\ \A w, c : Seen(w, c)' = Seen(w, c)
    BY <1>1 DEF Submitted, Created, SubmittedIn, Seen
<1>3. OneInvoicePerDocument' /\ UploadsAreCounted' /\ QuotaIsCharged' /\ SubmittedIsStored'
    BY <1>1, <1>2 DEF OneInvoicePerDocument, UploadsAreCounted, QuotaIsCharged, SubmittedIsStored
<1>4. /\ \A p \in Requests \ {q} : requests'[p] = requests[p]
      /\ requests[q].step = "received" /\ requests'[q].step = "stored"
      /\ requests'[q].workspace = requests[q].workspace
      /\ requests'[q].document = requests[q].document
      /\ requests'[q].invoice = requests[q].invoice
    BY DEF Store, Move, TypeOK, RequestRow
<1>5. BusyAreFilled' /\ IdentitiesDistinct' /\ SourcesArePut' /\ RowsAreFresh' /\ ChargedAreChecked'
    BY <1>1, <1>2, <1>4 DEF BusyAreFilled, IdentitiesDistinct, SourcesArePut, RowsAreFresh,
       ChargedAreChecked, Busy
<1> QED BY <1>3, <1>5

LEMMA CreateSessionPreserves ==
    ASSUME IntakeInv, TypeOK', NEW w \in Workspaces, CreateSession(w)
    PROVE  IntakeInv'
<1> USE DEF IntakeInv
<1>1. /\ UNCHANGED <<invoices, objects, requests>>
      /\ quota'.uploads = quota.uploads /\ quota'.sessions = quota.sessions + 1
    BY DEF CreateSession, TypeOK
<1>2. \A v \in Workspaces : /\ workspaces'[v].uploads = workspaces[v].uploads
                            /\ workspaces'[v].created <=> v = w \/ workspaces[v].created
    BY WorkspaceRowFields DEF CreateSession, TypeOK
<1>3. /\ Submitted' = Submitted
      /\ \A v : SubmittedIn(v)' = SubmittedIn(v)
      /\ \A v, c : Seen(v, c)' = Seen(v, c)
    BY <1>1 DEF Submitted, SubmittedIn, Seen
<1>4. Created' = Created \cup {w} /\ w \notin Created
    BY <1>2 DEF Created, CreateSession
<1>5. Cardinality(Created') = Cardinality(Created) + 1
    BY <1>4, SetsAreFinite, FS_AddElement
<1>6. QuotaIsCharged'
    BY <1>1, <1>3, <1>5, SetsAreFinite, IntakeAssumption DEF QuotaIsCharged, CreateSession
<1>7. OneInvoicePerDocument' /\ SubmittedIsStored' /\ UploadsAreCounted'
    BY <1>1, <1>2, <1>3 DEF OneInvoicePerDocument, SubmittedIsStored, UploadsAreCounted
<1>8. BusyAreFilled' /\ IdentitiesDistinct' /\ SourcesArePut'
    BY <1>1, <1>3 DEF BusyAreFilled, IdentitiesDistinct, SourcesArePut, Busy
<1>9. RowsAreFresh'
    BY <1>1, <1>2 DEF RowsAreFresh, BusyAreFilled, Busy
<1>10. ChargedAreChecked'
    BY <1>1, <1>3 DEF ChargedAreChecked
<1> QED BY <1>6, <1>7, <1>8, <1>9, <1>10

LEMMA CommitPreserves ==
    ASSUME IntakeInv, TypeOK', NEW q \in Requests, Commit(q)
    PROVE  IntakeInv'
<1> USE DEF IntakeInv
<1>1. PICK w \in Workspaces, c \in Documents, i \in Invoices :
          /\ requests[q].workspace = w /\ requests[q].document = c /\ requests[q].invoice = i
          /\ i \notin Submitted /\ i \in objects
    BY DEF BusyAreFilled, Busy, SourcesArePut, Commit
<1>2. /\ ~Seen(w, c) /\ requests[q].uploads < SessionUploads /\ quota.uploads < GlobalUploads
      /\ requests[q].uploads = workspaces[w].uploads /\ workspaces[w].uploads \in Nat
    BY <1>1 DEF ChargedAreChecked, RowsAreFresh, Commit, TypeOK, WorkspaceRow
<1>3. /\ \A j \in Invoices : invoices'[j] = IF j = i THEN [workspace |-> w, document |-> c] ELSE invoices[j]
      /\ quota'.uploads = quota.uploads + 1 /\ quota'.sessions = quota.sessions
      /\ objects' = objects
    BY <1>1, <1>2 DEF Commit, TypeOK
<1>31. workspaces' = [workspaces EXCEPT ![w].uploads = workspaces[w].uploads + 1]
    BY <1>1, <1>2 DEF Commit
<1>32. workspaces[w].uploads + 1 \in Nat /\ workspaces \in [Workspaces -> WorkspaceRow]
    BY <1>2 DEF TypeOK
<1>33. \A v \in Workspaces :
          /\ workspaces'[v].uploads = IF v = w THEN workspaces[w].uploads + 1 ELSE workspaces[v].uploads
          /\ workspaces'[v].created <=> workspaces[v].created
    BY <1>31, <1>32, WorkspaceRowFields
<1>4. Submitted' = Submitted \cup {i}
    BY <1>3, IntakeAssumption DEF Submitted
<1>5. /\ SubmittedIn(w)' = SubmittedIn(w) \cup {i} /\ i \notin SubmittedIn(w)
      /\ \A v \in Workspaces \ {w} : SubmittedIn(v)' = SubmittedIn(v)
    BY <1>1, <1>3, <1>4 DEF SubmittedIn, Submitted
<1>6. Created' = Created
    BY <1>33 DEF Created
<1>7. /\ Cardinality(Submitted') = Cardinality(Submitted) + 1
      /\ Cardinality(SubmittedIn(w)') = Cardinality(SubmittedIn(w)) + 1
    BY <1>1, <1>4, <1>5, SetsAreFinite, FS_AddElement
<1>8. OneInvoicePerDocument'
  <2>1. \A j \in Submitted : j # i /\ invoices'[j] = invoices[j]
                            /\ ~(invoices[j].workspace = w /\ invoices[j].document = c)
      BY <1>1, <1>2, <1>3 DEF Submitted, Seen, SubmittedIn
  <2>2. invoices'[i].workspace = w /\ invoices'[i].document = c
      BY <1>3
  <2> QED BY <1>4, <2>1, <2>2 DEF OneInvoicePerDocument
<1>9. UploadsAreCounted'
  <2>1. workspaces'[w].uploads = Cardinality(SubmittedIn(w)') /\ workspaces'[w].uploads <= SessionUploads
      BY <1>2, <1>33, <1>7, IntakeAssumption DEF UploadsAreCounted
  <2>2. \A v \in Workspaces \ {w} :
            workspaces'[v].uploads = Cardinality(SubmittedIn(v)') /\ workspaces'[v].uploads <= SessionUploads
      BY <1>33, <1>5 DEF UploadsAreCounted
  <2>3. \A v \in Workspaces :
            workspaces'[v].uploads = Cardinality(SubmittedIn(v)') /\ workspaces'[v].uploads <= SessionUploads
      BY <2>1, <2>2
  <2> QED BY <2>3 DEF UploadsAreCounted
<1>10. QuotaIsCharged'
    BY <1>2, <1>3, <1>6, <1>7, SetsAreFinite, IntakeAssumption DEF QuotaIsCharged
<1>11. SubmittedIsStored'
    BY <1>1, <1>3, <1>4 DEF SubmittedIsStored
<1>12. /\ \A p \in Requests \ {q} : requests'[p] = requests[p]
       /\ requests'[q].step = "idle"
    BY DEF Commit, Release, TypeOK, Idle
<1>13. BusyAreFilled' /\ IdentitiesDistinct' /\ SourcesArePut'
    BY <1>1, <1>3, <1>4, <1>12 DEF BusyAreFilled, IdentitiesDistinct, SourcesArePut, Busy, Commit
<1>14. \A p \in Requests \ {q} :
          /\ requests[p].step # "charged"
          /\ requests[p].step = "locked" => requests[p].workspace # w
    BY <1>1 DEF Commit, TypeOK
<1>15. RowsAreFresh'
    BY <1>33, <1>12, <1>14 DEF RowsAreFresh, BusyAreFilled, Busy
<1>16. ChargedAreChecked'
    BY <1>12, <1>14 DEF ChargedAreChecked
<1> QED BY <1>8, <1>9, <1>10, <1>11, <1>13, <1>15, <1>16

LEMMA IntakeInvPreserved == IntakeInv /\ [Next]_vars => IntakeInv'
<1> SUFFICES ASSUME IntakeInv, [Next]_vars PROVE IntakeInv'
    OBVIOUS
<1>1. TypeOK'
    BY TypesPreserved DEF IntakeInv
<1>2. ASSUME NEW w \in Workspaces, CreateSession(w) PROVE IntakeInv'
    BY <1>1, <1>2, CreateSessionPreserves
<1>3. ASSUME NEW q \in Requests,
             \/ \E w \in Workspaces, c \in Documents, i \in Invoices : Receive(q, w, c, i)
             \/ LockWorkspace(q) \/ Charge(q) \/ Refuse(q) \/ Abort(q)
      PROVE IntakeInv'
    BY <1>1, <1>3, QuietPreserves
<1>4. ASSUME NEW q \in Requests, Store(q) PROVE IntakeInv'
    BY <1>1, <1>4, StorePreserves
<1>5. ASSUME NEW q \in Requests, Commit(q) PROVE IntakeInv'
    BY <1>1, <1>5, CommitPreserves
<1>6. CASE UNCHANGED vars
    BY <1>6 DEF vars, IntakeInv, TypeOK, BusyAreFilled, IdentitiesDistinct, SourcesArePut, RowsAreFresh,
       ChargedAreChecked, Busy, Seen, OneInvoicePerDocument, UploadsAreCounted, QuotaIsCharged,
       SubmittedIsStored, Submitted, SubmittedIn, Created
<1> QED BY <1>2, <1>3, <1>4, <1>5, <1>6 DEF Next

LEMMA IntakeInvHolds == Spec => []IntakeInv
<1> QED BY InitIntakeInv, IntakeInvPreserved, PTL DEF Spec

-----------------------------------------------------------------------------
(* Rows keep their types, and requests hold exactly the rows they locked.  *)
THEOREM IntakeIsTyped == Spec => []TypeOK
<1>1. IntakeInv => TypeOK
    BY DEF IntakeInv
<1> QED BY <1>1, IntakeInvHolds, PTL

(* A document makes one invoice of a workspace (intake.py:57).             *)
THEOREM DocumentsMakeOneInvoice == Spec => []OneInvoicePerDocument
<1>1. IntakeInv => OneInvoicePerDocument
    BY DEF IntakeInv
<1> QED BY <1>1, IntakeInvHolds, PTL

(* No upload is lost from the workspace's counter (intake.py:85); the      *)
(* day's counters count what was accepted (pipeline.py:42); all within     *)
(* their limits.                                                           *)
THEOREM CountersAlwaysAgree == Spec => []CountersAgree
<1>1. IntakeInv => CountersAgree
    BY DEF IntakeInv, CountersAgree
<1> QED BY <1>1, IntakeInvHolds, PTL

(* No invoice is committed before its source is stored (intake.py:48).     *)
THEOREM SubmittedStaysStored == Spec => []SubmittedIsStored
<1>1. IntakeInv => SubmittedIsStored
    BY DEF IntakeInv
<1> QED BY <1>1, IntakeInvHolds, PTL
=============================================================================
