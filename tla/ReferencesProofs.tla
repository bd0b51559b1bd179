-------------------------- MODULE ReferencesProofs --------------------------
(***************************************************************************)
(* Proofs about References, for any finite set of documents, any contents  *)
(* and requests, and any limits.                                           *)
(***************************************************************************)
EXTENDS References, FiniteSetTheorems, TLAPS

Writing(q) == requests[q].step \in {"locked", "sourced", "stored"}

BusyHaveDigests == \A q \in Requests : requests[q].step # "idle" => requests[q].digest \in Digests

(* The row chosen under the lock is the digest's only one, or a new one,   *)
(* and the library still has room for it.                                  *)
Chosen(q) ==
    LET d == requests[q].document IN
        /\ d \in Documents \ Active
        /\ d \in Saved => documents[d].digest = requests[q].digest
        /\ \A e \in Saved : documents[e].digest = requests[q].digest => e = d
        /\ HasRoom

WritersHaveChosen == \A q \in Requests : Writing(q) => Chosen(q)

ObjectsAreAhead ==
    \A q \in Requests :
        /\ requests[q].step = "sourced" => "source" \in objects[requests[q].document]
        /\ requests[q].step = "stored" => objects[requests[q].document] = Parts

ReferencesInv ==
    /\ TypeOK
    /\ BusyHaveDigests
    /\ WritersHaveChosen
    /\ ObjectsAreAhead
    /\ WithinLimit
    /\ OneRowPerDigest
    /\ SavedIsStored
    /\ QuotasAgree

-----------------------------------------------------------------------------
LEMMA ActiveIsFinite == IsFiniteSet(Active) /\ Cardinality(Active) \in Nat
<1>1. Active \subseteq Documents
    BY DEF Active, Saved
<1> QED BY <1>1, ReferencesAssumption, FS_Subset, FS_CardinalityType

LEMMA InitReferencesInv == Init => ReferencesInv
<1> SUFFICES ASSUME Init PROVE ReferencesInv
    OBVIOUS
<1> USE ReferencesAssumption
<1>1. TypeOK
    BY DEF Init, TypeOK, DocumentRow, Quota, Parts, RequestRow, Steps, Idle
<1>2. Saved = {} /\ Active = {}
    BY DEF Init, Saved, Active
<1>3. WithinLimit
    BY <1>2, FS_EmptySet DEF WithinLimit
<1>4. OneRowPerDigest /\ SavedIsStored
    BY <1>2 DEF OneRowPerDigest, SavedIsStored
<1>5. QuotasAgree
    BY DEF Init, QuotasAgree
<1>6. BusyHaveDigests /\ WritersHaveChosen /\ ObjectsAreAhead
    BY DEF Init, Idle, BusyHaveDigests, WritersHaveChosen, Writing, ObjectsAreAhead
<1> QED BY <1>1, <1>3, <1>4, <1>5, <1>6 DEF ReferencesInv

-----------------------------------------------------------------------------
(* The requests and the lock after a step: only q moves, to `step`.        *)
LEMMA MoveIsTyped ==
    ASSUME TypeOK, NEW q \in Requests, NEW step \in Steps, Move(q, step)
    PROVE  /\ requests' \in [Requests -> RequestRow]
           /\ requests'[q].step = step /\ requests'[q].digest = requests[q].digest
           /\ requests'[q].document = requests[q].document
           /\ \A p \in Requests \ {q} : requests'[p] = requests[p]
    BY DEF TypeOK, Move, RequestRow

LEMMA LeaveIsTyped ==
    ASSUME TypeOK, NEW q \in Requests, Leave(q)
    PROVE  /\ requests' \in [Requests -> RequestRow]
           /\ requests'[q].step = "idle"
           /\ \A p \in Requests \ {q} : requests'[p] = requests[p]
    BY DEF TypeOK, Leave, Idle, RequestRow, Steps

LEMMA QuotaMoves ==
    ASSUME NEW r \in Quota
    PROVE  /\ [r EXCEPT !.global = r.global + 1, !.workspace = r.workspace + 1] \in Quota
           /\ [r EXCEPT !.global = r.global + 1, !.others = r.others + 1] \in Quota
<1>1. r.global + 1 \in Nat /\ r.workspace + 1 \in Nat /\ r.others + 1 \in Nat
    BY DEF Quota
<1>2. \A g, n \in Nat : /\ [r EXCEPT !.global = g, !.workspace = n] \in Quota
                       /\ [r EXCEPT !.global = g, !.others = n] \in Quota
    BY DEF Quota
<1> QED BY <1>1, <1>2

LEMMA TypesPreserved == TypeOK /\ BusyHaveDigests /\ WritersHaveChosen /\ [Next]_vars => TypeOK'
<1> SUFFICES ASSUME TypeOK, BusyHaveDigests, WritersHaveChosen, [Next]_vars PROVE TypeOK'
    OBVIOUS
<1> USE ReferencesAssumption
<1>1. ASSUME NEW q \in Requests, NEW c \in Digests, Check(q, c) PROVE TypeOK'
    BY <1>1 DEF Check, TypeOK, RequestRow, Steps
<1>2. ASSUME NEW q \in Requests, Charge(q) PROVE TypeOK'
  <2>1. quota' \in Quota
      BY <1>2, QuotaMoves DEF Charge, TypeOK
  <2> QED BY <1>2, <2>1, MoveIsTyped DEF Charge, TypeOK, Steps
<1>3. ASSUME NEW q \in Requests, ChargeRefused(q) \/ LockRefused(q) \/ Abort(q) PROVE TypeOK'
    BY <1>3, LeaveIsTyped DEF ChargeRefused, LockRefused, Abort, TypeOK
<1>4. ASSUME NEW q \in Requests, Read(q) PROVE TypeOK'
    BY <1>4, MoveIsTyped DEF Read, TypeOK, Steps
<1>5. ASSUME NEW q \in Requests, NEW d \in Documents, Lock(q, d) PROVE TypeOK'
    BY <1>5, ZenonT(60) DEF Lock, TypeOK, RequestRow, Steps
<1>6. ASSUME NEW q \in Requests, PutSource(q) \/ PutPages(q) PROVE TypeOK'
  <2>1. PICK d \in Documents : requests[q].document = d
      BY <1>6 DEF PutSource, PutPages, WritersHaveChosen, Writing, Chosen
  <2>2. objects' \in [Documents -> SUBSET Parts]
      BY <1>6, <2>1 DEF PutSource, PutPages, TypeOK, Parts
  <2>3. CASE PutSource(q)
      BY <2>2, <2>3, MoveIsTyped DEF PutSource, TypeOK, Steps
  <2>4. CASE PutPages(q)
      BY <2>2, <2>4, MoveIsTyped DEF PutPages, TypeOK, Steps
  <2> QED BY <1>6, <2>3, <2>4
<1>7. ASSUME NEW q \in Requests, Commit(q) PROVE TypeOK'
  <2>1. PICK d \in Documents, c \in Digests : requests[q].document = d /\ requests[q].digest = c
      BY <1>7 DEF Commit, WritersHaveChosen, Writing, Chosen, BusyHaveDigests
  <2>2. documents' \in [Documents -> DocumentRow]
      BY <1>7, <2>1 DEF Commit, TypeOK, DocumentRow
  <2> QED BY <1>7, <2>2, LeaveIsTyped DEF Commit, TypeOK
<1>8. ASSUME NEW d \in Documents, Archive(d) PROVE TypeOK'
  <2>1. documents \in [Documents -> DocumentRow]
      BY DEF TypeOK
  <2>2. [documents EXCEPT ![d].archived = TRUE] \in [Documents -> DocumentRow]
      BY <2>1 DEF DocumentRow
  <2> QED BY <1>8, <2>2 DEF Archive, TypeOK
<1>9. CASE OthersCharge
    BY <1>9, QuotaMoves DEF OthersCharge, TypeOK
<1>10. CASE UNCHANGED vars
    BY <1>10 DEF vars, TypeOK
<1> QED BY <1>1, <1>2, <1>3, <1>4, <1>5, <1>6, <1>7, <1>8, <1>9, <1>10 DEF Next

-----------------------------------------------------------------------------
(* The invariant.                                                          *)
LEMMA QuotasPreserved == TypeOK /\ QuotasAgree /\ [Next]_vars => QuotasAgree'
<1> SUFFICES ASSUME TypeOK, QuotasAgree, [Next]_vars PROVE QuotasAgree'
    OBVIOUS
<1> USE ReferencesAssumption DEF TypeOK, Quota, QuotasAgree
<1>1. CASE UNCHANGED quota
    BY <1>1
<1>2. ASSUME NEW q \in Requests, Charge(q) PROVE QuotasAgree'
  <2>1. /\ quota'.global = quota.global + 1 /\ quota'.workspace = quota.workspace + 1
        /\ quota'.others = quota.others
      BY <1>2 DEF Charge
  <2> QED BY <1>2, <2>1 DEF Charge
<1>3. CASE OthersCharge
  <2>1. /\ quota'.global = quota.global + 1 /\ quota'.workspace = quota.workspace
        /\ quota'.others = quota.others + 1
      BY <1>3 DEF OthersCharge
  <2> QED BY <1>3, <2>1 DEF OthersCharge
<1> QED BY <1>1, <1>2, <1>3 DEF Next, vars, Check, ChargeRefused, Read, LockRefused, PutSource, PutPages,
           Commit, Abort, Lock, Archive

(* Steps that write neither rows nor objects.                              *)
LEMMA QuietPreserves ==
    ASSUME ReferencesInv, TypeOK', QuotasAgree', NEW q \in Requests,
           \/ \E c \in Digests : Check(q, c)
           \/ Charge(q) \/ ChargeRefused(q) \/ Read(q) \/ LockRefused(q) \/ Abort(q)
    PROVE  ReferencesInv'
<1> USE DEF ReferencesInv
<1>1. UNCHANGED <<documents, objects>>
    BY DEF Check, Charge, ChargeRefused, Read, LockRefused, Abort
<1>2. Saved' = Saved /\ Active' = Active /\ HasRoom' = HasRoom
    BY <1>1 DEF Saved, Active, HasRoom
<1>3. WithinLimit' /\ OneRowPerDigest' /\ SavedIsStored'
    BY <1>1, <1>2 DEF WithinLimit, OneRowPerDigest, SavedIsStored
<1>4. /\ \A p \in Requests \ {q} : requests'[p] = requests[p]
      /\ requests'[q].step \in {"idle", "checked", "reading", "read"}
      /\ requests'[q].step # "idle" => requests'[q].digest \in Digests
  <2>1. CASE \E c \in Digests : Check(q, c)
      BY <2>1 DEF Check, TypeOK
  <2>2. CASE Charge(q) \/ Read(q)
      BY <2>2, MoveIsTyped DEF Charge, Read, Steps, BusyHaveDigests
  <2>3. CASE ChargeRefused(q) \/ LockRefused(q) \/ Abort(q)
      BY <2>3, LeaveIsTyped DEF ChargeRefused, LockRefused, Abort
  <2> QED BY <2>1, <2>2, <2>3
<1>5. BusyHaveDigests'
    BY <1>4 DEF BusyHaveDigests
<1>6. WritersHaveChosen'
    BY <1>1, <1>2, <1>4 DEF WritersHaveChosen, Writing, Chosen
<1>7. ObjectsAreAhead'
    BY <1>1, <1>4 DEF ObjectsAreAhead
<1> QED BY <1>3, <1>5, <1>6, <1>7

LEMMA LockPreserves ==
    ASSUME ReferencesInv, TypeOK', QuotasAgree', NEW q \in Requests, NEW d \in Documents, Lock(q, d)
    PROVE  ReferencesInv'
<1> USE DEF ReferencesInv
<1>1. UNCHANGED <<documents, objects>>
    BY DEF Lock
<1>2. Saved' = Saved /\ Active' = Active /\ HasRoom' = HasRoom
    BY <1>1 DEF Saved, Active, HasRoom
<1>3. WithinLimit' /\ OneRowPerDigest' /\ SavedIsStored'
    BY <1>1, <1>2 DEF WithinLimit, OneRowPerDigest, SavedIsStored
<1>4. /\ \A p \in Requests \ {q} : requests'[p] = requests[p]
      /\ requests'[q].step = "locked" /\ requests'[q].document = d
      /\ requests'[q].digest = requests[q].digest
      /\ requests[q].step = "read"
    BY DEF Lock, TypeOK, RequestRow
<1>5. BusyHaveDigests'
    BY <1>4 DEF BusyHaveDigests
<1>6. /\ d \in Documents \ Active
      /\ d \in Saved => documents[d].digest = requests[q].digest
      /\ \A e \in Saved : documents[e].digest = requests[q].digest => e = d
      /\ HasRoom
  <2>1. HasRoom /\ RowsOf(requests[q].digest) \cap Active = {}
      BY DEF Lock
  <2>2. CASE RowsOf(requests[q].digest) = {}
      BY <2>1, <2>2 DEF Lock, RowsOf, Active
  <2>3. CASE RowsOf(requests[q].digest) # {}
    <3>1. d \in RowsOf(requests[q].digest)
        BY <2>3 DEF Lock
    <3> QED BY <2>1, <3>1 DEF RowsOf, OneRowPerDigest
  <2> QED BY <2>2, <2>3
<1>7. WritersHaveChosen'
    BY <1>1, <1>2, <1>4, <1>6 DEF WritersHaveChosen, Writing, Chosen
<1>8. ObjectsAreAhead'
    BY <1>1, <1>4 DEF ObjectsAreAhead
<1> QED BY <1>3, <1>5, <1>7, <1>8

LEMMA PutPreserves ==
    ASSUME ReferencesInv, TypeOK', QuotasAgree', NEW q \in Requests, PutSource(q) \/ PutPages(q)
    PROVE  ReferencesInv'
<1> USE DEF ReferencesInv
<1>1. documents' = documents
    BY DEF PutSource, PutPages
<1>2. Saved' = Saved /\ Active' = Active /\ HasRoom' = HasRoom
    BY <1>1 DEF Saved, Active, HasRoom
<1>3. PICK d \in Documents : requests[q].document = d
    BY DEF PutSource, PutPages, WritersHaveChosen, Writing, Chosen
<1>4. /\ \A p \in Requests \ {q} : requests'[p] = requests[p]
      /\ requests[q].step \in {"locked", "sourced"} /\ requests'[q].step \in {"sourced", "stored"}
      /\ requests'[q].document = d /\ requests'[q].digest = requests[q].digest
    BY <1>3, MoveIsTyped DEF PutSource, PutPages, Steps
<1>5. /\ \A e \in Documents \ {d} : objects'[e] = objects[e]
      /\ objects[d] \subseteq objects'[d] /\ objects'[d] \subseteq Parts
      /\ requests'[q].step = "sourced" => "source" \in objects'[d]
      /\ requests'[q].step = "stored" => objects'[d] = Parts
  <2>1. objects[d] \subseteq Parts
      BY DEF TypeOK
  <2>2. CASE PutSource(q)
      BY <1>3, <2>1, <2>2, MoveIsTyped DEF PutSource, TypeOK, Parts, Steps
  <2>3. CASE PutPages(q)
    <3>1. "source" \in objects[d]
        BY <1>3, <2>3 DEF PutPages, ObjectsAreAhead
    <3> QED BY <1>3, <2>1, <2>3, <3>1, MoveIsTyped DEF PutPages, TypeOK, Parts, Steps
  <2> QED BY <2>2, <2>3
<1>6. SavedIsStored'
  <2>1. \A e \in Saved : e \in Documents /\ objects[e] = Parts
      BY DEF SavedIsStored, Saved
  <2>2. d \in Saved => objects'[d] = Parts
      BY <1>5, <2>1
  <2>3. \A e \in Saved \ {d} : objects'[e] = Parts
      BY <1>5, <2>1
  <2>4. \A e \in Saved : objects'[e] = Parts
      BY <2>2, <2>3
  <2> QED BY <1>2, <2>4 DEF SavedIsStored
<1>7. WithinLimit' /\ OneRowPerDigest'
    BY <1>1, <1>2 DEF WithinLimit, OneRowPerDigest
<1>8. BusyHaveDigests'
    BY <1>4 DEF BusyHaveDigests
<1>9. WritersHaveChosen'
    BY <1>1, <1>2, <1>3, <1>4 DEF WritersHaveChosen, Writing, Chosen
<1>10. \A p \in Requests \ {q} : ~Writing(p)
  <2>1. lock = q
      BY <1>4 DEF TypeOK
  <2> QED BY <2>1 DEF TypeOK, Writing
<1>11. ObjectsAreAhead'
    BY <1>4, <1>5, <1>10 DEF ObjectsAreAhead, Writing
<1> QED BY <1>6, <1>7, <1>8, <1>9, <1>11

LEMMA CommitPreserves ==
    ASSUME ReferencesInv, TypeOK', QuotasAgree', NEW q \in Requests, Commit(q)
    PROVE  ReferencesInv'
<1> USE DEF ReferencesInv
<1>1. PICK d \in Documents, c \in Digests :
          /\ requests[q].document = d /\ requests[q].digest = c
          /\ d \notin Active
          /\ d \in Saved => documents[d].digest = c
          /\ \A e \in Saved : documents[e].digest = c => e = d
          /\ HasRoom
    BY DEF Commit, WritersHaveChosen, Writing, Chosen, BusyHaveDigests
<1>2. objects' = objects /\ objects[d] = Parts
    BY <1>1 DEF Commit, ObjectsAreAhead
<1>3. \A e \in Documents : documents'[e] = IF e = d THEN [digest |-> c, archived |-> FALSE] ELSE documents[e]
    BY <1>1 DEF Commit, TypeOK
<1>4. Saved' = Saved \cup {d}
    BY <1>3, ReferencesAssumption DEF Saved
<1>5. Active' = Active \cup {d}
    BY <1>3, <1>4 DEF Active, Saved
<1>6. Cardinality(Active') = Cardinality(Active) + 1
    BY <1>1, <1>5, ActiveIsFinite, FS_AddElement
<1>7. WithinLimit'
    BY <1>1, <1>6, ActiveIsFinite, ReferencesAssumption DEF WithinLimit, HasRoom
<1>8. OneRowPerDigest'
  <2>1. documents'[d].digest = c /\ \A e \in Saved : e # d => documents'[e] = documents[e] /\ documents[e].digest # c
      BY <1>1, <1>3 DEF Saved
  <2> QED BY <1>4, <2>1 DEF OneRowPerDigest
<1>9. SavedIsStored'
    BY <1>2, <1>4 DEF SavedIsStored
<1>10. /\ \A p \in Requests \ {q} : requests'[p] = requests[p]
       /\ requests'[q].step = "idle"
    BY LeaveIsTyped DEF Commit
<1>11. \A p \in Requests \ {q} : ~Writing(p)
    BY DEF Commit, TypeOK, Writing
<1>12. BusyHaveDigests' /\ WritersHaveChosen' /\ ObjectsAreAhead'
    BY <1>10, <1>11 DEF BusyHaveDigests, WritersHaveChosen, ObjectsAreAhead, Writing
<1> QED BY <1>7, <1>8, <1>9, <1>12

LEMMA ArchivePreserves ==
    ASSUME ReferencesInv, TypeOK', QuotasAgree', NEW d \in Documents, Archive(d)
    PROVE  ReferencesInv'
<1> USE DEF ReferencesInv
<1>1. /\ \A e \in Documents : documents'[e].digest = documents[e].digest
      /\ \A e \in Documents \ {d} : documents'[e] = documents[e]
      /\ documents'[d].archived
  <2>1. documents \in [Documents -> DocumentRow]
      BY DEF TypeOK
  <2>2. documents' = [documents EXCEPT ![d].archived = TRUE]
      BY DEF Archive
  <2> QED BY <2>1, <2>2 DEF DocumentRow
<1>2. Saved' = Saved
  <2>1. Saved' = {e \in Documents : documents'[e].digest # None}
      BY DEF Saved
  <2> QED BY <1>1, <2>1 DEF Saved
<1>3. Active' = Active \ {d}
  <2>1. \A e \in Saved \ {d} : documents'[e] = documents[e]
      BY <1>1 DEF Saved
  <2>2. Active' = {e \in Saved : ~documents'[e].archived}
      BY <1>2 DEF Active
  <2>3. \A e \in Saved : (~documents'[e].archived) <=> e # d /\ ~documents[e].archived
      BY <1>1, <2>1
  <2> QED BY <2>2, <2>3 DEF Active
<1>4. Cardinality(Active') <= Cardinality(Active) /\ Cardinality(Active') \in Nat
    BY <1>3, ActiveIsFinite, FS_Subset, FS_CardinalityType
<1>5. WithinLimit'
    BY <1>4, ActiveIsFinite, ReferencesAssumption DEF WithinLimit
<1>6. OneRowPerDigest' /\ SavedIsStored'
    BY <1>1, <1>2 DEF OneRowPerDigest, SavedIsStored, Saved, Archive
<1>7. requests' = requests /\ objects' = objects /\ \A q \in Requests : ~Writing(q)
    BY ReferencesAssumption DEF Archive, TypeOK, Writing
<1>8. BusyHaveDigests' /\ WritersHaveChosen' /\ ObjectsAreAhead'
    BY <1>7 DEF BusyHaveDigests, WritersHaveChosen, ObjectsAreAhead, Writing
<1> QED BY <1>5, <1>6, <1>8

LEMMA ReferencesInvPreserved == ReferencesInv /\ [Next]_vars => ReferencesInv'
<1> SUFFICES ASSUME ReferencesInv, [Next]_vars PROVE ReferencesInv'
    OBVIOUS
<1>1. TypeOK' /\ QuotasAgree'
    BY TypesPreserved, QuotasPreserved DEF ReferencesInv
<1>2. ASSUME NEW q \in Requests,
             \/ \E c \in Digests : Check(q, c)
             \/ Charge(q) \/ ChargeRefused(q) \/ Read(q) \/ LockRefused(q) \/ Abort(q)
      PROVE ReferencesInv'
    BY <1>1, <1>2, QuietPreserves
<1>3. ASSUME NEW q \in Requests, NEW d \in Documents, Lock(q, d) PROVE ReferencesInv'
    BY <1>1, <1>3, LockPreserves
<1>4. ASSUME NEW q \in Requests, PutSource(q) \/ PutPages(q) PROVE ReferencesInv'
    BY <1>1, <1>4, PutPreserves
<1>5. ASSUME NEW q \in Requests, Commit(q) PROVE ReferencesInv'
    BY <1>1, <1>5, CommitPreserves
<1>6. ASSUME NEW d \in Documents, Archive(d) PROVE ReferencesInv'
    BY <1>1, <1>6, ArchivePreserves
<1>7. CASE OthersCharge \/ UNCHANGED vars
  <2>1. UNCHANGED <<documents, objects, requests>>
      BY <1>7 DEF OthersCharge, vars
  <2> QED BY <1>1, <2>1 DEF ReferencesInv, BusyHaveDigests, WritersHaveChosen, Writing, Chosen, ObjectsAreAhead,
             WithinLimit, OneRowPerDigest, SavedIsStored, Saved, Active, HasRoom
<1> QED BY <1>2, <1>3, <1>4, <1>5, <1>6, <1>7 DEF Next

LEMMA ReferencesInvHolds == Spec => []ReferencesInv
<1> QED BY InitReferencesInv, ReferencesInvPreserved, PTL DEF Spec

-----------------------------------------------------------------------------
(* Rows keep their types, and the workspace row has one holder.            *)
THEOREM ReferencesAreTyped == Spec => []TypeOK
<1>1. ReferencesInv => TypeOK
    BY DEF ReferencesInv
<1> QED BY <1>1, ReferencesInvHolds, PTL

(* The library never exceeds its limit (product.py:511).                   *)
THEOREM LibraryStaysWithinLimit == Spec => []WithinLimit
<1>1. ReferencesInv => WithinLimit
    BY DEF ReferencesInv
<1> QED BY <1>1, ReferencesInvHolds, PTL

(* A content keeps one row, archived and saved again (product.py:523).     *)
THEOREM DigestsHaveOneRow == Spec => []OneRowPerDigest
<1>1. ReferencesInv => OneRowPerDigest
    BY DEF ReferencesInv
<1> QED BY <1>1, ReferencesInvHolds, PTL

(* Saved documents can be served (product.py:532).                         *)
THEOREM SavedStaysStored == Spec => []SavedIsStored
<1>1. ReferencesInv => SavedIsStored
    BY DEF ReferencesInv
<1> QED BY <1>1, ReferencesInvHolds, PTL

(* The two counters of the day agree (product.py:490).                     *)
THEOREM QuotasStayAgreed == Spec => []QuotasAgree
<1>1. ReferencesInv => QuotasAgree
    BY DEF ReferencesInv
<1> QED BY <1>1, ReferencesInvHolds, PTL
=============================================================================
