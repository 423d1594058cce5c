-------------------------- MODULE OrganisationProofs --------------------------
(***************************************************************************)
(* Machine-checked proofs about organizations, for every set of companies, *)
(* employees and requests: whom a suspension disabled is found again       *)
(* (OrganisationLifecycle), a set-up may be repeated after any failure and *)
(* whoever creates an employee may manage him (OrganisationSetup).         *)
(***************************************************************************)
EXTENDS OrganisationLifecycle, OrganisationSetup, SnapshotProofs

(* A suspension overlooks nobody it disabled.                              *)
Recoverable(rows) ==
  \A u \in User :
    /\ last[u] \in Company =>
         /\ rows[u] = "disabled"
         /\ Suspended(rows, last[u]) /\ u \in rows[last[u]].ids
    /\ last[u] = "bypassed" => rows[u] = "disabled"

(* No list of a suspended organization names who was disabled beforehand.  *)
Unlisted(rows) ==
  \A u \in User, c \in Company :
    last[u] = "disabled" /\ Suspended(rows, c) => u \notin rows[c].ids

(* The inductive invariant.                                                *)
IInv ==
  /\ Discipline
  /\ TypeOK
  /\ Recoverable(db)
  /\ Unlisted(db)

-----------------------------------------------------------------------------
(* What the operations do: a row of an organization is written that lets   *)
(* go of a suspension or leaves it alone; an organization is suspended or  *)
(* resumed; an account is written.                                         *)
StatusEffect(t, c, row) ==
  /\ t \in active /\ ServeCompany(t, c, row)
  /\ row \in CompanyRow /\ row.ids = view[t][c].ids
  /\ row = view[t][c] \/ row.status # "suspended"

AccountEvent == Event \ {"resumed", "bypassed"}

AccountEffect(t, u, value, event) ==
  /\ t \in active /\ ServeUsers(t, One(u, value), event)
  /\ value \in {"enabled", "disabled"} /\ event \in AccountEvent
  /\ event = "disabled" => ~\E c \in Member[u] : Suspended(db, c)
  /\ event = "enabled" => ~Suspended(view[t], Home[u])

Effect(t) ==
  \/ BeginTxn(t) /\ UNCHANGED last
  \/ AbortTxn(t) /\ UNCHANGED last
  \/ \E c \in Company, row \in CompanyRow : StatusEffect(t, c, row)
  \/ \E c \in Company : Suspend(t, c) \/ Resume(t, c)
  \/ \E u \in User, value \in {"enabled", "disabled"}, event \in AccountEvent :
       AccountEffect(t, u, value, event)

LEMMA CompanyStepEffect ==
  ASSUME TypeOK, NEW t \in Txn, NEW c \in Company, CompanyStep(t, c)
  PROVE  Effect(t)
<1>1. ASSUME t \in active PROVE view[t][c] \in CompanyRow
  BY <1>1 DEF TypeOK, RowTypeOK
<1>2. ASSUME NEW row, StatusEffect(t, c, row) PROVE Effect(t)
  BY <1>2 DEF StatusEffect, Effect
<1>3. ASSUME ConvertToActive(t, c)
      PROVE  StatusEffect(t, c, [view[t][c] EXCEPT !.status = "active"])
  BY <1>1, <1>3 DEF ConvertToActive, StatusEffect, CompanyRow, Status
<1>4. ASSUME MarkTrial(t, c)
      PROVE  StatusEffect(t, c, [view[t][c] EXCEPT !.status = "trial"])
  BY <1>1, <1>4 DEF MarkTrial, StatusEffect, CompanyRow, Status
<1>5. ASSUME ExtendTrial(t, c)
      PROVE  StatusEffect(t, c, view[t][c])
  BY <1>1, <1>5 DEF ExtendTrial, StatusEffect
<1>6. QED
  BY <1>2, <1>3, <1>4, <1>5 DEF CompanyStep, Effect

LEMMA UserStepEffect ==
  ASSUME NEW t \in Txn, NEW u \in User, UserStep(t, u)
  PROVE  Effect(t)
<1>1. ASSUME NEW value, NEW event, AccountEffect(t, u, value, event) PROVE Effect(t)
  BY <1>1 DEF AccountEffect, Effect
<1>2. /\ DisabledNow(u) \in AccountEvent \ {"enabled"}
      /\ DisabledNow(u) = "disabled" => ~\E c \in Member[u] : Suspended(db, c)
  BY DEF DisabledNow, Event, AccountEvent
<1>3. ASSUME Enable(t, u) PROVE AccountEffect(t, u, "enabled", "enabled")
  BY <1>3 DEF Enable, AccountEffect, Event, AccountEvent
<1>4. ASSUME t \in active, ServeUsers(t, One(u, "disabled"), DisabledNow(u))
      PROVE  AccountEffect(t, u, "disabled", DisabledNow(u))
  BY <1>2, <1>4 DEF AccountEffect
<1>5. ASSUME NEW event \in {"toggled", "created"}, t \in active,
             ServeUsers(t, One(u, "enabled"), event)
      PROVE  AccountEffect(t, u, "enabled", event)
  BY <1>5 DEF AccountEffect, Event, AccountEvent
<1>6. ASSUME t \in active, Flip(t, u) PROVE Effect(t)
  BY <1>1, <1>4, <1>5, <1>6 DEF Flip
<1>7. QED
  BY <1>1, <1>3, <1>4, <1>5, <1>6
     DEF UserStep, Disable, ToggleByOwner, ToggleByAdmin, CreateUser

LEMMA NextEffect ==
  ASSUME TypeOK, Next
  PROVE  \E t \in Txn : Effect(t)
BY CompanyStepEffect, UserStepEffect DEF Next, Step, Begin, Abort, Effect

-----------------------------------------------------------------------------
(* The lock of the channels makes a request that changes accounts fail     *)
(* unless it reads every organization as it is committed.                  *)
LEMMA ServeFacts ==
  ASSUME Discipline, NEW t \in active, NEW new, NEW event, DOMAIN new \subseteq Row,
         ServeUsers(t, new, event)
  PROVE  /\ \A c \in Company : view[t][c] = db[c]
         /\ \A r \in DOMAIN new : view[t][r] = db[r] /\ db'[r] = new[r]
         /\ \A r \in Row \ DOMAIN new : db'[r] = db[r]
         /\ \A u \in User : last'[u] = IF u \in DOMAIN new THEN event ELSE last[u]
         /\ active' = active \ {t}
         /\ \A u \in active' : view'[u] = view[u]
         /\ Discipline'
<1>1. CommitWith(t, new) /\ \A c \in Company : CanWrite(t, c)
  BY DEF ServeUsers, SyncChannels
<1>2. \A c \in Company : view[t][c] = db[c]
  BY <1>1, RowAssumption, LockedIsCurrent
<1>3. \A u \in User : last'[u] = IF u \in DOMAIN new THEN event ELSE last[u]
  BY DEF ServeUsers
<1>4. QED
  BY <1>1, <1>2, <1>3, CommitFacts

LEMMA StatusFacts ==
  ASSUME IInv, NEW t \in Txn, NEW c \in Company, NEW row, StatusEffect(t, c, row)
  PROVE  /\ db'[c] = row /\ \A r \in Row \ {c} : db'[r] = db[r]
         /\ row \in CompanyRow /\ row.ids = db[c].ids
         /\ row = db[c] \/ row.status # "suspended"
         /\ \A u \in User : last'[u] = IF last[u] = c /\ row.status # "suspended"
                                      THEN "bypassed" ELSE last[u]
         /\ active' = active \ {t}
         /\ \A u \in active' : view'[u] = view[u]
         /\ Discipline'
<1>1. DOMAIN One(c, row) = {c} /\ One(c, row)[c] = row /\ c \in Row
  BY RowAssumption DEF One
<1>2. /\ t \in active /\ CommitWith(t, One(c, row))
      /\ \A u \in User : last'[u] = IF last[u] = c /\ row.status # "suspended"
                                   THEN "bypassed" ELSE last[u]
  BY DEF StatusEffect, ServeCompany
<1>3. /\ view[t][c] = db[c] /\ db'[c] = row
      /\ \A r \in Row \ {c} : db'[r] = db[r]
      /\ active' = active \ {t}
      /\ \A u \in active' : view'[u] = view[u]
      /\ Discipline'
  BY <1>1, <1>2, CommitFacts DEF IInv
<1>4. QED
  BY <1>2, <1>3 DEF StatusEffect, Suspended

LEMMA AccountFacts ==
  ASSUME IInv, NEW t \in Txn, NEW u \in User, NEW value, NEW event,
         AccountEffect(t, u, value, event)
  PROVE  /\ db'[u] = value /\ \A r \in Row \ {u} : db'[r] = db[r]
         /\ \A c \in Company : db'[c] = db[c]
         /\ value \in {"enabled", "disabled"} /\ event \in AccountEvent
         /\ event = "disabled" => ~\E c \in Member[u] : Suspended(db, c)
         /\ event = "enabled" => ~Suspended(db, Home[u])
         /\ last'[u] = event /\ \A v \in User \ {u} : last'[v] = last[v]
         /\ active' = active \ {t}
         /\ \A v \in active' : view'[v] = view[v]
         /\ Discipline'
<1>1. DOMAIN One(u, value) = {u} /\ One(u, value)[u] = value /\ u \in Row
  BY RowAssumption DEF One
<1>2. t \in active /\ ServeUsers(t, One(u, value), event)
  BY DEF AccountEffect
<1>3. /\ \A c \in Company : view[t][c] = db[c]
      /\ db'[u] = value
      /\ \A r \in Row \ {u} : db'[r] = db[r]
      /\ last'[u] = event /\ \A v \in User \ {u} : last'[v] = last[v]
      /\ active' = active \ {t}
      /\ \A v \in active' : view'[v] = view[v]
      /\ Discipline'
  BY <1>1, <1>2, ServeFacts DEF IInv
<1>4. Home[u] \in Company
  BY MemberAssumption
<1>5. QED
  BY <1>3, <1>4, RowAssumption DEF AccountEffect, Suspended

(* What a suspension and a resumption leave of the organization.           *)
SuspendedRow(status, ids) == [status |-> "suspended", from |-> status, ids |-> ids]

ResumedRow(status) == [status |-> status, from |-> None, ids |-> {}]

LEMMA SuspendFacts ==
  ASSUME IInv, NEW t \in Txn, NEW c \in Company, Suspend(t, c)
  PROVE  /\ t \in active /\ ~Suspended(db, c)
         /\ db'[c] = SuspendedRow(db[c].status, Enabled(view[t], c))
         /\ \A d \in Company \ {c} : db'[d] = db[d]
         /\ db'[c].status = "suspended" /\ db'[c].ids = Enabled(view[t], c)
         /\ \A u \in Enabled(view[t], c) : db'[u] = "disabled" /\ last'[u] = c
         /\ \A u \in User \ Enabled(view[t], c) : db'[u] = db[u] /\ last'[u] = last[u]
         /\ active' = active \ {t}
         /\ \A u \in active' : view'[u] = view[u]
         /\ Discipline'
<1> DEFINE ids == Enabled(view[t], c)
           new == SuspendRows(t, c, ids, ids)
<1>1. ids \subseteq User /\ c \in Row /\ ids \subseteq Row /\ c \notin User
  BY RowAssumption DEF Enabled, MembersOf
<1>2. t \in active /\ ~Suspended(view[t], c) /\ ServeUsers(t, new, c)
  BY DEF Suspend
<1>3. /\ DOMAIN new = {c} \cup ids
      /\ new[c] = SuspendedRow(view[t][c].status, ids)
      /\ \A u \in ids : new[u] = "disabled"
  BY <1>1 DEF SuspendRows, SuspendedRow
<1> HIDE DEF ids, new
<1>4. /\ \A d \in Company : view[t][d] = db[d]
      /\ \A r \in {c} \cup ids : db'[r] = new[r]
      /\ \A r \in Row \ ({c} \cup ids) : db'[r] = db[r]
      /\ \A u \in User : last'[u] = IF u \in {c} \cup ids THEN c ELSE last[u]
      /\ active' = active \ {t}
      /\ \A u \in active' : view'[u] = view[u]
      /\ Discipline'
  BY <1>1, <1>2, <1>3, ServeFacts DEF IInv
<1>5. \A d \in Company \ {c} : db'[d] = db[d]
  BY <1>1, <1>4, RowAssumption
<1>6. /\ \A u \in ids : db'[u] = "disabled" /\ last'[u] = c
      /\ \A u \in User \ ids : db'[u] = db[u] /\ last'[u] = last[u]
  BY <1>1, <1>3, <1>4, RowAssumption
<1>7. db'[c] = SuspendedRow(db[c].status, ids) /\ ~Suspended(db, c)
  BY <1>2, <1>3, <1>4 DEF Suspended
<1>8. db'[c].status = "suspended" /\ db'[c].ids = ids
  BY <1>7 DEF SuspendedRow
<1>9. QED
  BY <1>2, <1>4, <1>5, <1>6, <1>7, <1>8 DEF ids

LEMMA ResumeFacts ==
  ASSUME IInv, NEW t \in Txn, NEW c \in Company, Resume(t, c)
  PROVE  /\ t \in active /\ Suspended(db, c)
         /\ db'[c] = ResumedRow(db[c].from)
         /\ \A d \in Company \ {c} : db'[d] = db[d]
         /\ db'[c].status = db[c].from /\ db'[c].ids = {}
         /\ \A u \in db[c].ids \cap User : db'[u] = "enabled" /\ last'[u] = "resumed"
         /\ \A u \in User \ db[c].ids : db'[u] = db[u] /\ last'[u] = last[u]
         /\ active' = active \ {t}
         /\ \A u \in active' : view'[u] = view[u]
         /\ Discipline'
<1> DEFINE ids == view[t][c].ids
           new == [r \in {c} \cup ids |->
                     IF r = c THEN [status |-> view[t][c].from, from |-> None, ids |-> {}]
                     ELSE "enabled"]
<1>1. t \in active /\ Suspended(view[t], c) /\ ServeUsers(t, new, "resumed")
  BY DEF Resume
<1>2. ids \subseteq User /\ c \in Row /\ ids \subseteq Row /\ c \notin User
  BY <1>1, RowAssumption DEF IInv, TypeOK, RowTypeOK, CompanyRow
<1>3. /\ DOMAIN new = {c} \cup ids
      /\ new[c] = ResumedRow(view[t][c].from)
      /\ \A u \in ids : new[u] = "enabled"
  BY <1>2 DEF ResumedRow
<1> HIDE DEF ids, new
<1>4. /\ \A d \in Company : view[t][d] = db[d]
      /\ \A r \in {c} \cup ids : db'[r] = new[r]
      /\ \A r \in Row \ ({c} \cup ids) : db'[r] = db[r]
      /\ \A u \in User : last'[u] = IF u \in {c} \cup ids THEN "resumed" ELSE last[u]
      /\ active' = active \ {t}
      /\ \A u \in active' : view'[u] = view[u]
      /\ Discipline'
  BY <1>1, <1>2, <1>3, ServeFacts DEF IInv
<1>5. \A d \in Company \ {c} : db'[d] = db[d]
  BY <1>2, <1>4, RowAssumption
<1>6. /\ \A u \in ids \cap User : db'[u] = "enabled" /\ last'[u] = "resumed"
      /\ \A u \in User \ ids : db'[u] = db[u] /\ last'[u] = last[u]
  BY <1>2, <1>3, <1>4, RowAssumption
<1>7. ids = db[c].ids
  BY <1>4 DEF ids
<1>8. db'[c] = ResumedRow(db[c].from) /\ Suspended(db, c)
  BY <1>1, <1>3, <1>4 DEF Suspended
<1>9. db'[c].status = db[c].from /\ db'[c].ids = {}
  BY <1>8 DEF ResumedRow
<1>10. QED
  BY <1>1, <1>4, <1>5, <1>6, <1>7, <1>8, <1>9

-----------------------------------------------------------------------------
LEMMA Initially == Init => IInv
<1> SUFFICES ASSUME Init PROVE IInv
  OBVIOUS
<1>1. /\ \A c \in Company : db[c] = [status |-> "trial", from |-> None, ids |-> {}]
      /\ \A u \in User : db[u] \in {"enabled", Absent}
      /\ active = {} /\ \A u \in User : last[u] = "created"
  BY RowAssumption DEF Init, DBInitWith
<1>2. Discipline
  BY DisciplineInit DEF Init
<1>3. TypeOK
  BY <1>1 DEF TypeOK, RowTypeOK, CompanyRow, Status, Suspended
<1>4. Recoverable(db) /\ Unlisted(db)
  BY <1>1, EventAssumption DEF Recoverable, Unlisted, Event
<1>5. QED
  BY <1>2, <1>3, <1>4 DEF IInv

(* The views of the requests that go on are the ones they had.             *)
LEMMA TypeKept ==
  ASSUME TypeOK, active' \subseteq active, \A u \in active' : view'[u] = view[u],
         RowTypeOK(db')
  PROVE  TypeOK'
BY DEF TypeOK, RowTypeOK, Suspended

CompanyOK(c, row) ==
  /\ row \in CompanyRow /\ row.ids \subseteq MembersOf(c)
  /\ row.status = "suspended" => row.from \in Status \ {"suspended"}

LEMMA RowsTyped ==
  ASSUME NEW rows
  PROVE  RowTypeOK(rows) <=> /\ \A c \in Company : CompanyOK(c, rows[c])
                             /\ \A u \in User : rows[u] \in {"enabled", "disabled", Absent}
BY DEF RowTypeOK, CompanyOK, Suspended

LEMMA EffectKeepsDiscipline ==
  ASSUME IInv, NEW t \in Txn, Effect(t)
  PROVE  Discipline'
BY DisciplineBegin, DisciplineAbort, StatusFacts, AccountFacts, SuspendFacts, ResumeFacts
   DEF IInv, Effect

LEMMA EffectKeepsType ==
  ASSUME IInv, NEW t \in Txn, Effect(t)
  PROVE  TypeOK'
<1> USE RowAssumption
<1>0. /\ \A c \in Company : CompanyOK(c, db[c])
      /\ \A u \in User : db[u] \in {"enabled", "disabled", Absent}
  BY RowsTyped DEF IInv, TypeOK
<1>1. CASE BeginTxn(t)
  BY <1>1 DEF BeginTxn, IInv, Discipline, TypeOK, RowTypeOK, Suspended
<1>2. CASE AbortTxn(t)
  BY <1>2 DEF AbortTxn, EndTxn, IInv, Discipline, TypeOK, RowTypeOK, Suspended
<1>3. ASSUME NEW c \in Company, NEW row, StatusEffect(t, c, row)
      PROVE  TypeOK'
  <2>1. CompanyOK(c, row)
    BY <1>0, <1>3, StatusFacts DEF CompanyOK
  <2>2. RowTypeOK(db')
    BY <1>0, <1>3, <2>1, StatusFacts, RowsTyped
  <2>3. QED
    BY <1>3, <2>2, StatusFacts, TypeKept DEF IInv
<1>4. ASSUME NEW u \in User, NEW value, NEW event, AccountEffect(t, u, value, event)
      PROVE  TypeOK'
  <2>1. RowTypeOK(db')
    BY <1>0, <1>4, AccountFacts, RowsTyped
  <2>2. QED
    BY <1>4, <2>1, AccountFacts, TypeKept DEF IInv
<1>5. ASSUME NEW c \in Company, Suspend(t, c)
      PROVE  TypeOK'
  <2>1. db'[c] = SuspendedRow(db[c].status, Enabled(view[t], c)) /\ ~Suspended(db, c)
    BY <1>5, SuspendFacts
  <2>2. Enabled(view[t], c) \subseteq MembersOf(c) /\ MembersOf(c) \subseteq User
    BY DEF Enabled, MembersOf
  <2>3. CompanyOK(c, db'[c])
    BY <1>0, <2>1, <2>2 DEF CompanyOK, CompanyRow, Suspended, Status, SuspendedRow
  <2>4. RowTypeOK(db')
    BY <1>0, <1>5, <2>3, SuspendFacts, RowsTyped
  <2>5. QED
    BY <1>5, <2>4, SuspendFacts, TypeKept DEF IInv
<1>6. ASSUME NEW c \in Company, Resume(t, c)
      PROVE  TypeOK'
  <2>1. db'[c] = ResumedRow(db[c].from) /\ Suspended(db, c)
    BY <1>6, ResumeFacts
  <2>2. CompanyOK(c, db'[c])
    BY <1>0, <2>1 DEF CompanyOK, CompanyRow, Suspended, Status, ResumedRow
  <2>3. RowTypeOK(db')
    BY <1>0, <1>6, <2>2, ResumeFacts, RowsTyped
  <2>4. QED
    BY <1>6, <2>3, ResumeFacts, TypeKept DEF IInv
<1>7. QED
  BY <1>1, <1>2, <1>3, <1>4, <1>5, <1>6 DEF Effect

(* A suspension lists whom it disables, only the resumption of the same    *)
(* organization takes the list away, and it enables everybody on it.       *)
LEMMA EffectKeepsRecoverable ==
  ASSUME IInv, NEW t \in Txn, Effect(t)
  PROVE  Recoverable(db)'
<1> USE RowAssumption DEF Recoverable
<1>0. Recoverable(db)
  BY DEF IInv
<1>1. CASE (BeginTxn(t) \/ AbortTxn(t)) /\ UNCHANGED last
  BY <1>0, <1>1 DEF BeginTxn, AbortTxn, Suspended
<1>2. ASSUME NEW c \in Company, NEW row, StatusEffect(t, c, row)
      PROVE  Recoverable(db)'
  <2>1. /\ db'[c] = row /\ (row = db[c] \/ row.status # "suspended")
        /\ \A d \in Company \ {c} : db'[d] = db[d]
        /\ \A u \in User : db'[u] = db[u]
        /\ \A u \in User : last'[u] = IF last[u] = c /\ row.status # "suspended"
                                     THEN "bypassed" ELSE last[u]
    BY <1>2, StatusFacts
  <2>2. "bypassed" \notin Company
    BY EventAssumption DEF Event
  <2>3. QED
    BY <1>0, <2>1, <2>2 DEF Suspended
<1>3. ASSUME NEW u \in User, NEW value, NEW event, AccountEffect(t, u, value, event)
      PROVE  Recoverable(db)'
  <2>1. /\ \A c \in Company : db'[c] = db[c]
        /\ last'[u] \notin Company /\ last'[u] # "bypassed"
        /\ \A v \in User \ {u} : db'[v] = db[v] /\ last'[v] = last[v]
    BY <1>3, AccountFacts, EventAssumption DEF AccountEvent
  <2>2. QED
    BY <1>0, <2>1 DEF Suspended
<1>4. ASSUME NEW c \in Company, Suspend(t, c)
      PROVE  Recoverable(db)'
  <2>1. /\ ~Suspended(db, c)
        /\ db'[c].status = "suspended" /\ db'[c].ids = Enabled(view[t], c)
        /\ \A d \in Company \ {c} : db'[d] = db[d]
        /\ \A u \in Enabled(view[t], c) : db'[u] = "disabled" /\ last'[u] = c
        /\ \A u \in User \ Enabled(view[t], c) : db'[u] = db[u] /\ last'[u] = last[u]
    BY <1>4, SuspendFacts
  <2>2. c # "bypassed"
    BY EventAssumption DEF Event
  <2>3. QED
    BY <1>0, <2>1, <2>2 DEF Suspended
<1>5. ASSUME NEW c \in Company, Resume(t, c)
      PROVE  Recoverable(db)'
  <2>1. /\ \A d \in Company \ {c} : db'[d] = db[d]
        /\ \A u \in db[c].ids \cap User : last'[u] = "resumed"
        /\ \A u \in User \ db[c].ids : db'[u] = db[u] /\ last'[u] = last[u]
    BY <1>5, ResumeFacts
  <2>2. "resumed" \notin Company
    BY EventAssumption DEF Event
  <2>3. QED
    BY <1>0, <2>1, <2>2 DEF Suspended
<1>6. QED
  BY <1>1, <1>2, <1>3, <1>4, <1>5 DEF Effect

(* An account disabled while an organization of its is suspended is told   *)
(* apart, and a list names members of its organization only.               *)
LEMMA EffectKeepsUnlisted ==
  ASSUME IInv, NEW t \in Txn, Effect(t)
  PROVE  Unlisted(db)'
<1> USE RowAssumption DEF Unlisted
<1>0. Unlisted(db)
  BY DEF IInv
<1>1. CASE (BeginTxn(t) \/ AbortTxn(t)) /\ UNCHANGED last
  BY <1>0, <1>1 DEF BeginTxn, AbortTxn, Suspended
<1>2. ASSUME NEW c \in Company, NEW row, StatusEffect(t, c, row)
      PROVE  Unlisted(db)'
  <2>1. /\ db'[c] = db[c] \/ db'[c].status # "suspended"
        /\ \A u \in User : last'[u] = last[u] \/ last'[u] = "bypassed"
        /\ \A d \in Company \ {c} : db'[d] = db[d]
    BY <1>2, StatusFacts
  <2>2. QED
    BY <1>0, <2>1 DEF Suspended
<1>3. ASSUME NEW u \in User, NEW value, NEW event, AccountEffect(t, u, value, event)
      PROVE  Unlisted(db)'
  <2>1. /\ \A c \in Company : db'[c] = db[c]
        /\ last'[u] = "disabled" => ~\E c \in Member[u] : Suspended(db, c)
        /\ \A v \in User \ {u} : last'[v] = last[v]
    BY <1>3, AccountFacts
  <2>2. \A c \in Company : u \in db[c].ids => c \in Member[u]
    BY DEF IInv, TypeOK, RowTypeOK, MembersOf
  <2>3. QED
    BY <1>0, <2>1, <2>2 DEF Suspended
<1>4. ASSUME NEW c \in Company, Suspend(t, c)
      PROVE  Unlisted(db)'
  <2>1. /\ db'[c].ids = Enabled(view[t], c)
        /\ \A d \in Company \ {c} : db'[d] = db[d]
        /\ \A u \in Enabled(view[t], c) : last'[u] = c
        /\ \A u \in User \ Enabled(view[t], c) : last'[u] = last[u]
    BY <1>4, SuspendFacts
  <2>2. c # "disabled"
    BY EventAssumption DEF Event
  <2>3. QED
    BY <1>0, <2>1, <2>2 DEF Suspended
<1>5. ASSUME NEW c \in Company, Resume(t, c)
      PROVE  Unlisted(db)'
  <2>1. /\ db'[c].ids = {}
        /\ \A d \in Company \ {c} : db'[d] = db[d]
        /\ \A u \in db[c].ids \cap User : last'[u] = "resumed"
        /\ \A u \in User \ db[c].ids : last'[u] = last[u]
    BY <1>5, ResumeFacts
  <2>2. QED
    BY <1>0, <2>1 DEF Suspended
<1>6. QED
  BY <1>1, <1>2, <1>3, <1>4, <1>5 DEF Effect

(* The invariant of every reachable state.                                 *)
THEOREM InductiveInvariant == Spec => []IInv
<1>1. IInv /\ [Next]_vars => IInv'
  <2> SUFFICES ASSUME IInv, [Next]_vars PROVE IInv'
    OBVIOUS
  <2>1. CASE Next
    <3>1. PICK t \in Txn : Effect(t)
      BY <2>1, NextEffect DEF IInv
    <3>2. QED
      BY <3>1, EffectKeepsDiscipline, EffectKeepsType, EffectKeepsRecoverable,
         EffectKeepsUnlisted DEF IInv
  <2>2. CASE UNCHANGED vars
    <3>1. Discipline'
      BY <2>2, DisciplineStutter DEF vars, IInv
    <3>2. QED
      BY <2>2, <3>1 DEF vars, dbVars, IInv, TypeOK, RowTypeOK, Suspended,
                        Recoverable, Unlisted
  <2>3. QED BY <2>1, <2>2
<1>2. QED
  BY Initially, <1>1, PTL DEF Spec

(* An account that nobody touched since a suspension disabled it can be    *)
(* restored, unless an operator activated the organization or started a    *)
(* trial of it instead of resuming it (suspend_company, resume_company,    *)
(* convert_to_active, mark_trial).                                         *)
THEOREM NobodyIsStranded == Spec => []NobodyStranded
<1>1. IInv => NobodyStranded
  BY DEF IInv, Recoverable, NobodyStranded
<1>2. QED
  BY InductiveInvariant, <1>1, PTL

-----------------------------------------------------------------------------
LEMMA SuspensionKept ==
  ASSUME IInv, NEW t \in Txn, Effect(t), NEW c \in Company,
         Suspended(db, c), Suspended(db', c)
  PROVE  db'[c] = db[c]
<1> USE RowAssumption DEF Suspended
<1>1. CASE BeginTxn(t) \/ AbortTxn(t)
  BY <1>1 DEF BeginTxn, AbortTxn
<1>2. ASSUME NEW d \in Company, NEW row, StatusEffect(t, d, row)
      PROVE  db'[c] = db[c]
  BY <1>2, StatusFacts
<1>3. ASSUME NEW u \in User, NEW value, NEW event, AccountEffect(t, u, value, event)
      PROVE  db'[c] = db[c]
  BY <1>3, AccountFacts
<1>4. ASSUME NEW d \in Company, Suspend(t, d)
      PROVE  db'[c] = db[c]
  BY <1>4, SuspendFacts
<1>5. ASSUME NEW d \in Company, Resume(t, d)
      PROVE  db'[c] = db[c]
  <2>1. /\ d # c => db'[c] = db[c]
        /\ db'[d].status = db[d].from /\ db[d].status = "suspended"
    BY <1>5, ResumeFacts
  <2>2. db[d].from # "suspended"
    BY <2>1 DEF IInv, TypeOK, RowTypeOK
  <2>3. QED
    BY <2>1, <2>2
<1>6. QED
  BY <1>1, <1>2, <1>3, <1>4, <1>5 DEF Effect

LEMMA DisabledNotResumed ==
  ASSUME IInv, NEW t \in Txn, Effect(t), NEW u \in User, last[u] = "disabled"
  PROVE  last'[u] # "resumed"
<1> USE RowAssumption
<1>1. CASE UNCHANGED last
  BY <1>1
<1>2. ASSUME NEW c \in Company, NEW row, StatusEffect(t, c, row)
      PROVE  last'[u] = last[u] \/ last'[u] = "bypassed"
  BY <1>2, StatusFacts
<1>3. ASSUME NEW v \in User, NEW value, NEW event,
             AccountEffect(t, v, value, event)
      PROVE  last'[u] # "resumed"
  BY <1>3, AccountFacts DEF Event, AccountEvent
<1>4. ASSUME NEW c \in Company, Suspend(t, c)
      PROVE  last'[u] # "resumed"
  <2>1. last'[u] = c \/ last'[u] = last[u]
    BY <1>4, SuspendFacts
  <2>2. c # "resumed"
    BY EventAssumption DEF Event
  <2>3. QED
    BY <2>1, <2>2
<1>5. ASSUME NEW c \in Company, Resume(t, c)
      PROVE  last'[u] # "resumed"
  <2>1. Suspended(db, c) /\ (u \notin db[c].ids => last'[u] = last[u])
    BY <1>5, ResumeFacts
  <2>2. u \notin db[c].ids
    BY <2>1 DEF IInv, Unlisted
  <2>3. QED
    BY <2>1, <2>2
<1>6. QED
  BY <1>1, <1>2, <1>3, <1>4, <1>5 DEF Effect

(* What a suspension finds is kept until the organization is resumed, and  *)
(* nobody disabled beforehand is enabled by it (suspend_company,           *)
(* resume_company, and the requests that touch accounts between them).     *)
THEOREM RecoveryIsKept == Spec => RecoveryKept
<1> DEFINE A == /\ \A c \in Company :
                     Suspended(db, c) /\ Suspended(db', c) => db'[c] = db[c]
                /\ \A u \in User : last[u] = "disabled" => last'[u] # "resumed"
<1>1. IInv /\ [Next]_vars => [A]_vars
  BY NextEffect, SuspensionKept, DisabledNotResumed DEF IInv
<1>2. QED
  BY InductiveInvariant, <1>1, PTL DEF Spec, RecoveryKept

LEMMA EnabledWhenResumed ==
  ASSUME IInv, NEW t \in Txn, Effect(t), NEW u \in User,
         last[u] # "enabled", last'[u] = "enabled"
  PROVE  ~Suspended(db', Home[u])
<1> USE RowAssumption
<1>1. CASE UNCHANGED last
  BY <1>1
<1>2. ASSUME NEW c \in Company, NEW row, StatusEffect(t, c, row)
      PROVE  last'[u] = last[u] \/ last'[u] = "bypassed"
  BY <1>2, StatusFacts
<1>3. ASSUME NEW v \in User, NEW value, NEW event, AccountEffect(t, v, value, event)
      PROVE  ~Suspended(db', Home[u])
  <2>1. /\ event = "enabled" => ~Suspended(db, Home[v])
        /\ last'[v] = event /\ (u # v => last'[u] = last[u])
        /\ db'[Home[u]] = db[Home[u]]
    BY <1>3, AccountFacts, MemberAssumption
  <2>2. QED
    BY <2>1 DEF Suspended
<1>4. ASSUME NEW c \in Company, Suspend(t, c)
      PROVE  last'[u] = last[u] \/ last'[u] # "enabled"
  <2>1. c # "enabled"
    BY EventAssumption DEF Event
  <2>2. u \in Enabled(view[t], c) => last'[u] = c
    BY <1>4, SuspendFacts
  <2>3. u \notin Enabled(view[t], c) => last'[u] = last[u]
    BY <1>4, SuspendFacts
  <2>4. QED
    BY <2>1, <2>2, <2>3
<1>5. ASSUME NEW c \in Company, Resume(t, c)
      PROVE  last'[u] = last[u] \/ last'[u] # "enabled"
  BY <1>5, ResumeFacts
<1>6. QED
  BY <1>1, <1>2, <1>3, <1>4, <1>5 DEF Effect

(* The console enables nobody whose organization is suspended by then,     *)
(* although it reads the status without a lock (manage_person).            *)
THEOREM EnabledAfterResumption == Spec => EnabledAfterResume
<1> DEFINE A == \A u \in User :
                  last[u] # "enabled" /\ last'[u] = "enabled" => ~Suspended(db', Home[u])
<1>1. IInv /\ [Next]_vars => [A]_vars
  BY NextEffect, EnabledWhenResumed DEF IInv
<1>2. QED
  BY InductiveInvariant, <1>1, PTL DEF Spec, EnabledAfterResume

LEMMA EscapesAreMissed ==
  ASSUME IInv, NEW t \in Txn, Effect(t), NEW c \in Company, NEW s \in active \ active',
         ~Suspended(db, c), Suspended(db', c)
  PROVE  Enabled(db', c) \subseteq missed[s]
<1> USE RowAssumption DEF Suspended
<1>1. CASE BeginTxn(t) \/ AbortTxn(t)
  BY <1>1 DEF BeginTxn, AbortTxn
<1>2. ASSUME NEW d \in Company, NEW row, StatusEffect(t, d, row)
      PROVE  FALSE
  BY <1>2, StatusFacts
<1>3. ASSUME NEW u \in User, NEW value, NEW event, AccountEffect(t, u, value, event)
      PROVE  FALSE
  BY <1>3, AccountFacts
<1>4. ASSUME NEW d \in Company, Suspend(t, d)
      PROVE  Enabled(db', c) \subseteq missed[s]
  <2>1. /\ c # d => db'[c] = db[c]
        /\ s = t /\ t \in active
        /\ \A u \in Enabled(view[t], d) : db'[u] = "disabled"
        /\ \A u \in User \ Enabled(view[t], d) : db'[u] = db[u]
    BY <1>4, SuspendFacts
  <2>2. c = d
    BY <2>1
  <2>3. ASSUME NEW u \in Enabled(db', c) PROVE u \in missed[t]
    <3>1. u \in MembersOf(c) /\ u \in User /\ db'[u] = "enabled"
      BY DEF Enabled, MembersOf
    <3>2. u \notin Enabled(view[t], c) /\ db[u] = "enabled"
      BY <2>1, <2>2, <3>1
    <3>3. view[t][u] # db[u]
      BY <3>1, <3>2 DEF Enabled
    <3>4. QED
      BY <2>1, <3>1, <3>3 DEF IInv, Discipline, ViewsCurrent
  <2>4. QED
    BY <2>1, <2>3
<1>5. ASSUME NEW d \in Company, Resume(t, d)
      PROVE  FALSE
  <2>1. /\ d # c => db'[c] = db[c]
        /\ db'[d].status = db[d].from /\ db[d].status = "suspended"
    BY <1>5, ResumeFacts
  <2>2. QED
    BY <2>1
<1>6. QED
  BY <1>1, <1>2, <1>3, <1>4, <1>5 DEF Effect

(* Only somebody whose account was created or enabled after a suspending   *)
(* request took its snapshot keeps access through it (suspend_company).    *)
THEOREM NewcomersAloneEscape == Spec => OnlyNewcomersEscape
<1> DEFINE A == \A c \in Company, t \in active \ active' :
                  ~Suspended(db, c) /\ Suspended(db', c) => Enabled(db', c) \subseteq missed[t]
<1>1. IInv /\ [Next]_vars => [A]_vars
  BY NextEffect, EscapesAreMissed DEF IInv
<1>2. QED
  BY InductiveInvariant, <1>1, PTL DEF Spec, OnlyNewcomersEscape

-----------------------------------------------------------------------------
(* Setting organizations up.                                               *)
LEMMA SettingsAgain ==
  ASSUME NEW settings, NEW given
  PROVE  SettingsAfter(SettingsAfter(settings, given), given) = SettingsAfter(settings, given)
BY DEF SettingsAfter

LEMMA PeriodsAgain ==
  ASSUME NEW periods, NEW start \in Int, NEW end \in Int, start <= end
  PROVE  PeriodsAfter(PeriodsAfter(periods, start, end), start, end)
           = PeriodsAfter(periods, start, end)
<1> DEFINE new == [start |-> start, end |-> end, state |-> "open"]
<1>1. CASE \E p \in periods : p.start <= end /\ start <= p.end
  BY <1>1 DEF PeriodsAfter
<1>2. CASE ~\E p \in periods : p.start <= end /\ start <= p.end
  <2>1. PeriodsAfter(periods, start, end) = periods \cup {new} BY <1>2 DEF PeriodsAfter
  <2>2. new.start <= end /\ start <= new.end OBVIOUS
  <2>3. \E p \in periods \cup {new} : p.start <= end /\ start <= p.end BY <2>2
  <2> HIDE DEF new
  <2> QED BY <2>1, <2>3 DEF PeriodsAfter
<1> QED BY <1>1, <1>2

(* After the journals are set up no type is missing.                       *)
LEMMA NoneMissing ==
  ASSUME NEW books
  PROVE  MissingTypes(BooksAfter(books).journals) = {}
<1> DEFINE missing == MissingTypes(books.journals)
           journals == JournalsAfter(books, missing)
<1>1. BooksAfter(books).journals = journals BY DEF BooksAfter
<1>2. ASSUME NEW type \in DOMAIN TrialJournals PROVE \E j \in journals : j.type = type
  <2>1. CASE type \in missing
    <3> DEFINE code == FreeCode(TrialJournals[type], {j.code : j \in books.journals})
               new == [type |-> type, suspense |-> books.suspense, code |-> code]
    <3>1. new \in journals BY <2>1 DEF JournalsAfter
    <3>2. new.type = type OBVIOUS
    <3> QED BY <3>1, <3>2
  <2>2. CASE type \notin missing BY <2>2 DEF MissingTypes, JournalsAfter
  <2> QED BY <2>1, <2>2
<1> HIDE DEF journals
<1> QED BY <1>1, <1>2 DEF MissingTypes

LEMMA JournalsAgain ==
  ASSUME NEW books
  PROVE  BooksAfter(BooksAfter(books)) = BooksAfter(books)
<1> DEFINE after == BooksAfter(books)
<1>1. JournalsAfter(after, {}) = after.journals BY DEF JournalsAfter
<1>2. after.journals = JournalsAfter(books, MissingTypes(books.journals))
      /\ after.matchable = Matchable(books, after.journals)
      /\ after.accounts = books.accounts /\ after.suspense = books.suspense
  BY DEF BooksAfter
<1>3. Matchable(after, after.journals) = after.matchable
  <2> HIDE DEF after
  <2> QED BY <1>2, Zenon DEF Matchable
<1>4. after = [accounts |-> after.accounts, suspense |-> after.suspense,
               journals |-> after.journals, matchable |-> after.matchable]
  BY DEF BooksAfter
<1>5. MissingTypes(after.journals) = {} BY NoneMissing
<1> HIDE DEF after
<1>6. BooksAfter(after) = [accounts |-> after.accounts, suspense |-> after.suspense,
               journals |-> JournalsAfter(after, {}),
               matchable |-> Matchable(after, JournalsAfter(after, {}))]
  BY <1>5 DEF BooksAfter
<1>7. BooksAfter(after) = after BY <1>1, <1>3, <1>4, <1>6
<1> QED BY <1>7 DEF after

(* A template is loaded once, or loads nothing.                            *)
LEMMA ChartAgain ==
  ASSUME NEW books, NEW chart
  PROVE  /\ ChartAfter(ChartAfter(books, chart), chart) = ChartAfter(books, chart)
         /\ ChartAfter(BooksAfter(ChartAfter(books, chart)), chart)
              = BooksAfter(ChartAfter(books, chart))
<1> DEFINE charted == ChartAfter(books, chart)
           after == BooksAfter(charted)
<1>1. ChartAfter(charted, chart) = charted BY DEF ChartAfter
<1>2. after.accounts = charted.accounts /\ after.suspense = charted.suspense
      /\ charted.journals \subseteq after.journals
      /\ after = [accounts |-> after.accounts, suspense |-> after.suspense,
                  journals |-> after.journals, matchable |-> after.matchable]
  BY DEF BooksAfter, JournalsAfter
<1>3. CASE charted.accounts # {} BY <1>2, <1>3 DEF ChartAfter
<1>4. CASE charted.accounts = {}
  <2>1. charted.suspense = chart.suspense /\ chart.accounts = {}
        /\ chart.journals \subseteq charted.journals
    BY <1>4 DEF ChartAfter
  <2> HIDE DEF after, charted
  <2>2. after.journals \cup chart.journals = after.journals BY <1>2, <2>1
  <2> QED BY <1>1, <1>2, <1>4, <2>1, <2>2 DEF ChartAfter, after, charted
<1> QED BY <1>1, <1>3, <1>4

(* However far a set-up came before it failed, the same set-up started     *)
(* again ends where it would have ended at once.                           *)
THEOREM SetupRetried ==
  ASSUME NEW company, NEW p, NEW n \in 0 .. AllSteps,
         p.start \in Int, p.end \in Int, p.start <= p.end
  PROVE  Baseline(AllSteps, Baseline(n, company, p), p) = Baseline(AllSteps, company, p)
<1> DEFINE partial == Baseline(n, company, p)
           whole == Baseline(AllSteps, company, p)
           again == Baseline(AllSteps, partial, p)
<1>1. again.settings = whole.settings BY SettingsAgain DEF Baseline, AllSteps
<1>2. again.periods = whole.periods BY PeriodsAgain DEF Baseline, AllSteps
<1>3. again.books = whole.books
  <2>1. again.books = BooksAfter(ChartAfter(partial.books, p.chart))
        /\ whole.books = BooksAfter(ChartAfter(company.books, p.chart))
    BY DEF Baseline, AllSteps
  <2>2. \/ partial.books = company.books
        \/ partial.books = ChartAfter(company.books, p.chart)
        \/ partial.books = BooksAfter(ChartAfter(company.books, p.chart))
    BY DEF Baseline
  <2> QED BY <2>1, <2>2, ChartAgain, JournalsAgain
<1>4. again = [settings |-> again.settings, books |-> again.books, periods |-> again.periods]
      /\ whole = [settings |-> whole.settings, books |-> whole.books, periods |-> whole.periods]
  BY DEF Baseline
<1> HIDE DEF again, whole
<1>5. again = whole BY <1>1, <1>2, <1>3, <1>4
<1> QED BY <1>5 DEF again, whole

(* A request for an account may be sent again: the second changes nothing. *)
THEOREM ProvisionedAgain ==
  ASSUME NEW account, NEW q, NEW platform, NEW all, account = NoAccount => q.password # ""
  PROVE  LET once == Provisioned(account, q, platform, all) IN
         Provisioned(once, q, platform, all) = once
<1> DEFINE once == Provisioned(account, q, platform, all)
<1>1. once # NoAccount
  <2>1. once.exists /\ ~NoAccount.exists BY DEF Provisioned, NoAccount
  <2> QED BY <2>1
<1>2. once.landing # NoRecord BY DEF Provisioned, LandingFor, NoRecord
<1> QED BY <1>1, <1>2 DEF Provisioned

(* An administrator may manage whomever he creates in a company of his,    *)
(* except another administrator.                                           *)
THEOREM CreatorManages ==
  ASSUME NEW actor, NEW form, NEW company, NEW platform, NEW all,
         company.name \in actor.companies,
         EmployeeAllowed(actor, form, company), form.role \in Roles \ {"administrator"}
  PROVE  MayManage(actor,
           Provisioned(NoAccount, EmployeeRequest(form, company), platform, all))
<1> DEFINE q == EmployeeRequest(form, company)
           new == Provisioned(NoAccount, q, platform, all)
<1>1. ~AsOwner(q) BY DEF AsOwner, EmployeeRequest
<1>2. new.companies = {company.name} /\ new.groups = {"user", form.role} /\ ~new.owner
  BY <1>1 DEF Provisioned, CompaniesFor, GroupsFor, EmployeeRequest
<1>3. form.role # "system" /\ form.role # "administrator" BY DEF Roles
<1> QED BY <1>2, <1>3 DEF MayManage

===============================================================================
