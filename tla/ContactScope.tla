----------------------------- MODULE ContactScope -----------------------------
(***************************************************************************)
(* Whose contacts a user sees and changes (contact_isolation.py).  The     *)
(* module is the access rules themselves: a book of contacts, a caller and *)
(* the operators that say what he may read, write, name in a document and  *)
(* receive over the bus.                                                   *)
(*                                                                         *)
(* A contact belongs to one company, or to none and is shared with some,   *)
(* or is an identity: the profile of a user or the contact of a company.   *)
(***************************************************************************)
EXTENDS Naturals

CONSTANTS
  Contact,
  Assistant,    \* the contact of the system's assistant, base.partner_root
  Unassigned,   \* no company
  NoParent      \* no parent contact

ASSUME ContactAssumption == Assistant \in Contact /\ NoParent \notin Contact

(* accounts are the users whose profile the contact is, entityOf the       *)
(* companies whose contact it is.                                          *)
ContactRow(Company, Account) ==
  [company : Company \cup {Unassigned}, shared : SUBSET Company,
   accounts : SUBSET Account, entityOf : SUBSET Company,
   parent : Contact \cup {NoParent}]

(* home is the company_id of a user and companies his company_ids.         *)
AccountRow(Company) ==
  [home : Company, companies : SUBSET Company, owner : BOOLEAN, root : BOOLEAN,
   internal : BOOLEAN]

(* active is the validated company_ids of the request, current the first   *)
(* of them; trusted marks a superuser environment.                         *)
CallerRow(Company) ==
  [role : {"owner", "internal", "external"}, companies : SUBSET Company,
   active : SUBSET Company, current : Company, profile : Contact,
   settings : BOOLEAN, trusted : BOOLEAN]

-----------------------------------------------------------------------------
(* _compute_contact_identity.                                              *)
IsIdentity(p) == p.accounts # {} \/ p.entityOf # {}

IdentityCompanies(p) ==
  p.entityOf \cup UNION {a.companies : a \in {a \in p.accounts : ~a.root /\ ~a.owner}}

(* company_contact_domain.                                                 *)
Owned(p, companies) == ~IsIdentity(p) /\ p.company \in companies

AvailableTo(p, companies) ==
  \/ Owned(p, companies)
  \/ IsIdentity(p) /\ IdentityCompanies(p) \cap companies # {}
  \/ ~IsIdentity(p) /\ p.company = Unassigned /\ p.shared \cap companies # {}

(* What a scheduled task, which has no tenant user, checks before it       *)
(* creates a document and before it posts one.                             *)
PartnersInScope(book, company, contacts) ==
  \A c \in contacts : AvailableTo(book[c], {company})

MoveContacts(move) ==
  {move.partner, move.commercial, move.shipping, move.bankHolder}
    \cup move.linePartners

MoveInScope(book, move) == PartnersInScope(book, move.company, MoveContacts(move) \ {NoParent})

-----------------------------------------------------------------------------
(* _thirdcode_contact_domain: the record rules.                            *)
Scope(caller) == caller.active \cap caller.companies

SharesOnly(p) == \A a \in p.accounts : ~a.internal

ExternalReads(caller, p) ==
  ~SharesOnly(p) \/ p.company \in caller.active \cup {Unassigned}

Readable(caller, book) ==
  IF caller.role = "owner" THEN Contact
  ELSE IF caller.role = "external" THEN {c \in Contact : ExternalReads(caller, book[c])}
  ELSE {c \in Contact : AvailableTo(book[c], Scope(caller))}
         \cup {caller.profile, Assistant}

(* A Settings administrator may also write the identities of his companies.*)
Administers(caller, p) ==
  caller.settings /\ IsIdentity(p) /\ IdentityCompanies(p) \cap Scope(caller) # {}

Writable(caller, book) ==
  IF caller.role = "owner" THEN Contact
  ELSE IF caller.role = "external" THEN {c \in Contact : ExternalReads(caller, book[c])}
  ELSE {c \in Contact : Owned(book[c], Scope(caller)) \/ Administers(caller, book[c])}
         \cup {caller.profile}

(* The holders whose bank accounts the caller reads and writes.            *)
BankReadable(caller, book) ==
  IF caller.role # "internal" THEN Readable(caller, book)
  ELSE {c \in Contact : AvailableTo(book[c], Scope(caller))} \cup {caller.profile}

BankWritable(caller, book) ==
  IF caller.role # "internal" THEN Writable(caller, book)
  ELSE {c \in Contact : \/ Owned(book[c], Scope(caller))
                        \/ book[c].entityOf \cap Scope(caller) # {}}
         \cup {caller.profile}

(* _thirdcode_user_domain: is the user a, with the profile c, shown to him?*)
SeesAccount(caller, c, a) ==
  \/ caller.role = "owner"
  \/ ~a.root /\ (c = caller.profile
                 \/ (a.companies \cap caller.active # {} /\ ~a.owner))

-----------------------------------------------------------------------------
(* A change of a contact is a function from the fields it writes.          *)
Unchecked(caller) == caller.trusted \/ caller.role = "owner"

Misaligned(p, company) ==
  p.company # company /\ ~\E a \in p.accounts : a.home = company

(* _check_contact_scope_values; own is the company of the contact that is  *)
(* written, or Unassigned for a new one.                                   *)
ValuesAllowed(caller, book, own, values) ==
  /\ "scope" \in DOMAIN values => caller.role = "owner"
  /\ ~Unchecked(caller) =>
       /\ "company" \in DOMAIN values => values.company \in caller.active
       /\ "parent" \in DOMAIN values /\ values.parent # NoParent =>
            /\ values.parent \in Readable(caller, book) \cap Writable(caller, book)
            /\ book[values.parent].company =
                 IF "company" \in DOMAIN values THEN values.company
                 ELSE IF own # Unassigned THEN own ELSE caller.current
       /\ "children" \in DOMAIN values => values.children \subseteq Writable(caller, book)

(* create: a tenant's contact belongs to a company in any case.            *)
WithCompany(caller, values) ==
  IF Unchecked(caller) \/ ("company" \in DOMAIN values /\ values.company # Unassigned)
  THEN values
  ELSE [f \in DOMAIN values \cup {"company"} |->
          IF f = "company" THEN caller.current ELSE values[f]]

CreateAllowed(caller, book, values) ==
  ValuesAllowed(caller, book, Unassigned, WithCompany(caller, values))

(* What is stored of them in the new contact n.                            *)
Created(book, n, stored) ==
  [d \in Contact |->
     IF d # n THEN book[d]
     ELSE [company |-> stored.company, shared |-> {}, accounts |-> {}, entityOf |-> {},
           parent |-> IF "parent" \in DOMAIN stored THEN stored.parent ELSE NoParent]]

(* write of one contact.                                                   *)
WriteAllowed(caller, book, c, values) ==
  /\ Unchecked(caller) \/ c \in Writable(caller, book)
  /\ ValuesAllowed(caller, book, book[c].company, values)
  /\ ~Unchecked(caller) /\ "company" \in DOMAIN values => ~Misaligned(book[c], values.company)

(* The native write hands a new company down to all descendants, each of   *)
(* them written with the caller's rights.                                  *)
Tree(book, c) ==
  {d \in Contact : \A S \in SUBSET Contact :
     c \in S /\ (\A e \in Contact : book[e].parent \in S => e \in S) => d \in S}

TreeWriteAllowed(caller, book, c, values) ==
  /\ WriteAllowed(caller, book, c, values)
  /\ "company" \in DOMAIN values =>
       \A d \in Tree(book, c) \ {c} :
         WriteAllowed(caller, book, d, [f \in {"company"} |-> values.company])

Written(book, c, values) ==
  LET moved == "company" \in DOMAIN values
      hung == "parent" \in DOMAIN values IN
  [d \in Contact |->
     [company |-> IF moved /\ d \in Tree(book, c) THEN values.company ELSE book[d].company,
      parent |-> IF hung /\ d = c THEN values.parent ELSE book[d].parent,
      shared |-> book[d].shared, accounts |-> book[d].accounts,
      entityOf |-> book[d].entityOf]]

(* _check_partner_target of a bank account; holder is its present holder.  *)
BankTargetAllowed(caller, book, entities, holder, target) ==
  \/ Unchecked(caller)
  \/ /\ target \in Readable(caller, book)
     /\ target \in entities \/ target \in Writable(caller, book)
     /\ holder \in {NoParent, target}

-----------------------------------------------------------------------------
(* The upgrade: every unowned business contact some document of a company  *)
(* names, and every such contact above it, is shared with that company.    *)
Above(book, c) == {d \in Contact : c \in Tree(book, d)}

Grants(book, refs, d) ==
  {ref[2] : ref \in {ref \in refs : d \in Above(book, ref[1])}}

Backfilled(book, refs) ==
  [d \in Contact |->
     IF book[d].company = Unassigned /\ ~IsIdentity(book[d])
     THEN [book[d] EXCEPT !.shared = @ \cup Grants(book, refs, d)] ELSE book[d]]

-----------------------------------------------------------------------------
(* check_partner_reference: the company whose rules decide is the one the  *)
(* values name, that of their move, of their journal, of the record, or    *)
(* the current one.                                                        *)
ReferenceCompany(caller, candidates) ==
  LET named == {i \in DOMAIN candidates : candidates[i] # Unassigned} IN
  IF named = {} THEN caller.current
  ELSE candidates[CHOOSE i \in named : \A j \in named : i <= j]

ReadableIn(caller, book, company) ==
  Readable([caller EXCEPT !.active = {company}], book)

ReferencesAllowed(caller, book, candidates, contacts) ==
  Unchecked(caller) \/ contacts \subseteq ReadableIn(caller, book, ReferenceCompany(caller, candidates))

(* What a create or a write of a move, line or payment must satisfy: the   *)
(* values before, and every stored reference in the record's own company   *)
(* after.                                                                  *)
DocumentAccepted(caller, book, candidates, named, company, stored) ==
  /\ ReferencesAllowed(caller, book, candidates, named)
  /\ Unchecked(caller) \/ stored \subseteq ReadableIn(caller, book, company)

-----------------------------------------------------------------------------
(* Messages.  A message is an author, its recipients and an address.       *)
HiddenPartners(caller, book, messages) ==
  IF caller.role # "internal" THEN {}
  ELSE UNION {{m.author} \cup m.recipients : m \in messages}
         \ (Readable(caller, book) \cup {NoParent})

FormattedMessage(hidden, m) ==
  [author |-> IF m.author \in hidden THEN NoParent ELSE m.author,
   address |-> m.address /\ m.author \notin hidden,
   recipients |-> m.recipients \ hidden]

ExportAllowed(caller, book, messages, fields) ==
  fields \cap {"author_id", "email_from", "partner_ids"} # {} =>
    HiddenPartners(caller, book, messages) = {}

(* Members of a channel that a caller is listed.                           *)
SubscribedVisibly(caller, book, candidates) ==
  IF caller.role = "owner" THEN candidates ELSE candidates \cap Readable(caller, book)

(* A Store payload: the personas it serializes, those it mentions, message *)
(* rows, member rows <<member, persona>>, call rows <<call, member>>, and  *)
(* what its channels add of members and calls.                             *)
PayloadRow(Member, Call, Message) ==
  [partners : SUBSET Contact, mentions : SUBSET Contact,
   messages : SUBSET Message,
   members : SUBSET (Member \X Contact), calls : SUBSET (Call \X Member),
   addedMembers : SUBSET Member, deletedMembers : SUBSET Member,
   addedCalls : SUBSET Call]

Named(data) ==
  data.partners \cup data.mentions \cup {row[2] : row \in data.members}
    \cup ({m.author : m \in data.messages} \ {NoParent})
    \cup UNION {m.recipients : m \in data.messages}

(* scope_contact_store: what is left for a receiver who sees visible.      *)
ScopedStore(data, visible) ==
  LET hidden == Named(data) \ visible
      goneMembers == {row[1] : row \in {row \in data.members : row[2] \in hidden}}
      goneCalls == {row[1] : row \in {row \in data.calls : row[2] \in goneMembers}} IN
  [data EXCEPT
     !.partners = @ \ hidden,
     !.mentions = @ \ hidden,
     !.messages = {FormattedMessage(hidden, m) : m \in @},
     !.members = {row \in @ : row[1] \notin goneMembers},
     !.calls = {row \in @ : row[1] \notin goneCalls},
     !.addedMembers = @ \ goneMembers,
     !.addedCalls = @ \ goneCalls]

(* _poll, the receiver's end of the bus.                                   *)
Received(caller, book, kind, data) ==
  IF caller.role = "internal"
     /\ kind \in {"mail.record/insert", "discuss.channel/new_message"}
  THEN ScopedStore(data, Readable(caller, book)) ELSE data

(* _to_store: a persona is serialized for whoever may read it, of the      *)
(* assistant only its public fields.                                       *)
Serialized(caller, book, contacts) ==
  IF caller.role = "internal" THEN contacts \cap Readable(caller, book) ELSE contacts

PublicFields(c, caller, fields) ==
  IF caller.role = "internal" /\ c = Assistant
  THEN fields \ {"user", "isAdmin", "notification_type", "signature"} ELSE fields
===============================================================================
