----------------------------- MODULE DiscussAccess -----------------------------
(***************************************************************************)
(* Who reaches a conversation, its messages, files, calls and              *)
(* notifications (discuss_isolation.py).  Each organization is a boundary  *)
(* of its own on top of the native membership of a channel; the owners and *)
(* the support staff of the platform are confined to its own workspace,    *)
(* Home.  The module is the checks themselves; who is a member when is     *)
(* CompanyDiscuss.                                                         *)
(***************************************************************************)
EXTENDS Naturals, FiniteSets

CONSTANTS
  Home,        \* the platform's company
  NoCompany,   \* a conversation nobody's organization owns
  NoChannel    \* a message or a file outside Discuss

(* root is uid 1, flagged the mark of platform owners, which is not enough *)
(* to be one; active are the validated allowed companies of the request    *)
(* and current the first of them.                                          *)
ViewerRow(Company, User) ==
  [user : User, signedIn : BOOLEAN, internal : BOOLEAN, staff : BOOLEAN,
   owner : BOOLEAN, flagged : BOOLEAN, root : BOOLEAN, companies : SUBSET Company,
   active : SUBSET Company, current : Company]

(* readers are the users whom the native rules of the channel let read it. *)
ConversationRow(Company, User) ==
  [company : Company \cup {NoCompany}, quarantined : BOOLEAN, general : BOOLEAN,
   readers : SUBSET User]

-----------------------------------------------------------------------------
ScopedCompanies(v) ==
  IF ~v.signedIn \/ ~v.internal THEN {}
  ELSE IF v.owner \/ v.staff THEN {Home} \cap v.companies
  ELSE (v.active \cap v.companies) \ {Home}

InScope(v, c) == ~c.quarantined /\ c.company \in ScopedCompanies(v)

(* _assert_company_scope and _assert_company_access of some conversations. *)
ScopeAllowed(v, channels) ==
  v.root \/ channels = {} \/ (v.signedIn /\ \A c \in channels : InScope(v, c))

AccessAllowed(v, channels) ==
  /\ ScopeAllowed(v, channels)
  /\ v.root \/ \A c \in channels : v.user \in c.readers

(* _eligible_partners, of the enabled accounts of the database.            *)
EligibleAccounts(accounts, c) ==
  {a \in accounts :
     /\ c.company # NoCompany /\ ~c.quarantined
     /\ a.internal /\ ~a.root /\ c.company \in a.companies
     /\ IF c.company = Home THEN a.owner \/ a.staff ELSE ~a.flagged /\ ~a.staff}

(* _assert_participants: eligible are the users of the conversation's own  *)
(* organization.  Guests take part in no conversation.                     *)
ParticipantsAllowed(v, c, eligible, bot, people, guests) ==
  \/ v.root
  \/ ScopeAllowed(v, {c}) /\ guests = {} /\ people \subseteq eligible \cup {bot}

(* _thirdcode_contact_domain: staff also read the platform's owners.       *)
StaffReads(v, accounts) ==
  /\ v.staff /\ Home \in ScopedCompanies(v)
  /\ \E a \in accounts : a.owner /\ Home \in a.companies

(* _check_support_role: only an owner makes somebody staff or changes the  *)
(* groups of staff.                                                        *)
GroupChangeAllowed(v, isStaff, grantsStaff) == (isStaff \/ grantsStaff) => v.owner \/ v.root

-----------------------------------------------------------------------------
(* create: the system assigns the organization of a conversation, that of  *)
(* its parent or the current one.                                          *)
ConversationCreateAllowed(v, names, parents) ==
  \/ v.root
  \/ /\ v.current \in ScopedCompanies(v)
     /\ names \cap {"thirdcode_company_id", "thirdcode_quarantined",
                    "thirdcode_general_company_id"} = {}
     /\ AccessAllowed(v, parents)

CreatedCompany(v, parents) ==
  IF parents = {} THEN v.current ELSE (CHOOSE p \in parents : TRUE).company

ConversationWriteAllowed(v, c, names) ==
  \/ v.root
  \/ /\ AccessAllowed(v, {c})
     /\ names \cap {"thirdcode_company_id", "thirdcode_quarantined",
                    "thirdcode_general_company_id", "allow_public_upload"} = {}

(* A channel's groups subscribe only those of its own organization.        *)
AutoSubscribed(groupMembers, eligible, members) == (groupMembers \cap eligible) \ members

(* An invitation the native controller validated needs no membership.      *)
AddMembersAllowed(v, c, invited, eligible, bot, people, guests) ==
  /\ IF invited THEN ScopeAllowed(v, {c}) ELSE AccessAllowed(v, {c})
  /\ ParticipantsAllowed(v, c, eligible, bot, people, guests)

PostAllowed(v, c, eligible, bot, recipients) ==
  AccessAllowed(v, {c}) /\ ParticipantsAllowed(v, c, eligible, bot, recipients, {})

-----------------------------------------------------------------------------
(* A message or a file hangs in the conversation its model and number name.*)
Link(m, channels) ==
  IF m.model = "discuss.channel" /\ m.res \in channels THEN m.res ELSE NoChannel

(* rows[id] is the conversation with the number id.                        *)
Linked(m, rows) ==
  {rows[id] : id \in {Link(m, DOMAIN rows)} \ {NoChannel}}

Target(m, rows) == {rows[id] : id \in {m.res} \cap DOMAIN rows}

MessageReadAllowed(v, m, rows) == AccessAllowed(v, Linked(m, rows))

HangAllowed(v, names, m, rows) ==
  \/ v.root
  \/ /\ "thirdcode_channel_id" \notin names
     /\ m.model = "discuss.channel" => AccessAllowed(v, Target(m, rows))

(* names are the fields a write gives a value, n the message after it.     *)
MessageWriteAllowed(v, names, m, n, rows) ==
  \/ v.root
  \/ /\ AccessAllowed(v, Linked(m, rows))
     /\ "thirdcode_channel_id" \notin names
     /\ names \cap {"model", "res_id"} # {} =>
          /\ Link(m, DOMAIN rows) = NoChannel
          /\ ~("model" \in names /\ n.model = "discuss.channel")

FileWriteAllowed(v, names, m, n, rows) ==
  \/ v.root
  \/ /\ AccessAllowed(v, Linked(m, rows))
     /\ "thirdcode_channel_id" \notin names
     /\ names \cap {"model", "res_id"} # {} /\ n.model = "discuss.channel" =>
          AccessAllowed(v, Target(n, rows))

(* A call connects the sessions of one conversation.                       *)
CallAllowed(v, c, peers) == AccessAllowed(v, {c}) /\ peers \subseteq {c}

-----------------------------------------------------------------------------
(* Notifications.  A payload names conversations itself, as the thread of  *)
(* a message, and through the message, member and call rows it carries.    *)
(* One that names a deleted conversation raises an error nobody catches.   *)
NoteRow(Id, Message, Member, Call) ==
  [kind : {"discuss.channel/delete", "discuss.channel/other", "other"},
   structured : BOOLEAN, id : Id, model : {"discuss.channel", "other"},
   channels : SUBSET Id, threads : SUBSET Id, messages : SUBSET Message,
   members : SUBSET Member, calls : SUBSET Call]

(* linkOf gives the conversation of a stored message, member or call.      *)
NamedConversations(note, linkOf) ==
  note.channels \cup note.threads
    \cup {linkOf[r] : r \in note.messages \cup note.members \cup note.calls}
    \cup (IF note.kind # "other" \/ note.model = "discuss.channel" THEN {note.id} ELSE {})

Checked(v, note) == ~v.root /\ note.structured /\ note.kind # "discuss.channel/delete"

NoteDelivered(v, note, linkOf, rows) ==
  Checked(v, note) =>
    AccessAllowed(v, {rows[id] : id \in NamedConversations(note, linkOf) \ {NoChannel}})

PollFails(v, notes, linkOf, rows) ==
  \E note \in notes :
    Checked(v, note) /\ ~(NamedConversations(note, linkOf) \subseteq DOMAIN rows \cup {NoChannel})

Delivered(v, notes, linkOf, rows) ==
  IF PollFails(v, notes, linkOf, rows) THEN {}
  ELSE {note \in notes : NoteDelivered(v, note, linkOf, rows)}

(* The people a chat may be opened with.                                   *)
ImSearched(readable, eligible, matching, self, excluded, found, limit) ==
  LET all == (readable \cap eligible \cap matching) \ ({self} \cup excluded) IN
  /\ found \subseteq all /\ Cardinality(found) <= limit
  /\ found # all => Cardinality(found) = limit

-----------------------------------------------------------------------------
(* The upgrade.  A conversation from before has participants (members,     *)
(* authors and recipients but the assistant) with their users, and is kept *)
(* only for the one organization all of them are in.                       *)
Single(companies) == \E o \in companies : companies = {o}

Settled(person) ==
  /\ person.accounts # {}
  /\ \A a \in person.accounts : ~a.share /\ Single(a.companies)

LegacyCompanies(c) == UNION {UNION {a.companies : a \in p.accounts} : p \in c.people}

Retained(c) ==
  /\ ~c.everybody /\ ~c.guests /\ ~c.anonymous
  /\ \A p \in c.people : Settled(p)
  /\ Single(LegacyCompanies(c))

(* Everything else is closed to everybody, and loses its calls and groups. *)
Installed(c) ==
  [company |-> IF Retained(c) THEN CHOOSE o \in LegacyCompanies(c) : TRUE ELSE NoCompany,
   quarantined |-> ~Retained(c), general |-> FALSE, readers |-> c.readers]
===============================================================================
