---------------------------- MODULE CompanyDiscuss ----------------------------
(***************************************************************************)
(* Who is in which conversation (discuss_isolation.py).  Every channel     *)
(* belongs to an organization, every organization has a General channel,   *)
(* and each change of a user runs _sync_company_channels in its request,   *)
(* which adds everybody eligible to General, archived or not, and takes out*)
(* of every channel of every organization that is not archived who is not. *)
(* The lock it takes on the companies changes no row, so it makes requests *)
(* wait without making them fail: the request that waited still reads its  *)
(* old snapshot.                                                           *)
(*                                                                         *)
(* Requests are transactions of SnapshotDB.  Membership is a row per       *)
(* channel and user.                                                       *)
(***************************************************************************)
EXTENDS Naturals, FiniteSets, SnapshotDB

CONSTANTS
  Organization,
  Platform,     \* the platform's own organization, if it is one of them
  User,
  Archivable,   \* the channels somebody may archive (a bound)
  Chat,         \* direct conversations users may open
  Host,         \* the organizations in which they open them (a bound)
  Profile,      \* the states a user's account may take (a bound)
  OneOverlap    \* whether at most one request commits while another is in progress (a bound)

\* orgs is company_ids; team marks owners and support staff of the platform.
ASSUME DiscussAssumption ==
  /\ Profile \subseteq [orgs : SUBSET Organization, active : BOOLEAN, team : BOOLEAN]
  /\ OneOverlap \in BOOLEAN

General(o) == <<"general", o>>
Generals == {General(o) : o \in Organization}
Channel == Chat \cup Generals
Member(c, u) == <<"member", c, u>>
Membership == {Member(c, u) : c \in Channel, u \in User}

ASSUME DiscussBounds == Archivable \subseteq Channel /\ Host \subseteq Organization

ASSUME DiscussRowAssumption ==
  /\ User \cup Channel \cup Membership \subseteq Row
  /\ User \cap Channel = {} /\ (User \cup Channel) \cap Membership = {}

-----------------------------------------------------------------------------
\* A channel's row says its organization, which nobody changes, and whether it
\* is in use (active) or archived.
OwnerOf(rows, c) == rows[c].org

MembersOf(rows, c) == {u \in User : rows[Member(c, u)] # Absent}

\* _eligible_partners.
Eligible(rows, o) ==
  {u \in User : /\ rows[u].active /\ o \in rows[u].orgs
                /\ rows[u].team = (o = Platform)}

Entitled(rows, c) == Eligible(rows, OwnerOf(rows, c))

\* The members each channel has after _sync_company_channels.
\* Mutant: only the General channels are gone through.
SyncedGenerals(rows, c) ==
  IF c \in Generals THEN Entitled(rows, c) ELSE MembersOf(rows, c)

SyncedMembers(rows, c) ==
  LET added == IF c \in Generals THEN Entitled(rows, c) ELSE {}
      kept == IF rows[c].active THEN MembersOf(rows, c) \cap Entitled(rows, c)
              ELSE MembersOf(rows, c) IN
  added \cup kept

\* The membership rows the synchronization inserts and deletes.
SyncWrites(rows) ==
  LET synced == [c \in {c \in Channel : rows[c] # Absent} |-> SyncedMembers(rows, c)]
      wrong == {m \in Membership :
                  /\ m[2] \in DOMAIN synced
                  /\ (rows[m] # Absent) # (m[3] \in synced[m[2]])} IN
  [m \in wrong |-> IF rows[m] = Absent THEN "in" ELSE Absent]

\* A database whose users have these profiles, after _install_company_discuss.
InitialRow(profiles, r) ==
  CASE r \in User -> profiles[r]
    [] r \in Generals ->
         [org |-> CHOOSE o \in Organization : r = General(o), active |-> TRUE]
    [] r \in Membership ->
         IF \E o \in Organization, u \in User :
              r = Member(General(o), u) /\ u \in Eligible(profiles, o)
         THEN "in" ELSE Absent
    [] OTHER -> Absent

-----------------------------------------------------------------------------
Asked(t) == t \in active

(* Bound: a request loses the race against one other commit at most.       *)
WithinBound(t) == OneOverlap => \A s \in active \ {t} : missed[s] = {}

Serve(t, new) == WithinBound(t) /\ CommitWith(t, new)

\* res.users create and write of what decides eligibility, with the sync.
WriteUser(t, u, profile) ==
  LET after == [view[t] EXCEPT ![u] = profile]
      sync == SyncWrites(after) IN
  /\ Asked(t) /\ profile # view[t][u]
  /\ Serve(t, [x \in {u} \cup DOMAIN sync |-> IF x = u THEN profile ELSE sync[x]])

\* _add_members by somebody of the channel's organization.
AddMember(t, c, u) ==
  /\ Asked(t) /\ Exists(t, c)
  /\ u \in Entitled(view[t], c) \ MembersOf(view[t], c)
  /\ Serve(t, [x \in {Member(c, u)} |-> "in"])

\* Native: a member leaves the conversation.
Leave(t, c, u) ==
  /\ Asked(t) /\ Exists(t, c) /\ u \in MembersOf(view[t], c)
  /\ Serve(t, [x \in {Member(c, u)} |-> Absent])

\* Native: a channel is archived, or taken out of the archive.
ArchiveChannel(t, c) ==
  /\ Asked(t) /\ Exists(t, c)
  /\ Serve(t, [x \in {c} |-> [view[t][c] EXCEPT !.active = ~@]])

\* channel_get: the chat of these people in this organization, or a new one;
\* no search finds what is archived.
OpenChat(t, c, o, people) ==
  /\ Asked(t) /\ ~Exists(t, c)
  /\ view[t][General(o)].active /\ people \subseteq Eligible(view[t], o)
  /\ \A d \in Chat : Exists(t, d) /\ view[t][d] = [org |-> o, active |-> TRUE] =>
       MembersOf(view[t], d) # people
  /\ Serve(t, [x \in {c} \cup {Member(c, u) : u \in people} |->
                      IF x = c THEN [org |-> o, active |-> TRUE] ELSE "in"])

DiscussStep ==
  \E t \in Txn :
    \/ \E u \in User, profile \in Profile : WriteUser(t, u, profile)
    \/ \E c \in Channel, u \in User : AddMember(t, c, u) \/ Leave(t, c, u)
    \/ \E c \in Archivable : ArchiveChannel(t, c)
    \/ \E c \in Chat, o \in Host, people \in SUBSET User \ {{}} :
         Cardinality(people) <= 2 /\ OpenChat(t, c, o, people)

-----------------------------------------------------------------------------
Stray(rows, c, u) == rows[c] # Absent /\ u \in MembersOf(rows, c) \ Entitled(rows, c)

\* Access to a conversation follows the account.  A request that changes a
\* user leaves nobody in a conversation in use whom it is not for, and no
\* request lets anybody into one, in use or archived, but where another
\* committed a change of the very account, conversation or membership since
\* its snapshot.  So a change of an account also takes out whom an earlier
\* race had left.
UserChangeRevokes ==
  [][\A t \in active \ active', c \in Channel, u \in User :
       /\ Stray(db', c, u)
       /\ \/ u \notin MembersOf(db, c)
          \/ db'[c].active /\ \E v \in User : db'[v] # db[v]
       => {u, c, Member(c, u)} \cap missed[t] # {}]_dbVars
===============================================================================
