-------------------------- MODULE MCPlatformServices --------------------------
(* Model-checking instance of PlatformServices, with two instances of the  *)
(* access rules of contacts and conversations.                             *)
EXTENDS PlatformServices, ContactScope, DiscussAccess

CONSTANTS acme, birch, profile, head, shop, branch, lone

MCRow == Proposal \cup Invoice \cup {Records, Publication}
         \cup User \cup Channel \cup Membership

(* Direct conversations: what is kept of them differs from a General.      *)
MCArchivable == Chat

(* A customer of either organization, and a disabled one of the first.     *)
MCProfile ==
  {[orgs |-> {o}, active |-> TRUE, team |-> FALSE] : o \in {acme, birch}}
  \cup {[orgs |-> {acme}, active |-> FALSE, team |-> FALSE]}

-----------------------------------------------------------------------------
(* A user of both organizations working in acme, whose contacts are a shop *)
(* with a branch; lone is an old contact nobody owns, head acme itself.    *)
Ana == [home |-> acme, companies |-> {acme, birch}, owner |-> FALSE, root |-> FALSE,
        internal |-> TRUE]

MCCaller == [role |-> "internal", companies |-> {acme, birch}, active |-> {acme, birch},
             current |-> acme, profile |-> profile, settings |-> TRUE, trusted |-> FALSE]

Plain(company, parent) ==
  [company |-> company, shared |-> {}, accounts |-> {}, entityOf |-> {}, parent |-> parent]

MCBook ==
  [c \in Contact |->
     IF c = profile THEN [Plain(birch, NoParent) EXCEPT !.accounts = {Ana}]
     ELSE IF c = head THEN [Plain(acme, NoParent) EXCEPT !.entityOf = {acme}]
     ELSE IF c = shop THEN Plain(acme, NoParent)
     ELSE IF c = branch THEN Plain(acme, shop)
     ELSE Plain(Unassigned, NoParent)]

MCValues ==
  {[company |-> o] : o \in Organization}
    \cup {[parent |-> p] : p \in Contact \cup {NoParent}}
    \cup {[company |-> o, parent |-> p] : o \in Organization, p \in Contact}

Aligned(book) ==
  \A d \in Contact : ~IsIdentity(book[d]) /\ book[d].parent # NoParent =>
    book[book[d].parent].company = book[d].company

Allowed == {<<c, values>> \in Contact \X MCValues :
              TreeWriteAllowed(MCCaller, MCBook, c, values)}

(* Of all these writes the allowed ones move his own profile to where he   *)
(* works, hang contacts under others of their company, and break no tree.  *)
ASSUME ContactWrites ==
  /\ \A w \in Allowed : Aligned(Written(MCBook, w[1], w[2]))
  /\ <<profile, [company |-> acme]>> \in Allowed
  /\ <<profile, [company |-> birch]>> \in Allowed
  /\ <<shop, [parent |-> head]>> \in Allowed
  /\ <<branch, [parent |-> NoParent]>> \in Allowed
  /\ <<branch, [company |-> acme, parent |-> head]>> \in Allowed
  /\ <<shop, [company |-> birch]>> \notin Allowed
  /\ <<lone, [company |-> acme]>> \notin Allowed
  /\ Backfilled(MCBook, {<<lone, birch>>})[lone].shared = {birch}
===============================================================================
