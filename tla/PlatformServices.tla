--------------------------- MODULE PlatformServices ---------------------------
(***************************************************************************)
(* The services around the books that keep state of their own: the sign-in *)
(* throttle, ORVEXA's task proposals, the website's publications and the   *)
(* conversations of Discuss.  They share the database and no row of it, so *)
(* one of them is at work and the others are at rest in each behaviour.    *)
(***************************************************************************)
EXTENDS SignInThrottle, OrvexaTasks, WebsitePublications, CompanyDiscuss

ASSUME PlatformRowAssumption ==
  /\ Row = Proposal \cup Invoice \cup {Records, Publication}
           \cup User \cup Channel \cup Membership
  /\ Publication \notin Proposal \cup Invoice \cup {Records}
  /\ (Proposal \cup Invoice \cup {Records, Publication})
       \cap (User \cup Channel \cup Membership) = {}

VARIABLE part   \* the service at work

vars == <<part, throttleVars, dbVars, expired, pubVars>>

(* The accounts while nobody is asking Discuss for anything.               *)
Resting == [u \in User |-> CHOOSE profile \in Profile : TRUE]

Init ==
  /\ part \in {"throttle", "orvexa", "website", "discuss"}
  /\ ThrottleInit /\ PublicationInit /\ expired = {}
  /\ \E profiles \in [User -> Profile] :
       /\ part # "discuss" => profiles = Resting
       /\ DBInitWith([r \in Row |-> IF r = Records THEN 1 ELSE InitialRow(profiles, r)])

Begin(t) == BeginTxn(t) /\ UNCHANGED <<expired, pubVars>>

Abort(t) == AbortTxn(t) /\ Answered(t) /\ UNCHANGED expired

ThrottleRuns(A) ==
  part = "throttle" /\ A /\ UNCHANGED <<part, dbVars, expired, pubVars>>

OrvexaRuns ==
  part = "orvexa" /\ TaskStep /\ UNCHANGED <<part, throttleVars, pubVars>>

WebsiteRuns ==
  part = "website" /\ PublicationStep /\ UNCHANGED <<part, throttleVars, expired>>

DiscussRuns ==
  part = "discuss" /\ DiscussStep /\ UNCHANGED <<part, throttleVars, expired, pubVars>>

RequestRuns ==
  /\ part # "throttle" /\ UNCHANGED <<part, throttleVars>>
  /\ \E t \in Txn : Begin(t) \/ Abort(t)

Next == \/ ThrottleRuns(ThrottleNext) \/ OrvexaRuns \/ WebsiteRuns \/ DiscussRuns
        \/ RequestRuns

\* Time passes; nobody has to sign in, confirm or publish.
Spec == Init /\ [][Next]_vars /\ WF_vars(ThrottleRuns(Tick))
===============================================================================
