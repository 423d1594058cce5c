--------------------------- MODULE OrganisationSetup ---------------------------
(***************************************************************************)
(* The set-up of an organization and of its accounts (setup_service.py,    *)
(* org_users.py): settings, chart, journals and a first period, in an      *)
(* order in which each step looks at what is there already; accounts that  *)
(* are created or updated; and who may manage them afterwards.             *)
(***************************************************************************)
EXTENDS Integers, FiniteSets

NoRecord == "none"

(* An organization: settings by name, the books, and its periods.          *)
Settings == {"country", "currency", "layout", "trial", "approval"}

ExternalLayouts == {"external_layout_standard", "external_layout_striped"}

(* _ensure_country_currency.  given holds what the payload says and what   *)
(* exists in the database; a layout of the right kind is kept.             *)
SettingsAfter(settings, given) ==
  [f \in Settings |->
     IF f \in DOMAIN given /\ (f = "layout" => settings[f] \notin ExternalLayouts)
     THEN given[f] ELSE settings[f]]

(* _ensure_chart: a template is loaded only where there is no account.     *)
ChartAfter(books, chart) ==
  IF books.accounts # {} THEN books
  ELSE [accounts |-> chart.accounts, suspense |-> chart.suspense,
        journals |-> books.journals \cup chart.journals, matchable |-> books.matchable]

TrialJournals == [sale |-> "SLS", purchase |-> "PUR", general |-> "MISC",
                  bank |-> "BNK", cash |-> "CSH"]

(* A code is its letters and the number after them; 1 stands for no number.*)
FreeCode(letters, used) ==
  LET taken(n) == <<letters, n>> \in used IN
  <<letters, CHOOSE n \in 1 .. Cardinality(used) + 1 :
               ~taken(n) /\ \A k \in 1 .. n - 1 : taken(k)>>

MissingTypes(journals) ==
  {type \in DOMAIN TrialJournals : \A j \in journals : j.type # type}

JournalsAfter(books, types) ==
  books.journals \cup
    {[type |-> type, suspense |-> books.suspense,
      code |-> FreeCode(TrialJournals[type], {j.code : j \in books.journals})] :
        type \in types}

(* The suspense accounts of bank and cash journals are made matchable.     *)
Matchable(books, journals) ==
  books.matchable \cup
    {acc \in books.accounts : acc.currentAsset /\
       \E j \in journals : j.type \in {"bank", "cash"} /\ j.suspense = acc}

(* _ensure_journals.                                                       *)
BooksAfter(books) ==
  LET journals == JournalsAfter(books, MissingTypes(books.journals)) IN
  [accounts |-> books.accounts, suspense |-> books.suspense,
   journals |-> journals, matchable |-> Matchable(books, journals)]

(* _ensure_period: closed books stay closed.                               *)
PeriodsAfter(periods, start, end) ==
  IF \E p \in periods : p.start <= end /\ start <= p.end THEN periods
  ELSE periods \cup {[start |-> start, end |-> end, state |-> "open"]}

(* The first n steps of _action_ensure_baseline.                           *)
Baseline(n, company, p) ==
  LET charted == IF n < 2 THEN company.books ELSE ChartAfter(company.books, p.chart) IN
  [settings |-> IF n < 1 THEN company.settings ELSE SettingsAfter(company.settings, p.given),
   books |-> IF n < 3 THEN charted ELSE BooksAfter(charted),
   periods |-> IF n < 4 THEN company.periods ELSE PeriodsAfter(company.periods, p.start, p.end)]

AllSteps == 4

-----------------------------------------------------------------------------
(* Accounts.  A request of _provision_user; everywhere and chosen stand    *)
(* for all_companies and company_ids, all is the set of all companies.     *)
NoAccount == [exists |-> FALSE]

Roles == {"administrator", "accountant", "encoder", "readonly"}

AsOwner(q) == "system" \in q.extra

CompanyFor(q, platform) == IF AsOwner(q) /\ platform # NoRecord THEN platform ELSE q.company

CompaniesFor(q, platform, all) ==
  IF AsOwner(q) THEN {CompanyFor(q, platform)}
  ELSE IF q.everywhere THEN all ELSE IF q.chosen # {} THEN q.chosen ELSE {q.company}

GroupsFor(q) ==
  IF AsOwner(q) THEN {"user", "system", "console"} ELSE {"user", q.role} \cup q.extra

LandingFor(q) == IF AsOwner(q) THEN "console" ELSE "overview"

ProvisionAllowed(account, q) ==
  /\ q.role \in Roles
  /\ IF account = NoAccount THEN q.password # "" ELSE ~q.requireNew

Provisioned(account, q, platform, all) ==
  LET new == account = NoAccount
      regroup == new \/ q.regroup IN
  [exists |-> TRUE, active |-> TRUE, name |-> q.name,
   password |-> IF q.password = "" THEN account.password ELSE q.password,
   company |-> IF regroup THEN CompanyFor(q, platform) ELSE account.company,
   companies |-> IF regroup THEN CompaniesFor(q, platform, all) ELSE account.companies,
   groups |-> IF regroup THEN GroupsFor(q) ELSE account.groups,
   owner |-> IF regroup THEN AsOwner(q) ELSE account.owner,
   landing |-> IF ~new /\ account.landing # NoRecord THEN account.landing ELSE LandingFor(q)]

(* _thirdcode_admin_may_manage.                                            *)
MayManage(actor, target) ==
  \/ target = actor
  \/ /\ "system" \notin target.groups /\ "administrator" \notin target.groups
     /\ ~target.owner
     /\ target.companies # {} /\ target.companies \subseteq actor.companies

LongEnough == 8

(* The wizards that create an employee and reset a password, of a tenant's *)
(* administrator in his current company.                                   *)
EmployeeRequest(form, company) ==
  [name |-> form.name, password |-> form.password, role |-> form.role,
   company |-> company.name, everywhere |-> FALSE, chosen |-> {}, extra |-> {},
   regroup |-> TRUE, requireNew |-> TRUE]

EmployeeAllowed(actor, form, company) ==
  /\ {"system", "administrator"} \cap actor.groups # {}
  /\ form.length >= LongEnough /\ ~company.isPlatform

PasswordResetAllowed(actor, target, form) ==
  /\ form.length >= LongEnough
  /\ \/ "system" \in actor.groups
     \/ "administrator" \in actor.groups /\ MayManage(actor, target)

(* The expense profile of an employee in the current company.              *)
ProfileUser(user, company) ==
  /\ user.active /\ ~user.share /\ ~user.owner /\ "system" \notin user.groups
  /\ company.name \in user.companies /\ ~company.isPlatform

ProfileAllowed(actor, user, manager, company, profile) ==
  /\ {"system", "administrator"} \cap actor.groups # {}
  /\ ProfileUser(user, company) /\ ProfileUser(manager, company)
  /\ "approver" \in manager.groups
  /\ profile = NoRecord \/ profile.active

ProfileSaved(profile, user, manager) ==
  [user |-> IF profile = NoRecord THEN user.name ELSE profile.user,
   active |-> TRUE, approver |-> manager.name]
================================================================================
