------------------------ MODULE MCOrganisationLifecycle ------------------------
(* Model-checking instances of OrganisationLifecycle: ben works for both   *)
(* organizations, cai's account in b is created later.  Beside it, the     *)
(* set-up of an organization is evaluated over all small books.            *)
EXTENDS OrganisationLifecycle, Integers, FiniteSetsExt, TLC

CONSTANTS a, b, ben, cai

MCMember == (ben :> {a, b}) @@ (cai :> {b})
MCHome == (ben :> a) @@ (cai :> b)

Symmetry == Permutations(Txn)

-----------------------------------------------------------------------------
S == INSTANCE OrganisationSetup

Suspense == [name |-> "suspense", currentAsset |-> TRUE]
NoSuspense == [name |-> S!NoRecord, currentAsset |-> FALSE]

Journals == [type : {"sale", "bank", "other"}, suspense : {Suspense, NoSuspense},
             code : {<<"SLS", 1>>, <<"BNK", 1>>, <<"BNK", 2>>}]

CodesUnique(journals) ==
  \A i, j \in journals : i.code = j.code => i = j

SmallBooks ==
  {[accounts |-> acc, suspense |-> s, journals |-> js, matchable |-> {}] :
     acc \in {{}, {Suspense}}, s \in {Suspense, NoSuspense},
     js \in {js \in UNION {kSubset(k, Journals) : k \in 0 .. 2} : CodesUnique(js)}}

Charts ==
  {[accounts |-> {Suspense}, suspense |-> Suspense, journals |-> js] :
     js \in {{}, {[type |-> "bank", suspense |-> Suspense, code |-> <<"CBK", 1>>]}}}

\* A set-up that failed when some of the journals were there, started again:
\* it ends as one that did not fail, with every type and no code twice.
ASSUME SetupAfterSomeJournals ==
  \A before \in SmallBooks, chart \in Charts :
    LET books == S!ChartAfter(before, chart)
        whole == S!BooksAfter(books) IN
    /\ S!MissingTypes(whole.journals) = {} /\ CodesUnique(whole.journals)
    /\ \A types \in SUBSET S!MissingTypes(books.journals) :
         LET some == [books EXCEPT !.journals = S!JournalsAfter(books, types)] IN
         S!BooksAfter(S!ChartAfter(some, chart)) = whole
================================================================================
