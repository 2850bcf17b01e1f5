--------------------------- MODULE RegistryStore ---------------------------
(***************************************************************************)
(* The company registry pipeline: a batch process that asks DART for the    *)
(* accounts of every candidate company, keeps the small ones, and replaces  *)
(* their rows in five tables by key.  A table is replaced in three          *)
(* transactions (read the keys, delete the known ones, insert), so a        *)
(* failure between two of them and a second process both matter.            *)
(*                                                                         *)
(* Each process of Processes runs the pipeline once, for one business year. *)
(* A row is its key and the process that wrote it: no database constraint   *)
(* forbids two rows of one key.                                             *)
(***************************************************************************)
EXTENDS Naturals, Sequences

CONSTANTS Companies,      \* KOSDAQ and KONEX companies, by corp_code
          Processes,      \* executions of the pipeline
          BusinessYears,  \* years it is run for
          MaxBreaks       \* bound on failing database calls and killed processes

ASSUME RegistryAssumption ==
    /\ BusinessYears \subseteq {n \in Nat : n >= 2} /\ BusinessYears # {}
    /\ MaxBreaks \in Nat

\* save_outputs_to_database, in its order.
TableNames == <<"sme_list", "company_profile", "features", "statement_details",
                "error_log">>
Tables == {TableNames[i] : i \in DOMAIN TableNames}

VARIABLES
    at,        \* where a process is
    tab,       \* the table it saves, as a position in TableNames
    year,      \* its business year
    outcome,   \* what it found out about each company
    known,     \* existing_rows_df: the keys it read and will replace
    rows,      \* the tables
    exists,    \* the tables that were created
    ever,      \* history: rows that were ever stored
    torn,      \* history: keys deleted by a process that then broke
    overlap,   \* history: two processes ran at once
    breaks

registryVars == <<at, tab, year, outcome, known, rows, exists, ever, torn, overlap,
                  breaks>>
-----------------------------------------------------------------------------
(* process_company: from the answers of DART to an outcome *)

\* What DART may answer: how the request went, and the totals it holds against
\* the two limits ("over" or "within").
Accounts ==
    [reply : {"raises", "no_list", "empty", "no_statement", "ok"},
     assets : {"missing", "nan", "over", "within"},
     liabilities : {"missing", "nan", "within"},
     revenue : {"missing", "nan", "over", "within"}]

Errors == {"EXCEPTION", "NO_LIST", "EMPTY_DF", "NO_FS", "NO_ASSET", "ASSET_NAN",
           "NO_LIABILITY", "LIABILITY_NAN", "NO_REVENUE", "REVENUE_NAN"}
NoError == "none"

\* The checks, in order: the asset limit filters a company before its other
\* accounts are looked at.
ScreenCompany(a) ==
    LET Error(type) == [status |-> "error", error |-> type]
        Plain(s)    == [status |-> s, error |-> NoError]
    IN  CASE a.reply = "raises"            -> Error("EXCEPTION")
          [] a.reply = "no_list"           -> Error("NO_LIST")
          [] a.reply = "empty"             -> Error("EMPTY_DF")
          [] a.reply = "no_statement"      -> Error("NO_FS")
          [] a.reply = "ok" /\ a.assets = "missing" -> Error("NO_ASSET")
          [] a.reply = "ok" /\ a.assets = "nan"     -> Error("ASSET_NAN")
          [] a.reply = "ok" /\ a.assets = "over"    -> Plain("asset_filtered")
          [] a.reply = "ok" /\ a.assets = "within" ->
                CASE a.liabilities = "missing" -> Error("NO_LIABILITY")
                  [] a.liabilities = "nan"     -> Error("LIABILITY_NAN")
                  [] a.liabilities = "within" /\ a.revenue = "missing" -> Error("NO_REVENUE")
                  [] a.liabilities = "within" /\ a.revenue = "nan"     -> Error("REVENUE_NAN")
                  [] a.liabilities = "within" /\ a.revenue = "over"    -> Plain("revenue_filtered")
                  [] OTHER -> Plain("success")

\* What a company is known by: its screening, whether the accounts DART answered
\* for it carry a stock code, whether its detailed statements were found, and
\* whether its profile was.
Outcomes ==
    [status : {"success", "error", "asset_filtered", "revenue_filtered"},
     error : Errors \cup {NoError}, coded : BOOLEAN, details : BOOLEAN, profile : BOOLEAN]

\* A company that passed is asked for its detailed statements, which may fail
\* without a trace, and, if it is going to be listed, for its profile.  The accounts
\* of an answer without a stock_code get none.
OutcomesOf(a) ==
    LET s == ScreenCompany(a)
    IN  {o \in Outcomes :
           /\ o.status = s.status /\ o.error = s.error
           /\ o.profile => o.coded
           /\ o.coded \/ o.details => s.status = "success"}

PossibleOutcomes == UNION {OutcomesOf(a) : a \in Accounts}
-----------------------------------------------------------------------------
(* The data frames of a process *)

YearMapping(y) == (y - 2)..y

Passed(p) == {c \in Companies : outcome[p][c].status = "success"}

\* build_final_dataframe: the pivot over corp_code, stock_code and year leaves out
\* the rows that have no stock code.
Listed(p) == {c \in Passed(p) : outcome[p][c].coded}

\* Variant: the errors of the profiles are forgotten.
ErrorKeysOfCollection(p) ==
    {<<c, outcome[p][c].error>> :
        c \in {d \in Companies : outcome[p][d].status = "error"}}

\* error_logs and profile_errors.
ErrorKeys(p) ==
    {<<c, outcome[p][c].error>> :
        c \in {d \in Companies : outcome[p][d].status = "error"}}
    \cup {<<c, "COMPANY_PROFILE_ERROR">> :
             c \in {d \in Listed(p) : ~outcome[p][d].profile}}

\* The keys of the rows it has for a table.  The detailed statements are not
\* pivoted, and their stock code is the candidate's.
KeysOf(p, t) ==
    CASE t = "sme_list"          -> Listed(p)
      [] t = "company_profile"   -> {c \in Listed(p) : outcome[p][c].profile}
      [] t = "features"          -> Listed(p) \X YearMapping(year[p])
      [] t = "statement_details" -> {c \in Passed(p) : outcome[p][c].details}
                                       \X YearMapping(year[p])
      [] t = "error_log"         -> ErrorKeys(p)

\* The table a process saves and the rows it has for it.
Table(p)      == TableNames[tab[p]]
Keys(p)       == KeysOf(p, Table(p))
Row(p, k)     == [key |-> k, by |-> p]
NewRows(p)    == {Row(p, k) : k \in Keys(p)}
StoredKeys(t) == {x.key : x \in rows[t]}
Running       == {p \in Processes : at[p] \notin {"new", "done", "failed"}}
-----------------------------------------------------------------------------
RegistryTypeOK ==
    /\ at \in [Processes -> {"new", "collecting", "saving", "creating", "reading",
                             "deleting", "inserting", "done", "failed"}]
    /\ tab \in [Processes -> DOMAIN TableNames]
    /\ year \in [Processes -> BusinessYears]
    /\ DOMAIN outcome = Processes /\ DOMAIN known = Processes
    /\ DOMAIN rows = Tables /\ DOMAIN ever = Tables /\ DOMAIN torn = Tables
    /\ exists \subseteq Tables
    /\ overlap \in BOOLEAN /\ breaks \in 0..MaxBreaks

RegistryInit ==
    /\ at = [p \in Processes |-> "new"]
    /\ tab = [p \in Processes |-> 1]
    /\ year = [p \in Processes |-> CHOOSE y \in BusinessYears : TRUE]
    /\ outcome = [p \in Processes |-> <<>>]
    /\ known = [p \in Processes |-> {}]
    /\ rows = [t \in Tables |-> {}]
    /\ exists = {} /\ overlap = FALSE /\ breaks = 0
    /\ ever = [t \in Tables |-> {}] /\ torn = [t \in Tables |-> {}]

\* The pipeline is started; nothing keeps a second one out.
Launch(p) ==
    /\ at[p] = "new"
    /\ at' = [at EXCEPT ![p] = "collecting"]
    /\ \E y \in BusinessYears : year' = [year EXCEPT ![p] = y]
    /\ overlap' = (overlap \/ Running # {})
    /\ UNCHANGED <<tab, outcome, known, rows, exists, ever, torn, breaks>>

\* run_collection and build_company_profile_dataframe: every company ends in one
\* outcome, whatever happened to the others.
Collect(p) ==
    /\ at[p] = "collecting"
    /\ \E f \in [Companies -> PossibleOutcomes] : outcome' = [outcome EXCEPT ![p] = f]
    /\ at' = [at EXCEPT ![p] = "saving"]
    /\ UNCHANGED <<tab, year, known, rows, exists, ever, torn, overlap, breaks>>

\* Where a process goes when a table is saved.
NextTable(p) ==
    /\ known' = [known EXCEPT ![p] = {}]
    /\ IF tab[p] = Len(TableNames)
       THEN at' = [at EXCEPT ![p] = "done"] /\ UNCHANGED tab
       ELSE at' = [at EXCEPT ![p] = "saving"] /\ tab' = [tab EXCEPT ![p] = @ + 1]

\* save_dataframe_to_postgres skips an empty frame and looks for the table.
OpenTable(p) ==
    /\ at[p] = "saving"
    /\ IF Keys(p) = {} THEN NextTable(p)
       ELSE /\ at' = [at EXCEPT ![p] = IF Table(p) \in exists THEN "reading"
                                                              ELSE "creating"]
            /\ UNCHANGED <<tab, known>>
    /\ UNCHANGED <<year, outcome, rows, exists, ever, torn, overlap, breaks>>

\* to_sql: the rows are appended in one transaction.
AppendRows(p) ==
    LET t == Table(p)
    IN  /\ rows' = [rows EXCEPT ![t] = @ \cup NewRows(p)]
        /\ ever' = [ever EXCEPT ![t] = @ \cup NewRows(p)]
        /\ torn' = [torn EXCEPT ![t] = @ \ Keys(p)]
        /\ exists' = exists \cup {t}
        /\ NextTable(p)
        /\ UNCHANGED <<year, outcome, overlap, breaks>>

CreateTable(p) == at[p] = "creating" /\ AppendRows(p)

\* Variant: the whole table is known.
KnownKeysAll(p) == StoredKeys(Table(p))

\* filter_existing_rows: the rows of the frame whose key the table has.
KnownKeys(p) == Keys(p) \cap StoredKeys(Table(p))

ReadKeys(p) ==
    /\ at[p] = "reading"
    /\ known' = [known EXCEPT ![p] = KnownKeys(p)]
    /\ at' = [at EXCEPT ![p] = "deleting"]
    /\ UNCHANGED <<tab, year, outcome, rows, exists, ever, torn, overlap, breaks>>

\* delete_rows_by_keys: every row of a known key, in one transaction.
DeleteKnown(p) ==
    /\ at[p] = "deleting"
    /\ rows' = [rows EXCEPT ![Table(p)] = {x \in @ : x.key \notin known[p]}]
    /\ at' = [at EXCEPT ![p] = "inserting"]
    /\ UNCHANGED <<tab, year, outcome, known, exists, ever, torn, overlap, breaks>>

InsertRows(p) == at[p] = "inserting" /\ AppendRows(p)

\* A database call raises or the process is killed: its transaction is rolled
\* back, the committed ones stay, and no later table is saved.
BreakOff(p) ==
    /\ at[p] \in {"saving", "creating", "reading", "deleting", "inserting"}
    /\ breaks < MaxBreaks /\ breaks' = breaks + 1
    /\ at' = [at EXCEPT ![p] = "failed"]
    /\ torn' = IF at[p] = "inserting"
               THEN [torn EXCEPT ![Table(p)] = @ \cup (known[p] \ StoredKeys(Table(p)))]
               ELSE torn
    /\ known' = [known EXCEPT ![p] = {}]
    /\ UNCHANGED <<tab, year, outcome, rows, exists, ever, overlap>>

ProcessStep(p) ==
    \/ Collect(p) \/ OpenTable(p) \/ CreateTable(p)
    \/ ReadKeys(p) \/ DeleteKnown(p) \/ InsertRows(p)

RegistryNext == \E p \in Processes : Launch(p) \/ ProcessStep(p) \/ BreakOff(p)

RegistrySpec == RegistryInit /\ [][RegistryNext]_registryVars
-----------------------------------------------------------------------------
(* Properties *)

\* Processes that run one after the other keep one row per key, whichever years
\* they share and wherever one of them broke off.
OneRowPerKey ==
    ~overlap => \A t \in Tables : \A x, y \in rows[t] : x.key = y.key => x = y

\* Even with two processes at work a key that was stored is still there, is about
\* to be inserted again, or was lost by a process that broke off in between.
KeysSurvive ==
    \A t \in Tables : \A x \in ever[t] :
       \/ x.key \in StoredKeys(t)
       \/ x.key \in torn[t]
       \/ \E p \in Processes : at[p] = "inserting" /\ Table(p) = t /\ x.key \in known[p]

\* The rows of the registry are neither doubled by processes that run one after
\* the other nor lost by two that run at once.
RegistryKeepsRows == OneRowPerKey /\ KeysSurvive

\* A process has itself accounted for a company: it is over a limit, or in the error
\* log with its error, or listed with its features and with a profile or the error of
\* its profile.  A company that passed and whose accounts carry no stock code is
\* nowhere but in the detailed statements, if these were found.
Accounted(p, c) ==
    LET o == outcome[p][c]
        Stored(t, k) == Row(p, k) \in ever[t]
    IN  \/ o.status \in {"asset_filtered", "revenue_filtered"}
        \/ o.status = "error" /\ Stored("error_log", <<c, o.error>>)
        \/ /\ o.status = "success" /\ o.coded
           /\ Stored("sme_list", c) /\ Stored("features", <<c, year[p]>>)
           /\ \/ Stored("company_profile", c)
              \/ Stored("error_log", <<c, "COMPANY_PROFILE_ERROR">>)
        \/ /\ o.status = "success" /\ ~o.coded
           /\ o.details => Stored("statement_details", <<c, year[p]>>)

\* A pipeline that ends well has accounted for every company by rows of its own;
\* those another process stores for the same company count for nothing.
EveryCompanyAccounted ==
    \A p \in Processes : at[p] = "done" => \A c \in Companies : Accounted(p, c)
-----------------------------------------------------------------------------
(* The inductive invariant behind RegistryKeepsRows *)

\* What a process knows are rows of its own that it is about to replace, and only
\* a table that was created has rows.
KnowsItsOwn ==
    /\ \A p \in Processes :
          /\ \A k \in known[p] : k \in Keys(p)
          /\ known[p] # {} => at[p] \in {"deleting", "inserting"}
    /\ \A t \in Tables : rows[t] # {} => t \in exists

\* As long as no two processes ran at once, the one that runs finds the table as
\* it left it after its last call.
AloneAtWork ==
    ~overlap => \A p \in Running :
       /\ \A q \in Running : q = p
       /\ at[p] = "creating"  => Table(p) \notin exists
       /\ at[p] = "deleting"  => known[p] = Keys(p) \cap StoredKeys(Table(p))
       /\ at[p] = "inserting" => Keys(p) \cap StoredKeys(Table(p)) = {}

RegistryInv == RegistryTypeOK /\ KnowsItsOwn /\ AloneAtWork /\ RegistryKeepsRows
-----------------------------------------------------------------------------
(* The inductive invariant behind EveryCompanyAccounted *)

OwnRows(p, t) == {Row(p, k) : k \in KeysOf(p, t)}

\* A process has stored every row it has for the tables it is done with.
SavedSoFar ==
    \A p \in Processes :
       IF at[p] \in {"new", "collecting"} THEN tab[p] = 1
       ELSE /\ outcome[p] \in [Companies -> PossibleOutcomes]
            /\ \A i \in DOMAIN TableNames :
                  i < tab[p] \/ at[p] = "done" =>
                     OwnRows(p, TableNames[i]) \subseteq ever[TableNames[i]]

AccountInv == RegistryTypeOK /\ SavedSoFar
=============================================================================
