---------------------------- MODULE Stores_proofs ---------------------------
(***************************************************************************)
(* Proofs about the three stores: the company registry, for every set of    *)
(* companies, years and processes, the news of a company, for any number of *)
(* collections, and the rating methodologies, for any documents and clients.*)
(***************************************************************************)
EXTENDS RegistryStore, NewsCollection, RagStore, SequenceFacts, FiniteSetTheorems,
        SequenceTheorems, TLAPS

\* The positions of the tables.
LEMMA TablePositions ==
    /\ Len(TableNames) = 5 /\ DOMAIN TableNames = 1..5
    /\ \A i \in 1..5 : TableNames[i] \in Tables
  BY DEF TableNames, Tables

\* The table of a process is one of the five.
LEMMA TableOfProcess ==
    ASSUME RegistryTypeOK, NEW p \in Processes
    PROVE  Table(p) \in Tables
  BY TablePositions DEF RegistryTypeOK, Table

\* The rows of a process depend on what it found out, its year and its table.
LEMMA KeysKept ==
    ASSUME NEW p, outcome'[p] = outcome[p], year'[p] = year[p], tab'[p] = tab[p]
    PROVE  Keys(p)' = Keys(p)
  BY DEF Keys, KeysOf, Table, Passed, Listed, ErrorKeys, YearMapping

LEMMA TableKept == ASSUME NEW p, tab'[p] = tab[p] PROVE Table(p)' = Table(p)
  BY DEF Table

\* So do the keys a table holds.
LEMMA StoredKeysKept == ASSUME NEW t, rows'[t] = rows[t] PROVE StoredKeys(t)' = StoredKeys(t)
  BY DEF StoredKeys

USE DEF RegistryInv
-----------------------------------------------------------------------------
LEMMA InitRegistryInv == RegistryInit => RegistryInv
<1>. SUFFICES ASSUME RegistryInit PROVE RegistryInv
  OBVIOUS
<1>1. RegistryTypeOK
  <2>1. (CHOOSE y \in BusinessYears : TRUE) \in BusinessYears
    BY RegistryAssumption
  <2>2. year \in [Processes -> BusinessYears]
    BY <2>1 DEF RegistryInit
  <2>3. tab \in [Processes -> DOMAIN TableNames]
    BY TablePositions DEF RegistryInit
  <2>4. DOMAIN outcome = Processes /\ DOMAIN known = Processes
    BY DEF RegistryInit
  <2>5. DOMAIN rows = Tables /\ DOMAIN ever = Tables /\ DOMAIN torn = Tables
    BY DEF RegistryInit
  <2>6. overlap \in BOOLEAN
    BY Zenon DEF RegistryInit
  <2>8. breaks \in 0..MaxBreaks /\ exists \subseteq Tables
    BY RegistryAssumption DEF RegistryInit
  <2>7. at \in [Processes -> {"new", "collecting", "saving", "creating", "reading",
                             "deleting", "inserting", "done", "failed"}]
    BY DEF RegistryInit
  <2>. QED
    BY <2>2, <2>3, <2>4, <2>5, <2>6, <2>7, <2>8 DEF RegistryTypeOK
<1>2. KnowsItsOwn /\ AloneAtWork
  BY DEF RegistryInit, KnowsItsOwn, AloneAtWork, Running
<1>3. RegistryKeepsRows
  BY DEF RegistryInit, RegistryKeepsRows, OneRowPerKey, KeysSurvive
<1>. QED
  BY <1>1, <1>2, <1>3

\* A process that starts beside another one ends the time alone.
LEMMA LaunchStep ==
    ASSUME RegistryInv, NEW p \in Processes, Launch(p)
    PROVE  RegistryInv'
<1>1. /\ at[p] = "new" /\ at' = [at EXCEPT ![p] = "collecting"]
      /\ overlap' = (overlap \/ Running # {})
      /\ UNCHANGED <<tab, outcome, known, rows, exists, ever, torn, breaks>>
  BY DEF Launch
<1>2. PICK y \in BusinessYears : year' = [year EXCEPT ![p] = y]
  BY DEF Launch
<1>3. RegistryTypeOK'
  BY <1>1, <1>2 DEF RegistryTypeOK
<1>4. \A q \in Processes : Table(q)' = Table(q) /\ (q # p => Keys(q)' = Keys(q))
  BY <1>1, <1>2, KeysKept, TableKept DEF RegistryTypeOK
<1>5. \A t \in Tables : StoredKeys(t)' = StoredKeys(t)
  BY <1>1, StoredKeysKept
<1>6. KnowsItsOwn'
  BY <1>1, <1>4 DEF KnowsItsOwn, RegistryTypeOK
<1>7. AloneAtWork'
  BY <1>1 DEF AloneAtWork, Running, RegistryTypeOK
<1>8. OneRowPerKey'
  BY <1>1 DEF OneRowPerKey, RegistryKeepsRows, RegistryTypeOK
<1>9. KeysSurvive'
  BY <1>1, <1>4, <1>5 DEF KeysSurvive, RegistryKeepsRows, RegistryTypeOK
<1>. QED
  BY <1>3, <1>6, <1>7, <1>8, <1>9 DEF RegistryKeepsRows

\* What a process finds out concerns rows it does not know yet.
LEMMA CollectStep ==
    ASSUME RegistryInv, NEW p \in Processes, Collect(p)
    PROVE  RegistryInv'
<1>1. /\ at[p] = "collecting" /\ at' = [at EXCEPT ![p] = "saving"]
      /\ UNCHANGED <<tab, year, known, rows, exists, ever, torn, overlap, breaks>>
  BY DEF Collect
<1>2. PICK f \in [Companies -> PossibleOutcomes] : outcome' = [outcome EXCEPT ![p] = f]
  BY DEF Collect
<1>3. RegistryTypeOK'
  BY <1>1, <1>2 DEF RegistryTypeOK
<1>4. \A q \in Processes : Table(q)' = Table(q) /\ (q # p => Keys(q)' = Keys(q))
  BY <1>1, <1>2, KeysKept, TableKept DEF RegistryTypeOK
<1>5. \A t \in Tables : StoredKeys(t)' = StoredKeys(t)
  BY <1>1, StoredKeysKept
<1>6. \A q \in Processes : Table(q) \in Tables
  BY TableOfProcess
<1>7. KnowsItsOwn'
  BY <1>1, <1>4 DEF KnowsItsOwn, RegistryTypeOK
<1>8. AloneAtWork'
  BY <1>1, <1>4, <1>5, <1>6 DEF AloneAtWork, Running, RegistryTypeOK
<1>9. OneRowPerKey'
  BY <1>1 DEF OneRowPerKey, RegistryKeepsRows
<1>10. KeysSurvive'
  BY <1>1, <1>4, <1>5 DEF KeysSurvive, RegistryKeepsRows, RegistryTypeOK
<1>. QED
  BY <1>3, <1>7, <1>8, <1>9, <1>10 DEF RegistryKeepsRows

\* NextTable forgets the keys of the table that is done with.
LEMMA NextTableType ==
    ASSUME RegistryTypeOK, NEW p \in Processes, NextTable(p)
    PROVE  /\ at' \in [Processes -> {"new", "collecting", "saving", "creating", "reading",
                                     "deleting", "inserting", "done", "failed"}]
           /\ tab' \in [Processes -> DOMAIN TableNames]
           /\ DOMAIN known' = Processes
           /\ known' = [known EXCEPT ![p] = {}]
           /\ at'[p] \in {"done", "saving"} /\ known'[p] = {}
           /\ \A q \in Processes : q # p =>
                 at'[q] = at[q] /\ tab'[q] = tab[q] /\ known'[q] = known[q]
<1>1. CASE tab[p] = Len(TableNames)
  BY <1>1 DEF NextTable, RegistryTypeOK
<1>2. CASE tab[p] # Len(TableNames)
  <2>1. tab[p] + 1 \in DOMAIN TableNames
    BY <1>2, TablePositions DEF RegistryTypeOK
  <2>. QED
    BY <1>2, <2>1 DEF NextTable, RegistryTypeOK
<1>. QED
  BY <1>1, <1>2

\* A process alone finds a table either way as it is.
LEMMA OpenTableStep ==
    ASSUME RegistryInv, NEW p \in Processes, OpenTable(p)
    PROVE  RegistryInv'
<1>1. /\ at[p] = "saving"
      /\ UNCHANGED <<year, outcome, rows, exists, ever, torn, overlap, breaks>>
  BY DEF OpenTable
<1>2. known[p] = {}
  BY <1>1 DEF KnowsItsOwn
<1>3. \/ NextTable(p)
      \/ /\ at' = [at EXCEPT ![p] = IF Table(p) \in exists THEN "reading" ELSE "creating"]
         /\ UNCHANGED <<tab, known>>
  BY DEF OpenTable
<1>4. /\ RegistryTypeOK'
      /\ at'[p] \in {"done", "saving", "reading", "creating"} /\ known'[p] = {}
      /\ at'[p] = "creating" => Table(p) \notin exists /\ tab'[p] = tab[p]
      /\ \A q \in Processes : q # p =>
            at'[q] = at[q] /\ tab'[q] = tab[q] /\ known'[q] = known[q]
  BY <1>1, <1>2, <1>3, NextTableType DEF RegistryTypeOK
<1>5. \A q \in Processes : q # p => Table(q)' = Table(q) /\ Keys(q)' = Keys(q)
  BY <1>1, <1>4, KeysKept, TableKept
<1>6. tab'[p] = tab[p] => Table(p)' = Table(p)
  BY TableKept
<1>7. \A t \in Tables : StoredKeys(t)' = StoredKeys(t)
  BY <1>1, StoredKeysKept
<1>8. \A q \in Processes : Table(q) \in Tables
  BY TableOfProcess
<1>9. KnowsItsOwn'
  BY <1>1, <1>4, <1>5 DEF KnowsItsOwn
<1>10. AloneAtWork'
  BY <1>1, <1>4, <1>5, <1>6, <1>7, <1>8 DEF AloneAtWork, Running
<1>11. OneRowPerKey'
  BY <1>1 DEF OneRowPerKey, RegistryKeepsRows
<1>12. KeysSurvive'
  BY <1>1, <1>4, <1>5, <1>7 DEF KeysSurvive, RegistryKeepsRows
<1>. QED
  BY <1>4, <1>9, <1>10, <1>11, <1>12 DEF RegistryKeepsRows

\* The appended rows double none if the table holds none of their keys, and they
\* are stored whatever the table holds.
LEMMA AppendRowsStep ==
    ASSUME RegistryInv, NEW p \in Processes, AppendRows(p),
           at[p] \in {"creating", "inserting"}
    PROVE  RegistryInv'
<1>2. PICK t \in Tables : t = Table(p)
  BY TableOfProcess
<1>1. /\ rows' = [rows EXCEPT ![t] = @ \cup NewRows(p)]
      /\ ever' = [ever EXCEPT ![t] = @ \cup NewRows(p)]
      /\ torn' = [torn EXCEPT ![t] = @ \ Keys(p)]
      /\ exists' = exists \cup {t}
      /\ NextTable(p)
      /\ UNCHANGED <<year, outcome, overlap, breaks>>
  BY <1>2 DEF AppendRows
<1>3. /\ RegistryTypeOK'
      /\ at'[p] \in {"done", "saving"} /\ known'[p] = {}
      /\ \A q \in Processes : q # p =>
            at'[q] = at[q] /\ tab'[q] = tab[q] /\ known'[q] = known[q]
  BY <1>1, <1>2, NextTableType DEF RegistryTypeOK
<1>4. \A q \in Processes : q # p => Table(q)' = Table(q) /\ Keys(q)' = Keys(q)
  BY <1>1, <1>3, KeysKept, TableKept
<1>5. StoredKeys(t)' = StoredKeys(t) \cup Keys(p)
  <2>1. rows'[t] = rows[t] \cup NewRows(p)
    BY <1>1 DEF RegistryTypeOK
  <2>2. {x.key : x \in NewRows(p)} = Keys(p)
    <3>1. ASSUME NEW k \in Keys(p) PROVE \E x \in NewRows(p) : x.key = k
      <4>1. [key |-> k, by |-> p] \in NewRows(p)
        BY DEF NewRows, Row
      <4>2. [key |-> k, by |-> p].key = k
        OBVIOUS
      <4>. QED
        BY <4>1, <4>2
    <3>2. \A x \in NewRows(p) : x.key \in Keys(p)
      BY DEF NewRows, Row
    <3>. QED
      BY <3>1, <3>2
  <2>. QED
    BY <2>1, <2>2 DEF StoredKeys
<1>6. \A u \in Tables : u # t => StoredKeys(u)' = StoredKeys(u) /\ rows'[u] = rows[u]
  BY <1>1, StoredKeysKept DEF RegistryTypeOK
<1>7. KnowsItsOwn'
  BY <1>1, <1>2, <1>3, <1>4, <1>6 DEF KnowsItsOwn, RegistryTypeOK
<1>8. AloneAtWork'
  BY <1>1, <1>3 DEF AloneAtWork, Running
<1>9. OneRowPerKey'
  <2>. SUFFICES ASSUME ~overlap, NEW u \in Tables,
                       NEW x \in rows'[u], NEW y \in rows'[u], x.key = y.key
                PROVE  x = y
    BY <1>1 DEF OneRowPerKey
  <2>1. CASE u # t
    BY <2>1, <1>6 DEF OneRowPerKey, RegistryKeepsRows
  <2>2. CASE u = t
    <3>1. p \in Running
      BY DEF Running
    <3>2. Keys(p) \cap StoredKeys(t) = {}
      BY <1>2, <3>1 DEF AloneAtWork, KnowsItsOwn, StoredKeys
    <3>3. rows'[t] = rows[t] \cup NewRows(p)
      BY <1>1, <1>2 DEF RegistryTypeOK
    <3>4. \A z \in rows[t] : z.key \in StoredKeys(t)
      BY DEF StoredKeys
    <3>5. \A z \in NewRows(p) : z.key \in Keys(p) /\ z = [key |-> z.key, by |-> p]
      BY DEF NewRows, Row
    <3>. QED
      BY <2>2, <3>2, <3>3, <3>4, <3>5 DEF OneRowPerKey, RegistryKeepsRows
  <2>. QED
    BY <2>1, <2>2
<1>10. KeysSurvive'
  <2>. SUFFICES ASSUME NEW u \in Tables, NEW x \in ever'[u]
                PROVE  \/ x.key \in StoredKeys(u)' \/ x.key \in torn'[u]
                       \/ \E q \in Processes : /\ at'[q] = "inserting" /\ Table(q)' = u
                                              /\ x.key \in known'[q]
    BY DEF KeysSurvive
  <2>1. CASE u = t /\ x.key \in Keys(p)
    BY <2>1, <1>5
  <2>2. CASE ~(u = t /\ x.key \in Keys(p))
    <3>0. \A y \in NewRows(p) : y.key \in Keys(p)
      BY DEF NewRows, Row
    <3>1. x \in ever[u] /\ (x.key \in torn[u] => x.key \in torn'[u])
      BY <2>2, <1>1, <1>2, <3>0 DEF RegistryTypeOK
    <3>2. x.key \in StoredKeys(u) => x.key \in StoredKeys(u)'
      BY <1>5, <1>6
    <3>3. ASSUME NEW q \in Processes, at[q] = "inserting", Table(q) = u, x.key \in known[q]
          PROVE  q # p
      BY <3>3, <2>2, <1>2 DEF KnowsItsOwn
    <3>. QED
      BY <3>1, <3>2, <3>3, <1>3, <1>4 DEF KeysSurvive, RegistryKeepsRows
  <2>. QED
    BY <2>1, <2>2
<1>. QED
  BY <1>3, <1>7, <1>8, <1>9, <1>10 DEF RegistryKeepsRows

\* What filter_existing_rows returns is what the process has and the table too.
LEMMA ReadKeysStep ==
    ASSUME RegistryInv, NEW p \in Processes, ReadKeys(p)
    PROVE  RegistryInv'
<1>1. /\ at[p] = "reading" /\ at' = [at EXCEPT ![p] = "deleting"]
      /\ known' = [known EXCEPT ![p] = Keys(p) \cap StoredKeys(Table(p))]
      /\ UNCHANGED <<tab, year, outcome, rows, exists, ever, torn, overlap, breaks>>
  BY DEF ReadKeys, KnownKeys
<1>2. RegistryTypeOK'
  BY <1>1 DEF RegistryTypeOK
<1>3. \A q \in Processes : /\ Table(q)' = Table(q) /\ Table(q) \in Tables
                           /\ Keys(q)' = Keys(q)
  BY <1>1, KeysKept, TableKept, TableOfProcess
<1>4. \A t \in Tables : StoredKeys(t)' = StoredKeys(t)
  BY <1>1, StoredKeysKept
<1>5. KnowsItsOwn'
  BY <1>1, <1>3 DEF KnowsItsOwn, RegistryTypeOK
<1>6. AloneAtWork'
  BY <1>1, <1>3, <1>4 DEF AloneAtWork, Running, RegistryTypeOK
<1>7. OneRowPerKey'
  BY <1>1 DEF OneRowPerKey, RegistryKeepsRows
<1>8. KeysSurvive'
  BY <1>1, <1>3, <1>4 DEF KeysSurvive, RegistryKeepsRows, RegistryTypeOK
<1>. QED
  BY <1>2, <1>5, <1>6, <1>7, <1>8 DEF RegistryKeepsRows

\* What is deleted is about to be inserted; a process alone deletes all it has.
LEMMA DeleteKnownStep ==
    ASSUME RegistryInv, NEW p \in Processes, DeleteKnown(p)
    PROVE  RegistryInv'
<1>1. PICK t \in Tables : t = Table(p)
  BY TableOfProcess
<1>2. /\ at[p] = "deleting" /\ at' = [at EXCEPT ![p] = "inserting"]
      /\ rows' = [rows EXCEPT ![t] = {x \in @ : x.key \notin known[p]}]
      /\ UNCHANGED <<tab, year, outcome, known, exists, ever, torn, overlap, breaks>>
  BY <1>1 DEF DeleteKnown
<1>3. RegistryTypeOK'
  BY <1>2 DEF RegistryTypeOK
<1>4. \A q \in Processes : Table(q)' = Table(q) /\ Keys(q)' = Keys(q)
  BY <1>2, KeysKept, TableKept
<1>5. rows'[t] = {x \in rows[t] : x.key \notin known[p]}
  BY <1>2 DEF RegistryTypeOK
<1>6. StoredKeys(t)' = StoredKeys(t) \ known[p]
  BY <1>5 DEF StoredKeys
<1>7. \A u \in Tables : u # t => StoredKeys(u)' = StoredKeys(u) /\ rows'[u] = rows[u]
  BY <1>2, StoredKeysKept DEF RegistryTypeOK
<1>8. KnowsItsOwn'
  BY <1>2, <1>4, <1>5, <1>7 DEF KnowsItsOwn, RegistryTypeOK
<1>9. AloneAtWork'
  <2>. SUFFICES ASSUME ~overlap, NEW q \in Running'
                PROVE  /\ \A r \in Running' : r = q
                       /\ at'[q] = "creating"  => Table(q)' \notin exists'
                       /\ at'[q] = "deleting"  =>
                             known'[q] = Keys(q)' \cap StoredKeys(Table(q))'
                       /\ at'[q] = "inserting" => Keys(q)' \cap StoredKeys(Table(q))' = {}
    BY <1>2 DEF AloneAtWork
  <2>1. Running' = Running /\ p \in Running
    BY <1>2 DEF Running, RegistryTypeOK
  <2>2. q = p /\ at'[q] = "inserting" /\ \A r \in Running' : r = q
    BY <2>1, <1>2 DEF AloneAtWork, RegistryTypeOK
  <2>3. known[p] = Keys(p) \cap StoredKeys(t)
    BY <2>1, <1>1, <1>2 DEF AloneAtWork
  <2>4. StoredKeys(Table(p))' = StoredKeys(t)'
    BY <1>1, <1>4
  <2>. QED
    BY <2>2, <2>3, <2>4, <1>4, <1>6
<1>10. OneRowPerKey'
  BY <1>2, <1>5, <1>7 DEF OneRowPerKey, RegistryKeepsRows
<1>11. KeysSurvive'
  BY <1>1, <1>2, <1>4, <1>6, <1>7 DEF KeysSurvive, RegistryKeepsRows, RegistryTypeOK
<1>. QED
  BY <1>3, <1>8, <1>9, <1>10, <1>11 DEF RegistryKeepsRows

\* A process that breaks off between its delete and its insert tears the keys it
\* took out.
LEMMA BreakOffStep ==
    ASSUME RegistryInv, NEW p \in Processes, BreakOff(p)
    PROVE  RegistryInv'
<1>1. PICK t \in Tables : t = Table(p)
  BY TableOfProcess
<1>2. /\ at' = [at EXCEPT ![p] = "failed"] /\ known' = [known EXCEPT ![p] = {}]
      /\ breaks < MaxBreaks /\ breaks' = breaks + 1
      /\ torn' = IF at[p] = "inserting"
                 THEN [torn EXCEPT ![t] = @ \cup (known[p] \ StoredKeys(t))] ELSE torn
      /\ UNCHANGED <<tab, year, outcome, rows, exists, ever, overlap>>
  BY <1>1 DEF BreakOff
<1>3. RegistryTypeOK'
  BY <1>2, RegistryAssumption DEF RegistryTypeOK
<1>4. \A q \in Processes : /\ Table(q)' = Table(q) /\ Table(q) \in Tables
                           /\ Keys(q)' = Keys(q)
  BY <1>2, KeysKept, TableKept, TableOfProcess
<1>5. \A u \in Tables : StoredKeys(u)' = StoredKeys(u)
  BY <1>2, StoredKeysKept
<1>6. KnowsItsOwn'
  BY <1>2, <1>4 DEF KnowsItsOwn, RegistryTypeOK
<1>7. AloneAtWork'
  BY <1>2, <1>4, <1>5 DEF AloneAtWork, Running, RegistryTypeOK
<1>8. OneRowPerKey'
  BY <1>2 DEF OneRowPerKey, RegistryKeepsRows
<1>9. KeysSurvive'
  <2>. SUFFICES ASSUME NEW u \in Tables, NEW x \in ever[u]
                PROVE  \/ x.key \in StoredKeys(u)' \/ x.key \in torn'[u]
                       \/ \E q \in Processes : /\ at'[q] = "inserting" /\ Table(q)' = u
                                              /\ x.key \in known'[q]
    BY <1>2 DEF KeysSurvive
  <2>1. x.key \in torn[u] => x.key \in torn'[u]
    BY <1>2 DEF RegistryTypeOK
  <2>2. ASSUME at[p] = "inserting", t = u, x.key \in known[p], x.key \notin StoredKeys(u)
        PROVE  x.key \in torn'[u]
    BY <2>2, <1>2 DEF RegistryTypeOK
  <2>. QED
    BY <2>1, <2>2, <1>1, <1>2, <1>4, <1>5 DEF KeysSurvive, RegistryKeepsRows, RegistryTypeOK
<1>. QED
  BY <1>3, <1>6, <1>7, <1>8, <1>9 DEF RegistryKeepsRows
-----------------------------------------------------------------------------
\* Every step keeps the invariant.
LEMMA NextRegistryInv == RegistryInv /\ [RegistryNext]_registryVars => RegistryInv'
<1>. SUFFICES ASSUME RegistryInv, [RegistryNext]_registryVars PROVE RegistryInv'
  OBVIOUS
<1>1. ASSUME NEW p \in Processes, Launch(p) \/ ProcessStep(p) \/ BreakOff(p)
      PROVE  RegistryInv'
  <2>1. CASE Launch(p)      BY <2>1, LaunchStep
  <2>2. CASE Collect(p)     BY <2>2, CollectStep
  <2>3. CASE OpenTable(p)   BY <2>3, OpenTableStep
  <2>4. CASE CreateTable(p) \/ InsertRows(p)
    BY <2>4, AppendRowsStep DEF CreateTable, InsertRows
  <2>5. CASE ReadKeys(p)    BY <2>5, ReadKeysStep
  <2>6. CASE DeleteKnown(p) BY <2>6, DeleteKnownStep
  <2>7. CASE BreakOff(p)    BY <2>7, BreakOffStep
  <2>. QED
    BY <1>1, <2>1, <2>2, <2>3, <2>4, <2>5, <2>6, <2>7 DEF ProcessStep
<1>2. ASSUME UNCHANGED registryVars PROVE RegistryInv'
  <2>1. \A q \in Processes : Table(q)' = Table(q) /\ Keys(q)' = Keys(q)
    BY <1>2, KeysKept, TableKept DEF registryVars
  <2>2. \A u \in Tables : StoredKeys(u)' = StoredKeys(u)
    BY <1>2, StoredKeysKept DEF registryVars
  <2>3. \A q \in Processes : Table(q) \in Tables
    BY TableOfProcess
  <2>4. RegistryTypeOK' /\ KnowsItsOwn'
    BY <1>2, <2>1 DEF registryVars, RegistryTypeOK, KnowsItsOwn
  <2>5. AloneAtWork'
    BY <1>2, <2>1, <2>2, <2>3 DEF registryVars, AloneAtWork, Running
  <2>6. RegistryKeepsRows'
    BY <1>2, <2>1, <2>2 DEF registryVars, RegistryKeepsRows, OneRowPerKey, KeysSurvive
  <2>. QED
    BY <2>4, <2>5, <2>6
<1>. QED
  BY <1>1, <1>2 DEF RegistryNext

\* The invariant of the registry pipeline holds in every behaviour: what a process
\* knows between two transactions of a save is true of the table it saves.
THEOREM RegistryInvariant == RegistrySpec => []RegistryInv
  BY InitRegistryInv, NextRegistryInv, PTL DEF RegistrySpec

\* The types of the registry's variables.
THEOREM RegistryTypeCorrect == RegistrySpec => []RegistryTypeOK
  BY RegistryInvariant, PTL

\* Whatever companies, years and processes there are: runs one after the other
\* keep one row per key, and no run loses a row but by breaking off between its
\* delete and its insert.
THEOREM RegistryAlwaysKeepsRows == RegistrySpec => []RegistryKeepsRows
  BY RegistryInvariant, PTL
-----------------------------------------------------------------------------
(* Every company is accounted for *)

LEMMA OwnRowsKept ==
    ASSUME NEW p, NEW t, outcome'[p] = outcome[p], year'[p] = year[p]
    PROVE  OwnRows(p, t)' = OwnRows(p, t)
<1>1. KeysOf(p, t)' = KeysOf(p, t)
  BY DEF KeysOf, Passed, Listed, ErrorKeys, YearMapping
<1>. QED
  BY <1>1 DEF OwnRows, Row

\* A company is filtered, has an error of the list, or passed.
LEMMA ScreeningIsComplete ==
    ASSUME NEW o \in PossibleOutcomes
    PROVE  /\ o.status \in {"success", "error", "asset_filtered", "revenue_filtered"}
           /\ o.coded \in BOOLEAN /\ o.details \in BOOLEAN /\ o.profile \in BOOLEAN
<1>1. o \in Outcomes
  BY DEF PossibleOutcomes, OutcomesOf
<1>. QED
  BY <1>1 DEF Outcomes

\* What a process that neither collects nor changes its table has stored stays.
LEMMA SavedStays ==
    ASSUME AccountInv, NEW p \in Processes, at[p] \notin {"new", "collecting"},
           outcome'[p] = outcome[p], year'[p] = year[p], tab'[p] = tab[p],
           at'[p] \notin {"new", "collecting"}, at'[p] = "done" => at[p] = "done",
           \A t \in Tables : ever[t] \subseteq ever'[t]
    PROVE  /\ outcome'[p] \in [Companies -> PossibleOutcomes]
           /\ \A i \in DOMAIN TableNames :
                 i < tab'[p] \/ at'[p] = "done" =>
                    OwnRows(p, TableNames[i])' \subseteq ever'[TableNames[i]]
<1>1. ASSUME NEW i \in DOMAIN TableNames, i < tab'[p] \/ at'[p] = "done"
      PROVE  OwnRows(p, TableNames[i])' \subseteq ever'[TableNames[i]]
  <2>1. PICK t \in Tables : t = TableNames[i]
    BY TablePositions
  <2>2. OwnRows(p, t)' = OwnRows(p, t)
    BY OwnRowsKept
  <2>3. OwnRows(p, t) \subseteq ever[t]
    BY <1>1, <2>1 DEF AccountInv, SavedSoFar
  <2>. QED
    BY <2>1, <2>2, <2>3
<1>. QED
  BY <1>1 DEF AccountInv, SavedSoFar

\* A process that is done with a table has stored its rows of that table too.
LEMMA SavedMore ==
    ASSUME AccountInv, NEW p \in Processes, at[p] \notin {"new", "collecting"}, NextTable(p),
           outcome'[p] = outcome[p], year'[p] = year[p],
           \A t \in Tables : ever[t] \subseteq ever'[t],
           OwnRows(p, Table(p)) \subseteq ever'[Table(p)],
           at[p] # "done"
    PROVE  /\ at'[p] \in {"saving", "done"}
           /\ \A i \in DOMAIN TableNames :
                 i < tab'[p] \/ at'[p] = "done" =>
                    OwnRows(p, TableNames[i])' \subseteq ever'[TableNames[i]]
<1>1. tab[p] \in 1..5 /\ DOMAIN TableNames = 1..5 /\ Len(TableNames) = 5
  BY TablePositions DEF AccountInv, RegistryTypeOK
<1>2. /\ at'[p] \in {"saving", "done"}
      /\ at'[p] = "done" => tab[p] = 5
      /\ at'[p] # "done" => tab'[p] = tab[p] + 1
      /\ tab'[p] <= tab[p] + 1
  BY <1>1 DEF NextTable, AccountInv, RegistryTypeOK
<1>3. ASSUME NEW i \in DOMAIN TableNames, i < tab'[p] \/ at'[p] = "done"
      PROVE  OwnRows(p, TableNames[i])' \subseteq ever'[TableNames[i]]
  <2>1. PICK t \in Tables : t = TableNames[i]
    BY TablePositions
  <2>2. OwnRows(p, t)' = OwnRows(p, t)
    BY OwnRowsKept
  <2>3. i < tab[p] \/ i = tab[p]
    BY <1>1, <1>2, <1>3
  <2>4. CASE i < tab[p]
    <3>1. OwnRows(p, t) \subseteq ever[t]
      BY <2>1, <2>4 DEF AccountInv, SavedSoFar
    <3>. QED
      BY <2>1, <2>2, <3>1
  <2>5. CASE i = tab[p]
    BY <2>1, <2>2, <2>5 DEF Table
  <2>. QED
    BY <2>3, <2>4, <2>5
<1>. QED
  BY <1>2, <1>3

\* Every step of the registry keeps what was saved and adds what was done with.
LEMMA NextAccountInv ==
    ASSUME AccountInv, RegistryTypeOK', [RegistryNext]_registryVars
    PROVE  AccountInv'
<1> DEFINE Saved(p) == IF at[p] \in {"new", "collecting"} THEN tab[p] = 1
                       ELSE /\ outcome[p] \in [Companies -> PossibleOutcomes]
                            /\ \A i \in DOMAIN TableNames :
                                  i < tab[p] \/ at[p] = "done" =>
                                     OwnRows(p, TableNames[i]) \subseteq ever[TableNames[i]]
<1> SUFFICES ASSUME NEW q \in Processes PROVE Saved(q)'
  BY DEF AccountInv, SavedSoFar
<1>1. Saved(q) /\ RegistryTypeOK
  BY DEF AccountInv, SavedSoFar
<1>2. ASSUME \A t \in Tables : ever[t] \subseteq ever'[t], at'[q] = at[q], tab'[q] = tab[q],
             outcome'[q] = outcome[q], year'[q] = year[q]
      PROVE  Saved(q)'
  BY <1>1, <1>2, SavedStays
<1>3. ASSUME NEW p \in Processes, Launch(p) \/ ProcessStep(p) \/ BreakOff(p)
      PROVE  Saved(q)'
  <2>1. \A t \in Tables : ever[t] \subseteq ever'[t]
    BY <1>1, <1>3 DEF Launch, ProcessStep, BreakOff, Collect, OpenTable, CreateTable, ReadKeys,
                      DeleteKnown, InsertRows, AppendRows, RegistryTypeOK
  <2>2. CASE q # p
    <3>1. /\ at'[q] = at[q] /\ tab'[q] = tab[q] /\ outcome'[q] = outcome[q]
          /\ year'[q] = year[q]
      BY <1>1, <1>3, <2>2 DEF Launch, ProcessStep, BreakOff, Collect, OpenTable, CreateTable,
            ReadKeys, DeleteKnown, InsertRows, AppendRows, NextTable, RegistryTypeOK
    <3>. QED
      BY <1>2, <2>1, <3>1
  <2>3. CASE q = p /\ Launch(p)
    BY <1>1, <2>3 DEF Launch, RegistryTypeOK
  <2>4. CASE q = p /\ Collect(p)
    <3>1. tab'[q] = 1 /\ at'[q] = "saving" /\ outcome'[q] \in [Companies -> PossibleOutcomes]
      BY <1>1, <2>4 DEF Collect, RegistryTypeOK
    <3>2. \A i \in DOMAIN TableNames : ~(i < 1)
      BY TablePositions
    <3>. QED
      BY <3>1, <3>2
  <2>5. CASE q = p /\ OpenTable(p)
    <3>1. at[q] = "saving" /\ outcome'[q] = outcome[q] /\ year'[q] = year[q]
      BY <2>5 DEF OpenTable
    <3>2. CASE Keys(p) = {} /\ NextTable(p)
      <4>1. OwnRows(q, Table(q)) \subseteq ever'[Table(q)]
        BY <2>5, <3>2 DEF Keys, OwnRows
      <4>. QED
        BY <1>1, <2>1, <2>5, <3>1, <3>2, <4>1, SavedMore
    <3>3. CASE at'[q] \in {"reading", "creating"} /\ tab'[q] = tab[q]
      BY <1>1, <2>1, <3>1, <3>3, SavedStays
    <3>. QED
      BY <1>1, <2>5, <3>2, <3>3 DEF OpenTable, RegistryTypeOK
  <2>6. CASE q = p /\ (CreateTable(p) \/ InsertRows(p))
    <3>1. /\ at[q] \in {"creating", "inserting"} /\ NextTable(q)
          /\ outcome'[q] = outcome[q] /\ year'[q] = year[q]
      BY <2>6 DEF CreateTable, InsertRows, AppendRows
    <3>2. OwnRows(q, Table(q)) \subseteq ever'[Table(q)]
      BY <1>1, <2>6, TableOfProcess DEF CreateTable, InsertRows, AppendRows, Keys, NewRows,
                                   OwnRows, RegistryTypeOK
    <3>. QED
      BY <1>1, <2>1, <3>1, <3>2, SavedMore
  <2>7. CASE q = p /\ (ReadKeys(p) \/ DeleteKnown(p) \/ BreakOff(p))
    <3>1. /\ at[q] \in {"saving", "creating", "reading", "deleting", "inserting"}
          /\ at'[q] \in {"deleting", "inserting", "failed"} /\ tab'[q] = tab[q]
          /\ outcome'[q] = outcome[q] /\ year'[q] = year[q]
      BY <1>1, <2>7 DEF ReadKeys, DeleteKnown, BreakOff, RegistryTypeOK
    <3>. QED
      BY <1>1, <2>1, <3>1, SavedStays
  <2>. QED
    BY <1>3, <2>2, <2>3, <2>4, <2>5, <2>6, <2>7 DEF ProcessStep
<1>4. CASE UNCHANGED registryVars
  BY <1>2, <1>4 DEF registryVars
<1>. QED
  BY <1>3, <1>4 DEF RegistryNext

LEMMA InitAccountInv == RegistryInit => AccountInv
<1>. SUFFICES ASSUME RegistryInit PROVE AccountInv
  OBVIOUS
<1>1. RegistryTypeOK
  BY InitRegistryInv
<1>. QED
  BY <1>1 DEF AccountInv, SavedSoFar, RegistryInit

\* A process that is done has stored all it has, and what it has covers every
\* company.
LEMMA AccountedAtTheEnd == ASSUME AccountInv PROVE EveryCompanyAccounted
<1>. SUFFICES ASSUME NEW p \in Processes, at[p] = "done", NEW c \in Companies
     PROVE  Accounted(p, c)
  BY DEF EveryCompanyAccounted
<1>1. PICK o \in PossibleOutcomes : o = outcome[p][c]
  BY DEF AccountInv, SavedSoFar
<1>2. ASSUME NEW t \in Tables, NEW k \in KeysOf(p, t) PROVE Row(p, k) \in ever[t]
  <2>1. PICK i \in DOMAIN TableNames : t = TableNames[i]
    BY DEF Tables
  <2>2. OwnRows(p, t) \subseteq ever[t]
    BY <2>1 DEF AccountInv, SavedSoFar
  <2>. QED
    BY <2>2 DEF OwnRows
<1>3. /\ "sme_list" \in Tables /\ "features" \in Tables /\ "company_profile" \in Tables
      /\ "error_log" \in Tables /\ "statement_details" \in Tables
  BY DEF Tables, TableNames
<1>4. CASE o.status = "error"
  <2>1. <<c, o.error>> \in KeysOf(p, "error_log")
    BY <1>1, <1>4 DEF ErrorKeys, KeysOf
  <2>. QED
    BY <1>1, <1>2, <1>3, <1>4, <2>1 DEF Accounted
<1>5. year[p] \in YearMapping(year[p])
  <2>1. PICK y : y = year[p]
    OBVIOUS
  <2>2. y \in Nat /\ y >= 2
    BY <2>1, RegistryAssumption DEF AccountInv, RegistryTypeOK
  <2>. QED
    BY <2>1, <2>2 DEF YearMapping
<1>6. CASE o.status = "success" /\ o.coded
  <2>1. c \in Listed(p)
    BY <1>1, <1>6 DEF Passed, Listed
  <2>2. c \in KeysOf(p, "sme_list") /\ <<c, year[p]>> \in KeysOf(p, "features")
    BY <1>5, <2>1 DEF KeysOf
  <2>3. CASE o.profile
    <3>1. c \in KeysOf(p, "company_profile")
      BY <1>1, <2>1, <2>3 DEF KeysOf
    <3>. QED
      BY <1>1, <1>2, <1>3, <1>6, <2>2, <3>1 DEF Accounted
  <2>4. CASE ~o.profile
    <3>1. <<c, "COMPANY_PROFILE_ERROR">> \in KeysOf(p, "error_log")
      BY <1>1, <2>1, <2>4 DEF ErrorKeys, KeysOf
    <3>. QED
      BY <1>1, <1>2, <1>3, <1>6, <2>2, <3>1 DEF Accounted
  <2>. QED
    BY <2>3, <2>4
<1>7. CASE o.status = "success" /\ ~o.coded
  <2>1. CASE o.details
    <3>1. <<c, year[p]>> \in KeysOf(p, "statement_details")
      BY <1>1, <1>5, <1>7, <2>1 DEF KeysOf, Passed
    <3>. QED
      BY <1>1, <1>2, <1>3, <1>7, <2>1, <3>1 DEF Accounted
  <2>2. CASE ~o.details
    BY <1>1, <1>7, <2>2 DEF Accounted
  <2>. QED
    BY <2>1, <2>2
<1>. QED
  BY <1>1, <1>4, <1>6, <1>7, ScreeningIsComplete DEF Accounted

\* A run of the pipeline that ends well has stored rows of its own for every company
\* it did not filter, whatever DART answered for it and whichever runs stored their
\* rows meanwhile; a company that passed without a stock code is the exception that
\* the property names.
THEOREM EveryCompanyIsAccounted == RegistrySpec => []EveryCompanyAccounted
<1>1. RegistryTypeOK' /\ AccountInv /\ [RegistryNext]_registryVars => AccountInv'
  BY NextAccountInv
<1>. QED
  BY <1>1, InitAccountInv, AccountedAtTheEnd, RegistryTypeCorrect, PTL DEF RegistrySpec
-----------------------------------------------------------------------------
(* The news *)

\* What is stored was stored by a collection that is done.
NewsOwned ==
    \A n \in articles : \E d \in Collections : phase[d] = "done" /\ n \in Range(batch[d])

RaisedInv == DOMAIN phase = Collections /\ DOMAIN batch = Collections
             /\ NewsOwned /\ RaisedOnlyByRace

\* A step of a collection that is neither done nor raised takes nothing from the others.
LEMMA OthersKept ==
    ASSUME RaisedInv, articles' = articles, NEW c \in Collections,
           phase[c] \notin {"done", "raised"}, phase'[c] \notin {"done", "raised"},
           DOMAIN phase' = Collections, DOMAIN batch' = Collections,
           \A d \in Collections \ {c} :
              phase'[d] = phase[d] /\ batch'[d] = batch[d] /\ found'[d] = found[d]
    PROVE  RaisedInv'
<1>1. NewsOwned'
  BY DEF RaisedInv, NewsOwned
<1>2. RaisedOnlyByRace'
  <2>. SUFFICES ASSUME NEW r \in Collections, phase'[r] = "raised"
               PROVE  \E d \in Collections \ {r} :
                         /\ phase'[d] = "done"
                         /\ (Range(batch'[r]) \ found'[r]) \cap Range(batch'[d]) # {}
    BY DEF RaisedOnlyByRace
  <2>1. r # c /\ phase[r] = "raised"
    OBVIOUS
  <2>2. PICK d \in Collections \ {r} :
           /\ phase[d] = "done"
           /\ (Range(batch[r]) \ found[r]) \cap Range(batch[d]) # {}
    BY <2>1 DEF RaisedInv, RaisedOnlyByRace
  <2>3. d # c
    BY <2>2
  <2>4. /\ phase'[d] = phase[d] /\ batch'[d] = batch[d]
        /\ batch'[r] = batch[r] /\ found'[r] = found[r]
    BY <2>1, <2>3
  <2>. QED BY <2>2, <2>4
<1>. QED BY <1>1, <1>2 DEF RaisedInv

\* A collection fails only because another one, that is done, stored one of its new
\* articles between its selects and its commit (upsert_news_articles): for any number
\* of collections, whatever the site publishes and whichever requests fail.
THEOREM NewsRaisedOnlyByRace == NewsSpec => []RaisedOnlyByRace
<1>1. NewsInit => RaisedInv
  BY DEF NewsInit, RaisedInv, NewsOwned, RaisedOnlyByRace
<1>2. RaisedInv /\ [NewsNext]_newsVars => RaisedInv'
  <2>. SUFFICES ASSUME RaisedInv, [NewsNext]_newsVars PROVE RaisedInv'
    OBVIOUS
  <2>. USE DEF RaisedInv
  <2>1. CASE Publish
    BY <2>1 DEF Publish, NewsOwned, RaisedOnlyByRace
  <2>2. CASE UNCHANGED newsVars
    BY <2>2 DEF newsVars, NewsOwned, RaisedOnlyByRace
  <2>3. ASSUME NEW c \in Collections, BeginCollection(c) PROVE RaisedInv'
    BY <2>3, OthersKept DEF BeginCollection
  <2>4. ASSUME NEW c \in Collections, ReadPage(c) PROVE RaisedInv'
    <3>1. /\ phase[c] = "listing"
          /\ phase' = [phase EXCEPT ![c] = "reading"] \/ phase' = phase
          /\ UNCHANGED <<articles, batch, found>>
      BY <2>4 DEF ReadPage
    <3>. QED BY <3>1, OthersKept
  <2>5. ASSUME NEW c \in Collections, LosePage(c) PROVE RaisedInv'
    BY <2>5, OthersKept DEF LosePage
  <2>6. ASSUME NEW c \in Collections, ReadArticles(c) PROVE RaisedInv'
    <3>1. /\ phase[c] = "reading" /\ phase' = [phase EXCEPT ![c] = "looking"]
          /\ \E b : batch' = [batch EXCEPT ![c] = b]
          /\ UNCHANGED <<articles, found>>
      BY <2>6 DEF ReadArticles
    <3>. QED BY <3>1, OthersKept
  <2>7. ASSUME NEW c \in Collections, LookUp(c) PROVE RaisedInv'
    <3>1. /\ phase[c] = "looking" /\ phase' = [phase EXCEPT ![c] = "writing"]
          /\ \E b : found' = [found EXCEPT ![c] = b]
          /\ UNCHANGED <<articles, batch>>
      BY <2>7 DEF LookUp
    <3>2. \A d \in Collections \ {c} : found'[d] = found[d]
      BY <3>1
    <3>. QED BY <3>1, <3>2, OthersKept
  <2>8. ASSUME NEW c \in Collections, Commit(c), NoConflict(c) PROVE RaisedInv'
    <3>1. /\ phase[c] = "writing" /\ phase' = [phase EXCEPT ![c] = "done"]
          /\ articles' = articles \cup Range(batch[c])
          /\ UNCHANGED <<batch, found>>
      BY <2>8 DEF Commit
    <3>2. NewsOwned'
      BY <3>1 DEF NewsOwned
    <3>3. RaisedOnlyByRace'
      BY <3>1 DEF RaisedOnlyByRace
    <3>. QED BY <3>1, <3>2, <3>3
  <2>9. ASSUME NEW c \in Collections, Commit(c), ~NoConflict(c) PROVE RaisedInv'
    <3>1. /\ phase[c] = "writing" /\ phase' = [phase EXCEPT ![c] = "raised"]
          /\ UNCHANGED <<articles, batch, found>>
      BY <2>9 DEF Commit
    <3>2. PICK n \in Range(batch[c]) \ found[c] : n \in articles
      BY <2>9 DEF NoConflict, InsertsOnce
    <3>3. PICK d \in Collections : phase[d] = "done" /\ n \in Range(batch[d])
      BY <3>2 DEF NewsOwned
    <3>4. NewsOwned'
      BY <3>1 DEF NewsOwned
    <3>5. RaisedOnlyByRace'
      BY <3>1, <3>2, <3>3 DEF RaisedOnlyByRace
    <3>. QED BY <3>1, <3>4, <3>5
  <2>. QED BY <2>1, <2>2, <2>3, <2>4, <2>5, <2>6, <2>7, <2>8, <2>9
           DEF NewsNext, CollectionStep
<1>3. RaisedInv => RaisedOnlyByRace
  BY DEF RaisedInv
<1>. QED BY <1>1, <1>2, <1>3, PTL DEF NewsSpec
-----------------------------------------------------------------------------
(* The methodologies *)

\* Documents are sequences of texts, so what the store holds and what an ingest has
\* in its hands is finite.
RagTypeOK ==
    /\ docs \in [Files -> Contents \cup {Unreadable}]
    /\ IsFiniteSet(store)
    /\ ingest \in [Ingests -> {"new", "file", "asking", "adding", "added", "done", "killed"}]
    /\ todo \in [Ingests -> Seq(Files)]
    /\ \A i \in Ingests : ingest[i] \in {"asking", "adding", "added"} => todo[i] # <<>>
    /\ DOMAIN docChunks = Ingests /\ DOMAIN fresh = Ingests
    /\ \A i \in Ingests : IsFiniteSet(docChunks[i]) /\ IsFiniteSet(fresh[i])

LEMMA ChunksAreFinite ==
    ASSUME NEW f \in Files, NEW content \in Contents \cup {Unreadable}
    PROVE  IsFiniteSet(ChunksOf(f, content))
<1>1. CASE content = Unreadable
  BY <1>1, FS_EmptySet DEF ChunksOf
<1>2. CASE content # Unreadable
  <2>1. content \in Seq(STRING)
    BY <1>2, StoreAssumption
  <2>2. Len(content) \in Nat /\ DOMAIN content = 1..Len(content)
    BY <2>1
  <2>3. IsFiniteSet(DOMAIN content)
    BY <2>2, FS_Interval
  <2>4. PICK g : g = [k \in DOMAIN content |->
                       [file |-> f, place |-> k, text |-> content[k]]]
    OBVIOUS
  <2>5. /\ g \in [DOMAIN content -> ChunksOf(f, content)]
        /\ \A c \in ChunksOf(f, content) : \E k \in DOMAIN content : g[k] = c
    BY <1>2, <2>4 DEF ChunksOf
  <2>6. g \in Surjection(DOMAIN content, ChunksOf(f, content))
    BY <2>5 DEF Surjection
  <2>. QED BY <2>3, <2>6, FS_Surjection
<1>. QED BY <1>1, <1>2

\* SetToSeq puts every document once.
LEMMA FilesInOrder ==
    /\ SetToSeq(Files) \in Seq(Files)
    /\ Len(SetToSeq(Files)) = Cardinality(Files)
    /\ \A f \in Files : \E k \in DOMAIN SetToSeq(Files) : SetToSeq(Files)[k] = f
<1>1. PICK n : n = Cardinality(Files)
  OBVIOUS
<1>2. n \in Nat /\ ExistsBijection(1..n, Files)
  BY <1>1, StoreAssumption, FS_CardinalityType
<1>3. \E s \in [1..n -> Files] : IsInjective(s)
  BY <1>2 DEF ExistsBijection, Bijection, Injection, Surjection, IsInjective
<1>4. PICK s : s = SetToSeq(Files)
  OBVIOUS
<1>5. s \in [1..n -> Files] /\ IsInjective(s)
  BY <1>1, <1>3, <1>4 DEF SetToSeq
<1>6. s \in Seq(Files) /\ Len(s) = n /\ DOMAIN s = 1..n
  BY <1>2, <1>5
<1> DEFINE T == {s[k] : k \in 1..n}
<1>7. T \in SUBSET Files
  BY <1>5
<1>8. IsFiniteSet(T)
  BY <1>7, StoreAssumption, FS_Subset
<1>9. s \in Surjection(1..n, T) /\ s \in Injection(1..n, T)
  BY <1>5, <1>7 DEF Surjection, Injection, IsInjective
<1>10. Cardinality(T) = n
  <2>1. IsFiniteSet(1..n) /\ Cardinality(1..n) = n
    BY <1>2, FS_Interval
  <2>. HIDE DEF T
  <2>. QED BY <1>9, <2>1, FS_Surjection
<1>11. T = Files
  <2>. HIDE DEF T
  <2>. QED BY <1>1, <1>7, <1>10, StoreAssumption, FS_Subset
<1>. QED BY <1>1, <1>4, <1>6, <1>11

LEMMA NextFileTypes ==
    ASSUME RagTypeOK, NEW i \in Ingests, NEW count, NextFile(i, count), todo[i] # <<>>,
           IsFiniteSet(store'), docs' = docs
    PROVE  RagTypeOK'
<1>1. Tail(todo[i]) \in Seq(Files)
  BY DEF RagTypeOK
<1>. QED BY <1>1, FS_EmptySet DEF RagTypeOK, NextFile

LEMMA InitRagTypes == RagInit => RagTypeOK
  BY FS_EmptySet DEF RagInit, RagTypeOK

LEMMA RagTypesKept == RagTypeOK /\ [RagNext]_ragVars => RagTypeOK'
<1>. SUFFICES ASSUME RagTypeOK, [RagNext]_ragVars PROVE RagTypeOK'
  OBVIOUS
<1>. USE DEF RagTypeOK
<1>1. ASSUME NEW f \in Files, EditDocument(f) PROVE RagTypeOK'
  BY <1>1 DEF EditDocument
<1>2. ASSUME NEW i \in Ingests, BeginIngest(i) PROVE RagTypeOK'
  <2>1. SetToSeq(Files) \in Seq(Files)
    BY FilesInOrder
  <2>. QED BY <1>2, <2>1 DEF BeginIngest
<1>3. ASSUME NEW i \in Ingests, ReadFile(i) PROVE RagTypeOK'
  <2>1. PICK f \in Files : f = Head(todo[i])
    BY <1>3 DEF ReadFile
  <2>2. IsFiniteSet(ChunksOf(f, docs[f]))
    BY ChunksAreFinite
  <2>3. CASE \E count : NextFile(i, count)
    BY <1>3, <2>3, NextFileTypes DEF ReadFile
  <2>4. CASE /\ docChunks' = [docChunks EXCEPT ![i] = ChunksOf(f, docs[f])]
             /\ ingest' = [ingest EXCEPT ![i] = "asking"]
             /\ UNCHANGED <<todo, fresh, stats>>
    BY <1>3, <2>2, <2>4 DEF ReadFile
  <2>. QED BY <1>3, <2>1, <2>3, <2>4 DEF ReadFile
<1>4. ASSUME NEW i \in Ingests, AskIds(i) PROVE RagTypeOK'
  <2>1. CASE \E count : NextFile(i, count)
    BY <1>4, <2>1, NextFileTypes DEF AskIds
  <2>2. CASE /\ fresh' = [fresh EXCEPT ![i] = NewChunks(docChunks[i])]
             /\ ingest' = [ingest EXCEPT ![i] = "adding"]
             /\ UNCHANGED <<todo, docChunks, stats>>
    <3>1. IsFiniteSet(NewChunks(docChunks[i]))
      BY FS_Difference DEF NewChunks
    <3>. QED BY <1>4, <2>2, <3>1 DEF AskIds
  <2>. QED BY <1>4, <2>1, <2>2 DEF AskIds
<1>5. ASSUME NEW i \in Ingests, AddChunks(i) PROVE RagTypeOK'
  <2>1. IsFiniteSet(store \cup fresh[i])
    BY FS_Union
  <2>. QED BY <1>5, <2>1 DEF AddChunks
<1>11. ASSUME NEW i \in Ingests, CountChunks(i) PROVE RagTypeOK'
  BY <1>11, NextFileTypes DEF CountChunks
<1>6. ASSUME NEW i \in Ingests, FinishIngest(i) PROVE RagTypeOK'
  BY <1>6 DEF FinishIngest
<1>7. ASSUME NEW i \in Ingests, FailCall(i) PROVE RagTypeOK'
  BY <1>7, NextFileTypes DEF FailCall
<1>8. ASSUME NEW i \in Ingests, Kill(i) PROVE RagTypeOK'
  BY <1>8 DEF Kill
<1>9. ASSUME NEW c \in Clients, Lookup(c) PROVE RagTypeOK'
  BY <1>9 DEF Lookup
<1>10. CASE UNCHANGED ragVars
  BY <1>10 DEF ragVars
<1>. QED BY <1>1, <1>2, <1>3, <1>4, <1>5, <1>6, <1>7, <1>8, <1>9, <1>10, <1>11
         DEF RagNext, IngestStep

LEMMA RagTypesHold == RagSpec => []RagTypeOK
  BY InitRagTypes, RagTypesKept, PTL DEF RagSpec

\* A manufacturer is judged by the methodology of its own sector and by nothing else,
\* and by none only if the store has none or both searches failed
\* (retrieve_industry_methodology, _build_where_filter): for any documents and
\* clients, and whatever is stored when the industry analyst asks.
THEOREM AlwaysOwnMethodology == RagSpec => []OwnMethodology
<1>1. RagInit => OwnMethodology
  BY DEF RagInit, OwnMethodology
<1>2. RagTypeOK /\ OwnMethodology /\ [RagNext]_ragVars => OwnMethodology'
  <2>. SUFFICES ASSUME RagTypeOK, OwnMethodology, [RagNext]_ragVars PROVE OwnMethodology'
    OBVIOUS
  <2>1. CASE answer' = answer
    BY <2>1 DEF OwnMethodology
  <2>2. ASSUME NEW c \in Clients, Lookup(c) PROVE OwnMethodology'
    <3>1. PICK matching, n :
             /\ matching = Matches(c)
             /\ n = IF Cardinality(matching) < TopK THEN Cardinality(matching) ELSE TopK
      OBVIOUS
    <3>2. \E how \in {"search", "none"} :
             \E sources \in IF how = "none" THEN {<<>>} ELSE [1..n -> matching] :
                answer' = [client |-> c, how |-> how, sources |-> sources,
                           scale |-> GradeScale(sources), unknown |-> matching = {}]
      BY <2>2, <3>1 DEF Lookup
    <3>3. PICK how \in {"search", "none"} :
             \E sources \in IF how = "none" THEN {<<>>} ELSE [1..n -> matching] :
                answer' = [client |-> c, how |-> how, sources |-> sources,
                           scale |-> GradeScale(sources), unknown |-> matching = {}]
      BY <3>2
    <3>4. PICK sources \in IF how = "none" THEN {<<>>} ELSE [1..n -> matching] :
             answer' = [client |-> c, how |-> how, sources |-> sources,
                        scale |-> GradeScale(sources), unknown |-> matching = {}]
      BY <3>3
    <3>5. IsFiniteSet(matching)
      <4>1. matching \in SUBSET store
        BY <3>1 DEF Matches
      <4>. QED BY <4>1, FS_Subset DEF RagTypeOK
    <3>6. n \in Nat /\ (n = 0 => matching = {})
      BY <3>1, <3>5, FS_CardinalityType, FS_EmptySet, StoreAssumption
    <3>7. ASSUME NEW k \in DOMAIN sources
          PROVE  /\ Methodology[sources[k].file].industry = c.industry
                 /\ c.industry = "manufacturing" =>
                       Methodology[sources[k].file].sub = InferSubSector(c)
      <4>1. sources[k] \in matching
        BY <3>1, <3>6
      <4>2. c.industry = "manufacturing" => InferSubSector(c) # NoSub
        BY DEF InferSubSector, NoSub
      <4>. QED BY <3>1, <4>1, <4>2 DEF Matches
    <3>8. sources = <<>> => how = "none" \/ matching = {}
      BY <3>1, <3>6
    <3>9. GradeScale(sources) # NoSub /\ c.industry = "manufacturing" =>
             GradeScale(sources) \in {InferSubSector(c), "corporate"}
      <4>1. CASE sources = <<>>
        BY <4>1 DEF GradeScale
      <4>2. CASE sources # <<>>
        <5>1. 1 \in DOMAIN sources
          BY <3>1, <3>6, <4>2
        <5>. QED BY <3>7, <4>2, <5>1 DEF GradeScale
      <4>. QED BY <4>1, <4>2
    <3>10. /\ answer'.client = c /\ answer'.how = how /\ answer'.sources = sources
           /\ answer'.scale = GradeScale(sources) /\ answer'.unknown = (matching = {})
      BY <3>4
    <3>. QED BY <3>7, <3>8, <3>9, <3>10 DEF OwnMethodology
  <2>. QED
    BY <2>1, <2>2 DEF RagNext, IngestStep, EditDocument, BeginIngest, ReadFile, AskIds,
                       AddChunks, CountChunks, FinishIngest, FailCall, Kill, ragVars
<1>. QED BY <1>1, <1>2, RagTypesHold, PTL DEF RagSpec
-----------------------------------------------------------------------------
(* What the ingests count *)

\* The sum over the ingests is a recursive function on their subsets.
IsSumOver(u, S, counts) ==
    u = [s \in SUBSET S |-> IF s = {} THEN 0
                            ELSE counts[CHOOSE x \in s : TRUE].inserted
                                    + u[s \ {CHOOSE x \in s : TRUE}]]

LEMMA SumUnfolds ==
    ASSUME NEW S, IsFiniteSet(S), NEW counts
    PROVE  \E u : IsSumOver(u, S, counts)
<1>1. PICK pick : pick = [s \in SUBSET S |-> CHOOSE x \in s : TRUE]
  OBVIOUS
<1>2. \A s \in SUBSET S : pick[s] = CHOOSE x \in s : TRUE
  BY <1>1
<1>3. \A s \in SUBSET S : s # {} => pick[s] \in s
  <2>. SUFFICES ASSUME NEW s \in SUBSET S, s # {} PROVE (CHOOSE x \in s : TRUE) \in s
    BY <1>2
  <2>. QED OBVIOUS
<1> DEFINE F(n) == {s \in SUBSET S : Cardinality(s) <= n}
<1> DEFINE P(n) == \E u : u = [s \in F(n) |->
                     IF s = {} THEN 0 ELSE counts[pick[s]].inserted + u[s \ {pick[s]}]]
<1>4. P(0)
  <2>1. \A s \in F(0) : s = {}
    <3>. SUFFICES ASSUME NEW s \in SUBSET S, Cardinality(s) <= 0 PROVE s = {}
      OBVIOUS
    <3>1. IsFiniteSet(s)
      BY FS_Subset
    <3>. QED BY <3>1, FS_CardinalityType, FS_EmptySet
  <2>2. PICK u : u = [s \in F(0) |-> 0]
    OBVIOUS
  <2>. HIDE DEF F
  <2>3. u = [s \in F(0) |-> IF s = {} THEN 0 ELSE counts[pick[s]].inserted + u[s \ {pick[s]}]]
    BY <2>1, <2>2
  <2>. QED BY <2>3
<1>5. ASSUME NEW n \in Nat, P(n) PROVE P(n + 1)
  <2>1. PICK u : u = [s \in F(n) |->
                     IF s = {} THEN 0 ELSE counts[pick[s]].inserted + u[s \ {pick[s]}]]
    BY <1>5
  <2>2. PICK v : v = [s \in F(n + 1) |->
                     IF s = {} THEN 0 ELSE counts[pick[s]].inserted + u[s \ {pick[s]}]]
    OBVIOUS
  <2>3. ASSUME NEW s \in F(n + 1), s # {} PROVE s \ {pick[s]} \in F(n)
    <3>1. IsFiniteSet(s)
      BY FS_Subset
    <3>2. Cardinality(s \ {pick[s]}) = Cardinality(s) - 1 /\ Cardinality(s) \in Nat
      BY <1>3, <2>3, <3>1, FS_RemoveElement, FS_CardinalityType
    <3>. QED BY <3>2
  <2>4. ASSUME NEW s \in F(n) PROVE s \in F(n + 1)
    <3>1. IsFiniteSet(s)
      BY FS_Subset
    <3>2. Cardinality(s) \in Nat
      BY <3>1, FS_CardinalityType
    <3>. QED BY <3>2
  <2>. HIDE DEF F
  <2>5. \A s \in F(n) : v[s] = u[s]
    BY <2>1, <2>2, <2>4
  <2>6. \A s \in F(n + 1) : s # {} => u[s \ {pick[s]}] = v[s \ {pick[s]}]
    BY <2>3, <2>5
  <2>7. \A s \in F(n + 1) :
           (IF s = {} THEN 0 ELSE counts[pick[s]].inserted + u[s \ {pick[s]}])
              = IF s = {} THEN 0 ELSE counts[pick[s]].inserted + v[s \ {pick[s]}]
    BY <2>6
  <2>8. v = [s \in F(n + 1) |->
                IF s = {} THEN 0 ELSE counts[pick[s]].inserted + v[s \ {pick[s]}]]
    BY <2>2, <2>7
  <2>. QED BY <2>8
<1>6. PICK n : n = Cardinality(S)
  OBVIOUS
<1>7. n \in Nat
  BY <1>6, FS_CardinalityType
<1>8. P(n)
  <2> DEFINE T == {m \in Nat : P(m)}
  <2>. HIDE DEF P
  <2>1. 0 \in T /\ \A m \in Nat : m \in T => m + 1 \in T
    BY <1>4, <1>5
  <2>. HIDE DEF T
  <2>2. n \in T
    BY <1>7, <2>1, NatSetInduction
  <2>. QED BY <2>2 DEF T
<1>9. F(n) = SUBSET S
  <2>1. \A s \in SUBSET S : Cardinality(s) <= Cardinality(S)
    BY FS_Subset
  <2>. QED BY <1>6, <2>1
<1>10. PICK u : u = [s \in SUBSET S |->
                     IF s = {} THEN 0 ELSE counts[pick[s]].inserted + u[s \ {pick[s]}]]
  <2>. HIDE DEF F
  <2>. QED BY <1>8, <1>9
<1>11. u = [s \in SUBSET S |->
               IF s = {} THEN 0
               ELSE counts[CHOOSE x \in s : TRUE].inserted
                       + u[s \ {CHOOSE x \in s : TRUE}]]
  BY <1>2, <1>10
<1>. QED BY <1>11 DEF IsSumOver

LEMMA InsertedBySums ==
    ASSUME NEW counts
    PROVE  \E u : IsSumOver(u, Ingests, counts) /\ InsertedBy(counts) = u[Ingests]
<1>1. InsertedBy(counts) = (CHOOSE u : IsSumOver(u, Ingests, counts))[Ingests]
  BY DEF InsertedBy, MapThenSumSet, MapThenFoldSet, IsSumOver
<1>2. \E u : IsSumOver(u, Ingests, counts)
  BY SumUnfolds, StoreAssumption
<1>. QED BY <1>1, <1>2

\* One ingest that inserted n more adds n to what all inserted.
LEMMA SumGrows ==
    ASSUME NEW counts, NEW after, NEW i \in Ingests, NEW n \in Nat,
           \A j \in Ingests : counts[j].inserted \in Nat,
           \A j \in Ingests \ {i} : after[j].inserted = counts[j].inserted,
           after[i].inserted = counts[i].inserted + n
    PROVE  InsertedBy(counts) \in Nat /\ InsertedBy(after) = InsertedBy(counts) + n
<1>1. IsFiniteSet(Ingests)
  BY StoreAssumption
<1>2. PICK u : IsSumOver(u, Ingests, counts) /\ InsertedBy(counts) = u[Ingests]
  BY InsertedBySums
<1>3. PICK v : IsSumOver(v, Ingests, after) /\ InsertedBy(after) = v[Ingests]
  BY InsertedBySums
<1> DEFINE Sums(s) == u[s] \in Nat /\ v[s] = u[s] + IF i \in s THEN n ELSE 0
<1> DEFINE T == {m \in Nat : \A s \in SUBSET Ingests : Cardinality(s) = m => Sums(s)}
<1>4. u[{}] = 0 /\ v[{}] = 0
  BY <1>2, <1>3 DEF IsSumOver
<1>5. ASSUME NEW s \in SUBSET Ingests
      PROVE  IsFiniteSet(s) /\ Cardinality(s) \in Nat /\ (Cardinality(s) = 0 => s = {})
  BY <1>1, FS_Subset, FS_CardinalityType, FS_EmptySet
<1>6. 0 \in T
  <2>1. Sums({})
    BY <1>4
  <2>. QED BY <1>5, <2>1
<1>7. ASSUME NEW m \in Nat, m \in T PROVE m + 1 \in T
  <2>. SUFFICES ASSUME NEW s \in SUBSET Ingests, Cardinality(s) = m + 1 PROVE Sums(s)
    OBVIOUS
  <2>1. s # {}
    BY FS_EmptySet
  <2>2. PICK x : x = (CHOOSE y \in s : TRUE)
    OBVIOUS
  <2>3. x \in s
    BY <2>1, <2>2
  <2>4. PICK r : r = s \ {x}
    OBVIOUS
  <2>5. r \in SUBSET Ingests /\ Cardinality(r) = m
    BY <1>5, <2>3, <2>4, FS_RemoveElement
  <2>6. Sums(r)
    BY <1>7, <2>5
  <2>7. u[s] = counts[x].inserted + u[r]
    BY <1>2, <2>1, <2>2, <2>4 DEF IsSumOver
  <2>8. v[s] = after[x].inserted + v[r]
    BY <1>3, <2>1, <2>2, <2>4 DEF IsSumOver
  <2>9. x \in Ingests /\ counts[x].inserted \in Nat
    BY <2>3
  <2>10. CASE x = i
    <3>1. i \in s /\ i \notin r
      BY <2>3, <2>4, <2>10
    <3>. QED BY <2>6, <2>7, <2>8, <2>9, <2>10, <3>1
  <2>11. CASE x # i
    <3>1. (i \in s <=> i \in r) /\ after[x].inserted = counts[x].inserted
      BY <2>4, <2>9, <2>11
    <3>. QED BY <2>6, <2>7, <2>8, <2>9, <3>1
  <2>. QED BY <2>10, <2>11
<1>8. PICK m : m = Cardinality(Ingests)
  OBVIOUS
<1>9. m \in Nat
  BY <1>1, <1>8, FS_CardinalityType
<1>10. m \in T
  <2>. HIDE DEF T
  <2>. QED BY <1>6, <1>7, <1>9, NatSetInduction
<1>11. Sums(Ingests)
  BY <1>8, <1>10
<1>. QED BY <1>2, <1>3, <1>11

LEMMA SumOfNothing ==
    ASSUME NEW counts, \A i \in Ingests : counts[i].inserted = 0
    PROVE  InsertedBy(counts) = 0
<1>1. IsFiniteSet(Ingests)
  BY StoreAssumption
<1>2. PICK u : IsSumOver(u, Ingests, counts) /\ InsertedBy(counts) = u[Ingests]
  BY InsertedBySums
<1> DEFINE T == {m \in Nat : \A s \in SUBSET Ingests : Cardinality(s) = m => u[s] = 0}
<1>3. ASSUME NEW s \in SUBSET Ingests
      PROVE  IsFiniteSet(s) /\ (Cardinality(s) = 0 => s = {})
  BY <1>1, FS_Subset, FS_EmptySet
<1>4. u[{}] = 0
  BY <1>2 DEF IsSumOver
<1>5. 0 \in T
  BY <1>3, <1>4
<1>6. ASSUME NEW m \in Nat, m \in T PROVE m + 1 \in T
  <2>. SUFFICES ASSUME NEW s \in SUBSET Ingests, Cardinality(s) = m + 1 PROVE u[s] = 0
    OBVIOUS
  <2>1. s # {}
    BY FS_EmptySet
  <2>2. PICK x : x = (CHOOSE y \in s : TRUE)
    OBVIOUS
  <2>3. x \in s
    BY <2>1, <2>2
  <2>4. PICK r : r = s \ {x}
    OBVIOUS
  <2>5. r \in SUBSET Ingests /\ Cardinality(r) = m
    <3>1. IsFiniteSet(s)
      BY <1>3
    <3>2. Cardinality(s \ {x}) = Cardinality(s) - 1
      BY <2>3, <3>1, FS_RemoveElement
    <3>. QED BY <2>4, <3>2
  <2>6. u[s] = counts[x].inserted + u[r]
    BY <1>2, <2>1, <2>2, <2>4 DEF IsSumOver
  <2>. QED BY <1>6, <2>3, <2>5, <2>6
<1>7. PICK m : m = Cardinality(Ingests)
  OBVIOUS
<1>8. m \in Nat
  BY <1>1, <1>7, FS_CardinalityType
<1>9. m \in T
  <2>. HIDE DEF T
  <2>. QED BY <1>5, <1>6, <1>8, NatSetInduction
<1>. QED BY <1>2, <1>7, <1>9

\* What one ingest knows of the store: it counted what it is done with, it counted as an
\* error what is missing of it unless somebody edited it, and what it is about to add is
\* what the store does not have.
Counts == [documents : Nat, chunks : Nat, inserted : Nat, skipped : Nat, errors : Nat]

Missing(i) ==
    {f \in Files \ (edited[i] \cup Range(todo[i])) : ~(ChunksOf(f, docs[f]) \subseteq store)}

Truthful(i) ==
    /\ stats[i].inserted + stats[i].skipped = stats[i].chunks
    /\ ingest[i] = "new" => stats[i].documents + stats[i].errors = 0
    /\ ingest[i] \notin {"new", "killed"} =>
          /\ stats[i].documents + stats[i].errors + Len(todo[i]) = Cardinality(Files)
          /\ Cardinality(Missing(i)) <= stats[i].errors
    /\ ingest[i] \in {"asking", "adding", "added"} =>
          \/ Head(todo[i]) \in edited[i]
          \/ docChunks[i] = ChunksOf(Head(todo[i]), docs[Head(todo[i])])
    /\ ingest[i] \in {"adding", "added"} =>
          fresh[i] \subseteq docChunks[i] /\ docChunks[i] \ fresh[i] \subseteq store
    /\ ingest[i] = "added" => fresh[i] \subseteq store
    /\ ingest[i] = "done" => todo[i] = <<>>

\* Without a second ingest beside it nobody adds what an ingest is about to add, and
\* what it has added and not counted yet was not lost by another one.
TruthWhenAlone ==
    ~sideBySide =>
       /\ \A i, j \in Ingesting : i = j
       /\ \A i \in Ingests : ingest[i] = "adding" => fresh[i] \cap store = {}
       /\ \A i \in Ingests : ingest[i] = "added" => fresh[i] \cap uncounted = {}
       /\ uncounted \subseteq store
       /\ Cardinality(store \ Uncounted) = InsertedBy(stats)

IngestInv ==
    /\ RagTypeOK
    /\ stats \in [Ingests -> Counts]
    /\ edited \in [Ingests -> SUBSET Files]
    /\ \A i \in Ingests : Truthful(i)
    /\ TruthWhenAlone

LEMMA MissingIsFinite ==
    ASSUME NEW i
    PROVE  /\ IsFiniteSet(Missing(i)) /\ Cardinality(Missing(i)) \in Nat
           /\ \A M \in SUBSET Missing(i) : Cardinality(M) <= Cardinality(Missing(i))
<1>1. Missing(i) \in SUBSET Files
  BY DEF Missing
<1>2. IsFiniteSet(Missing(i))
  BY <1>1, FS_Subset, StoreAssumption
<1>. QED BY <1>2, FS_Subset, FS_CardinalityType

\* What is missing of the documents an ingest is done with grows less as chunks are added.
LEMMA MissingShrinks ==
    ASSUME IngestInv, NEW j \in Ingests, docs' = docs, store \subseteq store',
           todo'[j] = todo[j], edited'[j] = edited[j]
    PROVE  Cardinality(Missing(j)) <= stats[j].errors
              => Cardinality(Missing(j)') <= stats[j].errors
<1>2. stats[j].errors \in Nat
  BY DEF IngestInv, Counts
<1>3. PICK M : M = {f \in Files \ (edited[j] \cup Range(todo[j])) :
                      ~(ChunksOf(f, docs[f]) \subseteq store')}
  OBVIOUS
<1>4. Missing(j)' = M
  BY <1>3 DEF Missing, ChunksOf, Range
<1>5. M \in SUBSET Missing(j)
  BY <1>3 DEF Missing
<1>6. Cardinality(M) <= Cardinality(Missing(j))
  BY <1>5, MissingIsFinite
<1>7. Cardinality(M) \in Nat /\ Cardinality(Missing(j)) \in Nat
  <2>1. IsFiniteSet(M)
    BY <1>5, MissingIsFinite, FS_Subset
  <2>. QED BY <2>1, MissingIsFinite, FS_CardinalityType
<1>. QED BY <1>2, <1>4, <1>6, <1>7

\* What an ingest knows stays true while others add to the store.
LEMMA TruthKept ==
    ASSUME IngestInv, NEW j \in Ingests, docs' = docs, store \subseteq store',
           ingest'[j] = ingest[j], todo'[j] = todo[j], stats'[j] = stats[j],
           edited'[j] = edited[j], docChunks'[j] = docChunks[j], fresh'[j] = fresh[j]
    PROVE  Truthful(j)'
<1>1. Truthful(j)
  BY DEF IngestInv
<1>2. Cardinality(Missing(j)) <= stats[j].errors => Cardinality(Missing(j)') <= stats'[j].errors
  BY MissingShrinks
<1>. QED BY <1>1, <1>2 DEF Truthful, ChunksOf

\* Of an ingest alone, what it added and has not counted.
LEMMA OneAdded ==
    ASSUME NEW places, NEW chunks, NEW i \in Ingests,
           \A j \in Ingests \ {i} : places[j] # "added"
    PROVE  UNION {chunks[j] : j \in {k \in Ingests : places[k] = "added"}}
              = IF places[i] = "added" THEN chunks[i] ELSE {}
  OBVIOUS

LEMMA AloneUncounted ==
    ASSUME IngestInv, ~sideBySide, NEW i \in Ingests, i \in Ingesting,
           \A j \in Ingests \ {i} : ingest'[j] = ingest[j]
    PROVE  /\ Uncounted = IF ingest[i] = "added" THEN uncounted \cup fresh[i] ELSE uncounted
           /\ Uncounted' = IF ingest'[i] = "added" THEN uncounted' \cup fresh'[i]
                                                  ELSE uncounted'
           /\ \A j \in Ingests \ {i} : ingest[j] \notin {"adding", "added"}
<1>1. \A j \in Ingests \ {i} : ingest[j] \notin {"adding", "added"}
  BY DEF IngestInv, TruthWhenAlone, Ingesting
<1>2. UNION {fresh[j] : j \in {k \in Ingests : ingest[k] = "added"}}
         = IF ingest[i] = "added" THEN fresh[i] ELSE {}
  BY <1>1, OneAdded
<1>3. UNION {fresh'[j] : j \in {k \in Ingests : ingest'[k] = "added"}}
         = IF ingest'[i] = "added" THEN fresh'[i] ELSE {}
  <2>1. \A j \in Ingests \ {i} : ingest'[j] # "added"
    BY <1>1
  <2>. QED BY <2>1, OneAdded
<1>. QED BY <1>1, <1>2, <1>3 DEF Uncounted

\* The document is done with: it is counted once, and as an error if it is missing.
LEMMA TruthOfNextFile ==
    ASSUME IngestInv, NEW i \in Ingests, NEW count \in Counts, NextFile(i, count),
           ingest[i] \in {"file", "asking", "adding", "added"}, todo[i] # <<>>,
           docs' = docs, edited' = edited, store \subseteq store',
           count.inserted + count.skipped = count.chunks,
           count.documents + count.errors = stats[i].documents + stats[i].errors + 1,
           \/ count.errors = stats[i].errors + 1
           \/ /\ count.errors = stats[i].errors
              /\ \/ Head(todo[i]) \in edited[i]
                 \/ ChunksOf(Head(todo[i]), docs[Head(todo[i])]) \subseteq store'
    PROVE  Truthful(i)'
<1>1. Truthful(i) /\ stats[i] \in Counts
  BY DEF IngestInv
<1>2. PICK f, rest, n : f = Head(todo[i]) /\ rest = Tail(todo[i]) /\ n = Cardinality(Files)
  OBVIOUS
<1>3. todo[i] \in Seq(Files)
  BY DEF IngestInv, RagTypeOK
<1>4. /\ f \in Files /\ rest \in Seq(Files) /\ Len(todo[i]) = Len(rest) + 1
      /\ Len(rest) \in Nat
  BY <1>2, <1>3
<1>5. n \in Nat
  BY <1>2, StoreAssumption, FS_CardinalityType
<1>6. Range(todo[i]) \subseteq Range(rest) \cup {f}
  <2>. SUFFICES ASSUME NEW k \in DOMAIN todo[i], k # 1 PROVE todo[i][k] \in Range(rest)
    BY <1>2, <1>3 DEF Range
  <2>1. k - 1 \in DOMAIN rest /\ rest[k - 1] = todo[i][k]
    BY <1>2, <1>3
  <2>. QED BY <2>1 DEF Range
<1>7. /\ ingest'[i] = "file" /\ todo'[i] = rest /\ stats'[i] = count
      /\ edited'[i] = edited[i]
  BY <1>2 DEF NextFile, IngestInv, RagTypeOK
<1>8. stats[i].documents + stats[i].errors + Len(todo[i]) = n
  BY <1>1, <1>2 DEF Truthful
<1>15. /\ stats[i].documents \in Nat /\ stats[i].errors \in Nat
       /\ count.documents \in Nat /\ count.errors \in Nat
  BY <1>1 DEF Counts
<1>9. count.documents + count.errors + Len(rest) = n
  <2>1. PICK a, b, l : a = stats[i].documents + stats[i].errors /\ l = Len(rest)
                       /\ b = count.documents + count.errors
    OBVIOUS
  <2>2. a \in Nat /\ b \in Nat /\ l \in Nat
    <3>1. \A x, y \in Nat : x + y \in Nat
      OBVIOUS
    <3>2. a \in Nat
      BY <1>15, <2>1, <3>1
    <3>3. b \in Nat
      BY <1>15, <2>1, <3>1
    <3>4. l \in Nat
      BY <1>4, <2>1
    <3>. QED BY <3>2, <3>3, <3>4
  <2>3. b = a + 1
    BY <2>1
  <2>4. a + (l + 1) = n
    BY <1>4, <1>8, <2>1
  <2>5. b + l = n
    BY <1>5, <2>2, <2>3, <2>4
  <2>. QED BY <2>1, <2>5, Zenon
<1>10. PICK M : M = {g \in Files \ (edited[i] \cup Range(rest)) :
                       ~(ChunksOf(g, docs[g]) \subseteq store')}
  OBVIOUS
<1>11. Missing(i)' = M
  BY <1>7, <1>10 DEF Missing, ChunksOf, Range
<1>12. Cardinality(Missing(i)) <= stats[i].errors /\ Cardinality(Missing(i)) \in Nat
  BY <1>1, MissingIsFinite DEF Truthful
<1>13. M \subseteq Missing(i) \cup {f}
  BY <1>6, <1>10 DEF Missing
<1>14. Cardinality(M) <= count.errors
  <2>1. CASE count.errors = stats[i].errors + 1
    <3>1. IsFiniteSet(Missing(i) \cup {f})
      BY MissingIsFinite, FS_AddElement
    <3>5. Cardinality(Missing(i) \cup {f})
             = IF f \in Missing(i) THEN Cardinality(Missing(i)) ELSE Cardinality(Missing(i)) + 1
      BY MissingIsFinite, FS_AddElement
    <3>2. Cardinality(Missing(i) \cup {f}) <= Cardinality(Missing(i)) + 1
      BY <1>12, <3>5
    <3>3. IsFiniteSet(M) /\ Cardinality(M) <= Cardinality(Missing(i) \cup {f})
      BY <1>13, <3>1, FS_Subset
    <3>4. Cardinality(M) \in Nat /\ Cardinality(Missing(i) \cup {f}) \in Nat
      BY <3>1, <3>3, FS_CardinalityType
    <3>. QED BY <1>12, <1>15, <2>1, <3>2, <3>3, <3>4
  <2>2. CASE /\ count.errors = stats[i].errors
             /\ f \in edited[i] \/ ChunksOf(f, docs[f]) \subseteq store'
    <3>1. f \notin M
      BY <1>10, <2>2
    <3>2. M \in SUBSET Missing(i)
      BY <1>13, <3>1
    <3>3. Cardinality(M) <= Cardinality(Missing(i)) /\ IsFiniteSet(M)
      BY <3>2, MissingIsFinite, FS_Subset
    <3>4. Cardinality(M) \in Nat
      BY <3>3, FS_CardinalityType
    <3>. QED BY <1>12, <1>15, <2>2, <3>3, <3>4
  <2>. QED BY <1>2, <2>1, <2>2
<1>. QED BY <1>2, <1>7, <1>9, <1>11, <1>14 DEF Truthful

LEMMA CountedCounts ==
    ASSUME NEW s \in Counts, s.inserted + s.skipped = s.chunks, NEW a \in Nat, NEW b \in Nat
    PROVE  /\ Counted(s, a, b) \in Counts
           /\ Counted(s, a, b).inserted = s.inserted + a
           /\ Counted(s, a, b).inserted + Counted(s, a, b).skipped = Counted(s, a, b).chunks
           /\ Counted(s, a, b).documents + Counted(s, a, b).errors
                 = s.documents + s.errors + 1
           /\ Counted(s, a, b).errors = s.errors
<1>1. PICK c : c = Counted(s, a, b)
  OBVIOUS
<1>2. /\ s.documents \in Nat /\ s.chunks \in Nat /\ s.inserted \in Nat
      /\ s.skipped \in Nat /\ s.errors \in Nat
  BY DEF Counts
<1>3. /\ c.documents = s.documents + 1 /\ c.chunks = s.chunks + a + b
      /\ c.inserted = s.inserted + a /\ c.skipped = s.skipped + b /\ c.errors = s.errors
  BY <1>1 DEF Counted, Counts
<1>4. c = [documents |-> c.documents, chunks |-> c.chunks, inserted |-> c.inserted,
           skipped |-> c.skipped, errors |-> c.errors]
  BY <1>1 DEF Counted, Counts
<1>5. c \in Counts
  BY <1>2, <1>3, <1>4 DEF Counts
<1>. QED BY <1>1, <1>2, <1>3, <1>5

\* One error more is one document more that is accounted for.
OneError(s) == [s EXCEPT !.errors = @ + 1]
ErrorCounted(s, c) ==
    /\ c \in Counts
    /\ c.inserted = s.inserted
    /\ c.inserted + c.skipped = c.chunks
    /\ c.documents + c.errors = s.documents + s.errors + 1
    /\ c.errors = s.errors + 1

LEMMA ErrorCounts ==
    \A s \in Counts : s.inserted + s.skipped = s.chunks => ErrorCounted(s, OneError(s))
  BY DEF Counts, OneError, ErrorCounted

\* Who inserts nothing leaves the sum as it is.
LEMMA SumKept ==
    ASSUME IngestInv, NEW after, NEW i \in Ingests,
           \A j \in Ingests \ {i} : after[j].inserted = stats[j].inserted,
           after[i].inserted = stats[i].inserted
    PROVE  InsertedBy(after) = InsertedBy(stats)
<1>1. \A j \in Ingests : stats[j].inserted \in Nat
  BY DEF IngestInv, Counts
<1>2. PICK z \in Nat : z = 0
  OBVIOUS
<1>3. after[i].inserted = stats[i].inserted + z
  BY <1>1, <1>2
<1>4. InsertedBy(stats) \in Nat /\ InsertedBy(after) = InsertedBy(stats) + z
  BY <1>1, <1>3, SumGrows
<1>. QED BY <1>2, <1>4

\* The other ingests lose no truth, and one that is done with a document keeps its own.
LEMMA NextFileKeepsTruth ==
    ASSUME IngestInv, NEW i \in Ingests, NEW count \in Counts, NextFile(i, count),
           ingest[i] \in {"file", "asking", "adding", "added"}, todo[i] # <<>>,
           docs' = docs, edited' = edited, sideBySide' = sideBySide, store \subseteq store',
           count.inserted + count.skipped = count.chunks,
           count.documents + count.errors = stats[i].documents + stats[i].errors + 1,
           \/ count.errors = stats[i].errors + 1
           \/ /\ count.errors = stats[i].errors
              /\ \/ Head(todo[i]) \in edited[i]
                 \/ ChunksOf(Head(todo[i]), docs[Head(todo[i])]) \subseteq store',
           ~sideBySide => /\ uncounted' \subseteq store'
                          /\ Cardinality(store' \ uncounted') = InsertedBy(stats'),
           RagTypeOK'
    PROVE  IngestInv'
<1>1. /\ stats' \in [Ingests -> Counts] /\ edited' \in [Ingests -> SUBSET Files]
      /\ ingest' = [ingest EXCEPT ![i] = "file"]
  BY DEF IngestInv, NextFile
<1>2. Truthful(i)'
  BY TruthOfNextFile
<1>3. ASSUME NEW j \in Ingests, j # i PROVE Truthful(j)'
  <2>1. /\ ingest'[j] = ingest[j] /\ todo'[j] = todo[j] /\ stats'[j] = stats[j]
        /\ edited'[j] = edited[j] /\ docChunks'[j] = docChunks[j] /\ fresh'[j] = fresh[j]
    BY <1>3 DEF IngestInv, RagTypeOK, NextFile
  <2>. QED BY <2>1, TruthKept
<1>4. TruthWhenAlone'
  <2>. SUFFICES ASSUME ~sideBySide PROVE TruthWhenAlone'
    BY DEF TruthWhenAlone
  <2>1. \A j, k \in Ingesting : j = k
    BY DEF IngestInv, TruthWhenAlone
  <2>2. ingest \in [Ingests -> {"new", "file", "asking", "adding", "added", "done", "killed"}]
    BY DEF IngestInv, RagTypeOK
  <2>3. i \in Ingesting /\ Ingesting' = Ingesting
    BY <1>1, <2>2 DEF Ingesting
  <2>4. \A j \in Ingests : ingest'[j] \notin {"adding", "added"}
    <3>. SUFFICES ASSUME NEW j \in Ingests, ingest'[j] \in {"adding", "added"} PROVE FALSE
      OBVIOUS
    <3>1. j # i /\ j \in Ingesting
      BY <1>1, <2>2 DEF Ingesting
    <3>. QED BY <2>1, <2>3, <3>1
  <2>5. Uncounted' = uncounted'
    <3>1. {j \in Ingests : ingest'[j] = "added"} = {}
      BY <2>4
    <3>. QED BY <3>1 DEF Uncounted
  <2>. QED BY <2>1, <2>3, <2>4, <2>5 DEF TruthWhenAlone
<1>. QED BY <1>1, <1>2, <1>3, <1>4 DEF IngestInv

LEMMA MissingKept ==
    ASSUME NEW i, store' = store, docs' = docs, edited'[i] = edited[i], todo'[i] = todo[i]
    PROVE  Missing(i)' = Missing(i)
  BY DEF Missing, ChunksOf, Range

LEMMA InitIngestInv == RagInit => IngestInv
<1>. SUFFICES ASSUME RagInit PROVE IngestInv
  OBVIOUS
<1>1. RagTypeOK
  BY InitRagTypes
<1>2. stats \in [Ingests -> Counts] /\ edited \in [Ingests -> SUBSET Files]
  BY DEF RagInit, NoStats, Counts
<1>3. \A i \in Ingests : Truthful(i)
  BY DEF RagInit, NoStats, Truthful
<1>4. Cardinality(store \ Uncounted) = InsertedBy(stats)
  <2>1. \A i \in Ingests : stats[i].inserted = 0
    BY DEF RagInit, NoStats
  <2>2. Cardinality(store \ Uncounted) = 0
    <3>1. store \ Uncounted = {}
      BY DEF RagInit
    <3>. QED BY <3>1, FS_EmptySet
  <2>. QED BY <2>1, <2>2, SumOfNothing
<1>5. TruthWhenAlone
  BY <1>4 DEF RagInit, TruthWhenAlone, Ingesting
<1>. QED BY <1>1, <1>2, <1>3, <1>5 DEF IngestInv

\* A step of one ingest that leaves documents, store and counts as they are.
LEMMA QuietStep ==
    ASSUME IngestInv, RagTypeOK', NEW i \in Ingests,
           UNCHANGED <<docs, store, stats, edited, sideBySide, todo>>,
           ingest[i] \in {"file", "asking", "adding", "added"}, ingest'[i] # "added",
           ~sideBySide => uncounted' = Uncounted,
           \A j \in Ingests \ {i} : /\ ingest'[j] = ingest[j] /\ docChunks'[j] = docChunks[j]
                                   /\ fresh'[j] = fresh[j],
           Truthful(i)', ingest'[i] = "adding" => fresh'[i] \cap store = {}
    PROVE  IngestInv'
<1>1. ASSUME NEW j \in Ingests, j # i PROVE Truthful(j)'
  BY <1>1, TruthKept
<1>2. TruthWhenAlone'
  <2>1. Ingesting' \subseteq Ingesting
    BY DEF Ingesting
  <2>2. InsertedBy(stats') = InsertedBy(stats)
    OBVIOUS
  <2>. SUFFICES ASSUME ~sideBySide PROVE TruthWhenAlone'
    BY DEF TruthWhenAlone
  <2>3. i \in Ingesting
    BY DEF Ingesting
  <2>4. /\ Uncounted = IF ingest[i] = "added" THEN uncounted \cup fresh[i] ELSE uncounted
        /\ Uncounted' = Uncounted
        /\ \A j \in Ingests \ {i} : ingest[j] \notin {"adding", "added"}
    BY <2>3, AloneUncounted
  <2>5. \A j \in Ingests : ingest'[j] = "adding" => fresh'[j] \cap store' = {}
    BY <2>4
  <2>6. \A j \in Ingests : ingest'[j] # "added"
    BY <2>4
  <2>7. uncounted' \subseteq store'
    BY <2>4 DEF IngestInv, TruthWhenAlone, Truthful
  <2>8. Cardinality(store' \ Uncounted') = InsertedBy(stats')
    BY <2>2, <2>4 DEF IngestInv, TruthWhenAlone
  <2>9. \A j, k \in Ingesting' : j = k
    BY <2>1 DEF IngestInv, TruthWhenAlone
  <2>. QED BY <2>5, <2>6, <2>7, <2>8, <2>9 DEF TruthWhenAlone
<1>. QED BY <1>1, <1>2 DEF IngestInv

LEMMA EditKeepsTruth ==
    ASSUME IngestInv, RagTypeOK', NEW f \in Files, EditDocument(f)
    PROVE  IngestInv'
<1>1. PICK content : docs' = [docs EXCEPT ![f] = content]
  BY DEF EditDocument
<1>2. /\ edited' = [i \in Ingests |-> IF ingest[i] = "new" THEN {} ELSE edited[i] \cup {f}]
      /\ UNCHANGED <<store, ingest, todo, docChunks, fresh, stats, uncounted, sideBySide>>
  BY DEF EditDocument
<1>3. \A g \in Files \ {f} : docs'[g] = docs[g]
  BY <1>1 DEF IngestInv, RagTypeOK
<1>4. ASSUME NEW i \in Ingests PROVE Truthful(i)'
  <2>1. CASE ingest[i] = "new"
    BY <1>2, <2>1 DEF IngestInv, Truthful
  <2>2. CASE ingest[i] # "new"
    <3>1. edited'[i] = edited[i] \cup {f} /\ todo'[i] = todo[i]
      BY <1>2, <2>2
    <3>2. PICK M : M = {g \in Files \ (edited'[i] \cup Range(todo[i])) :
                         ~(ChunksOf(g, docs'[g]) \subseteq store)}
      OBVIOUS
    <3>3. Missing(i)' = M
      BY <1>2, <3>1, <3>2 DEF Missing, ChunksOf, Range
    <3>4. M \in SUBSET Missing(i)
      BY <1>3, <3>1, <3>2 DEF Missing
    <3>5. Cardinality(M) <= Cardinality(Missing(i)) /\ IsFiniteSet(M)
      BY <3>4, MissingIsFinite, FS_Subset
    <3>6. Cardinality(M) \in Nat /\ Cardinality(Missing(i)) \in Nat /\ stats[i].errors \in Nat
      BY <3>5, MissingIsFinite, FS_CardinalityType DEF IngestInv, Counts
    <3>7. Truthful(i)
      BY DEF IngestInv
    <3>8. Cardinality(Missing(i)) <= stats[i].errors => Cardinality(Missing(i)') <= stats[i].errors
      BY <3>3, <3>5, <3>6
    <3>9. ingest[i] \in {"asking", "adding", "added"} => Head(todo[i]) \in Files
      BY DEF IngestInv, RagTypeOK
    <3>10. ingest[i] \in {"asking", "adding", "added"} =>
              \/ Head(todo[i]) \in edited'[i]
              \/ docChunks[i] = ChunksOf(Head(todo[i]), docs'[Head(todo[i])])
      BY <1>3, <3>1, <3>7, <3>9 DEF Truthful
    <3>. QED BY <1>2, <3>1, <3>7, <3>8, <3>10 DEF Truthful, ChunksOf
  <2>. QED BY <2>1, <2>2
<1>5. TruthWhenAlone'
  BY <1>2 DEF IngestInv, TruthWhenAlone, Ingesting, Uncounted
<1>6. edited' \in [Ingests -> SUBSET Files]
  BY <1>2 DEF IngestInv
<1>. QED BY <1>2, <1>4, <1>5, <1>6 DEF IngestInv

LEMMA BeginKeepsTruth ==
    ASSUME IngestInv, RagTypeOK', NEW i \in Ingests, BeginIngest(i)
    PROVE  IngestInv'
<1>1. /\ ingest[i] = "new" /\ ingest' = [ingest EXCEPT ![i] = "file"]
      /\ todo' = [todo EXCEPT ![i] = SetToSeq(Files)]
      /\ sideBySide' = (sideBySide \/ Ingesting # {})
      /\ UNCHANGED <<docs, store, docChunks, fresh, stats, uncounted, edited>>
  BY DEF BeginIngest
<1>2. /\ ingest \in [Ingests -> {"new", "file", "asking", "adding", "added", "done", "killed"}]
      /\ todo \in [Ingests -> Seq(Files)]
  BY DEF IngestInv, RagTypeOK
<1>3. ingest'[i] = "file" /\ todo'[i] = SetToSeq(Files)
  BY <1>1, <1>2
<1>4. Truthful(i)'
  <2>1. Range(SetToSeq(Files)) = Files
    BY FilesInOrder DEF Range
  <2>2. Missing(i)' = {}
    BY <1>3, <2>1 DEF Missing, Range
  <2>3. Cardinality(Missing(i)') = 0
    BY <2>2, FS_EmptySet
  <2>4. /\ stats[i].documents \in Nat /\ stats[i].errors \in Nat
        /\ stats[i].documents + stats[i].errors = 0
        /\ stats[i].inserted + stats[i].skipped = stats[i].chunks
    BY <1>1 DEF IngestInv, Truthful, Counts
  <2>5. Len(SetToSeq(Files)) = Cardinality(Files) /\ Cardinality(Files) \in Nat
    BY FilesInOrder, StoreAssumption, FS_CardinalityType
  <2>6. stats'[i].documents + stats'[i].errors + Len(todo'[i]) = Cardinality(Files)
    BY <1>1, <1>3, <2>4, <2>5
  <2>. QED BY <1>1, <1>3, <2>3, <2>4, <2>6 DEF Truthful
<1>5. ASSUME NEW j \in Ingests, j # i PROVE Truthful(j)'
  BY <1>1, <1>2, <1>5, TruthKept
<1>6. TruthWhenAlone'
  <2>. SUFFICES ASSUME ~sideBySide, Ingesting = {} PROVE TruthWhenAlone'
    BY <1>1 DEF TruthWhenAlone
  <2>1. \A j \in Ingesting' : j = i
    BY <1>1, <1>2 DEF Ingesting
  <2>2. \A j \in Ingests : ingest'[j] \notin {"adding", "added"}
    BY <1>1, <1>2 DEF Ingesting
  <2>3. Uncounted' = Uncounted
    <3>1. /\ {j \in Ingests : ingest'[j] = "added"} = {}
          /\ {j \in Ingests : ingest[j] = "added"} = {}
      BY <2>2 DEF Ingesting
    <3>. QED BY <1>1, <3>1 DEF Uncounted
  <2>4. Cardinality(store' \ Uncounted') = InsertedBy(stats')
    BY <1>1, <2>3 DEF IngestInv, TruthWhenAlone
  <2>. QED BY <1>1, <2>1, <2>2, <2>4 DEF IngestInv, TruthWhenAlone
<1>. QED BY <1>1, <1>4, <1>5, <1>6 DEF IngestInv

\* What an ingest alone that has nothing to count finds counted.
LEMMA AloneTakesStock ==
    ASSUME IngestInv, NEW i \in Ingests, ingest[i] \in {"file", "asking", "adding"}
    PROVE  ~sideBySide => /\ uncounted = Uncounted /\ uncounted \subseteq store
                          /\ Cardinality(store \ uncounted) = InsertedBy(stats)
<1>. SUFFICES ASSUME ~sideBySide
              PROVE  /\ uncounted = Uncounted /\ uncounted \subseteq store
                     /\ Cardinality(store \ uncounted) = InsertedBy(stats)
  OBVIOUS
<1>1. i \in Ingesting
  BY DEF Ingesting
<1>2. \A j \in Ingests : ingest[j] # "added"
  BY <1>1 DEF IngestInv, TruthWhenAlone, Ingesting
<1>3. {j \in Ingests : ingest[j] = "added"} = {}
  BY <1>2
<1>4. uncounted = Uncounted
  BY <1>3 DEF Uncounted
<1>. QED BY <1>4 DEF IngestInv, TruthWhenAlone

LEMMA ReadKeepsTruth ==
    ASSUME IngestInv, RagTypeOK', NEW i \in Ingests, ReadFile(i)
    PROVE  IngestInv'
<1>1. /\ ingest[i] = "file" /\ todo[i] # <<>>
      /\ UNCHANGED <<docs, store, uncounted, edited, sideBySide>>
  BY DEF ReadFile
<1>2. stats[i] \in Counts /\ Truthful(i) /\ stats[i].inserted + stats[i].skipped = stats[i].chunks
  BY DEF IngestInv, Truthful
<1>3. PICK f : f = Head(todo[i])
  OBVIOUS
<1>4. ~sideBySide => /\ uncounted = Uncounted /\ uncounted \subseteq store
                     /\ Cardinality(store \ uncounted) = InsertedBy(stats)
  BY <1>1, AloneTakesStock
<1>5. CASE docs[f] = Unreadable
  <2>1. PICK c : c = OneError(stats[i])
    OBVIOUS
  <2>2. NextFile(i, c)
    BY <1>3, <1>5, <2>1 DEF ReadFile, OneError
  <2>3. /\ c \in Counts /\ c.inserted = stats[i].inserted
        /\ c.inserted + c.skipped = c.chunks
        /\ c.documents + c.errors = stats[i].documents + stats[i].errors + 1
        /\ c.errors = stats[i].errors + 1
    <3>1. ErrorCounted(stats[i], c)
      BY <1>2, <2>1, ErrorCounts, Zenon
    <3>. QED BY <3>1 DEF ErrorCounted
  <2>4. InsertedBy(stats') = InsertedBy(stats)
    <3>1. stats' = [stats EXCEPT ![i] = c]
      BY <2>2 DEF NextFile
    <3>. QED BY <2>3, <3>1, SumKept DEF IngestInv
  <2>. QED BY <1>1, <1>4, <2>2, <2>3, <2>4, NextFileKeepsTruth
<1>6. CASE docs[f] # Unreadable /\ docs[f] = <<>>
  <2>1. PICK c : c = Counted(stats[i], 0, 0)
    OBVIOUS
  <2>2. NextFile(i, c)
    BY <1>3, <1>6, <2>1 DEF ReadFile
  <2>3. /\ c \in Counts /\ c.inserted = stats[i].inserted
        /\ c.inserted + c.skipped = c.chunks
        /\ c.documents + c.errors = stats[i].documents + stats[i].errors + 1
        /\ c.errors = stats[i].errors
    <3>1. stats[i].inserted \in Nat
      BY <1>2 DEF Counts
    <3>2. /\ c \in Counts /\ c.inserted = stats[i].inserted + 0
          /\ c.inserted + c.skipped = c.chunks
          /\ c.documents + c.errors = stats[i].documents + stats[i].errors + 1
          /\ c.errors = stats[i].errors
      BY <1>2, <2>1, CountedCounts
    <3>. QED BY <3>1, <3>2
  <2>4. InsertedBy(stats') = InsertedBy(stats)
    <3>1. stats' = [stats EXCEPT ![i] = c]
      BY <2>2 DEF NextFile
    <3>. QED BY <2>3, <3>1, SumKept DEF IngestInv
  <2>5. ChunksOf(f, docs[f]) \subseteq store'
    BY <1>6 DEF ChunksOf
  <2>. QED BY <1>1, <1>3, <1>4, <2>2, <2>3, <2>4, <2>5, NextFileKeepsTruth
<1>7. CASE docs[f] # Unreadable /\ docs[f] # <<>>
  <2>1. /\ docChunks' = [docChunks EXCEPT ![i] = ChunksOf(f, docs[f])]
        /\ ingest' = [ingest EXCEPT ![i] = "asking"]
        /\ UNCHANGED <<todo, fresh, stats>>
    BY <1>3, <1>7 DEF ReadFile
  <2>2. /\ ingest'[i] = "asking" /\ docChunks'[i] = ChunksOf(f, docs[f])
        /\ \A j \in Ingests \ {i} : ingest'[j] = ingest[j] /\ docChunks'[j] = docChunks[j]
    BY <2>1 DEF IngestInv, RagTypeOK
  <2>3. Missing(i)' = Missing(i)
    BY <1>1, <2>1, MissingKept
  <2>4. Truthful(i)'
    BY <1>1, <1>2, <1>3, <2>1, <2>2, <2>3 DEF Truthful, ChunksOf
  <2>. QED BY <1>1, <1>4, <2>1, <2>2, <2>4, QuietStep
<1>. QED BY <1>5, <1>6, <1>7

LEMMA AskKeepsTruth ==
    ASSUME IngestInv, RagTypeOK', NEW i \in Ingests, AskIds(i)
    PROVE  IngestInv'
<1>1. ingest[i] = "asking" /\ UNCHANGED <<docs, store, uncounted, edited, sideBySide>>
  BY DEF AskIds
<1>2. /\ stats[i] \in Counts /\ Truthful(i)
      /\ stats[i].inserted + stats[i].skipped = stats[i].chunks /\ todo[i] # <<>>
      /\ IsFiniteSet(docChunks[i])
  BY <1>1 DEF IngestInv, Truthful, RagTypeOK
<1>3. PICK new : new = docChunks[i] \ store
  OBVIOUS
<1>6. ~sideBySide => /\ uncounted = Uncounted /\ uncounted \subseteq store
                     /\ Cardinality(store \ uncounted) = InsertedBy(stats)
  BY <1>1, AloneTakesStock
<1>4. CASE new = {}
  <2>1. PICK n : n = Cardinality(docChunks[i])
    OBVIOUS
  <2>2. n \in Nat
    BY <1>2, <2>1, FS_CardinalityType
  <2>3. PICK c : c = Counted(stats[i], 0, n)
    OBVIOUS
  <2>4. NextFile(i, c)
    BY <1>3, <1>4, <2>1, <2>3 DEF AskIds, NewChunks
  <2>5. /\ c \in Counts /\ c.inserted = stats[i].inserted
        /\ c.inserted + c.skipped = c.chunks
        /\ c.documents + c.errors = stats[i].documents + stats[i].errors + 1
        /\ c.errors = stats[i].errors
    <3>1. stats[i].inserted \in Nat
      BY <1>2 DEF Counts
    <3>2. PICK z \in Nat : z = 0
      OBVIOUS
    <3>3. c = Counted(stats[i], z, n)
      BY <2>3, <3>2
    <3>4. /\ c \in Counts /\ c.inserted = stats[i].inserted + z
          /\ c.inserted + c.skipped = c.chunks
          /\ c.documents + c.errors = stats[i].documents + stats[i].errors + 1
          /\ c.errors = stats[i].errors
      BY <1>2, <2>2, <3>3, CountedCounts
    <3>. QED BY <3>1, <3>2, <3>4
  <2>6. InsertedBy(stats') = InsertedBy(stats)
    <3>1. stats' = [stats EXCEPT ![i] = c]
      BY <2>4 DEF NextFile
    <3>. QED BY <2>5, <3>1, SumKept DEF IngestInv
  <2>7. \/ Head(todo[i]) \in edited[i]
        \/ ChunksOf(Head(todo[i]), docs[Head(todo[i])]) \subseteq store'
    BY <1>1, <1>2, <1>3, <1>4 DEF Truthful
  <2>8. ~sideBySide => /\ uncounted' \subseteq store'
                       /\ Cardinality(store' \ uncounted') = InsertedBy(stats')
    BY <1>1, <1>6, <2>6
  <2>. QED BY <1>1, <1>2, <2>4, <2>5, <2>7, <2>8, NextFileKeepsTruth
<1>5. CASE new # {}
  <2>1. /\ fresh' = [fresh EXCEPT ![i] = new] /\ ingest' = [ingest EXCEPT ![i] = "adding"]
        /\ UNCHANGED <<todo, docChunks, stats>>
    BY <1>3, <1>5 DEF AskIds, NewChunks
  <2>2. /\ ingest'[i] = "adding" /\ fresh'[i] = new
        /\ \A j \in Ingests \ {i} : ingest'[j] = ingest[j] /\ fresh'[j] = fresh[j]
    BY <2>1 DEF IngestInv, RagTypeOK
  <2>3. Missing(i)' = Missing(i)
    BY <1>1, <2>1, MissingKept
  <2>4. Truthful(i)'
    BY <1>1, <1>2, <1>3, <2>1, <2>2, <2>3 DEF Truthful, ChunksOf
  <2>5. fresh'[i] \cap store = {}
    BY <1>3, <2>2
  <2>. QED BY <1>1, <1>6, <2>1, <2>2, <2>4, <2>5, QuietStep
<1>. QED BY <1>4, <1>5

LEMMA AddKeepsTruth ==
    ASSUME IngestInv, RagTypeOK', NEW i \in Ingests, AddChunks(i)
    PROVE  IngestInv'
<1>1. /\ ingest[i] = "adding" /\ ingest' = [ingest EXCEPT ![i] = "added"]
      /\ store' = store \cup fresh[i]
      /\ UNCHANGED <<docs, todo, docChunks, fresh, stats, uncounted, edited, sideBySide>>
  BY DEF AddChunks
<1>2. /\ ingest \in [Ingests -> {"new", "file", "asking", "adding", "added", "done", "killed"}]
      /\ Truthful(i)
  BY DEF IngestInv, RagTypeOK
<1>3. ingest'[i] = "added" /\ \A j \in Ingests \ {i} : ingest'[j] = ingest[j]
  BY <1>1, <1>2
<1>4. Truthful(i)'
  <2>1. Cardinality(Missing(i)) <= stats[i].errors
           => Cardinality(Missing(i)') <= stats'[i].errors
    BY <1>1, MissingShrinks
  <2>. QED BY <1>1, <1>2, <1>3, <2>1 DEF Truthful, ChunksOf
<1>5. ASSUME NEW j \in Ingests, j # i PROVE Truthful(j)'
  BY <1>1, <1>3, <1>5, TruthKept
<1>6. TruthWhenAlone'
  <2>. SUFFICES ASSUME ~sideBySide PROVE TruthWhenAlone'
    BY <1>1 DEF TruthWhenAlone
  <2>1. i \in Ingesting /\ Ingesting' = Ingesting
    BY <1>1, <1>2, <1>3 DEF Ingesting
  <2>2. /\ Uncounted = uncounted /\ Uncounted' = uncounted \cup fresh[i]
        /\ \A j \in Ingests \ {i} : ingest[j] \notin {"adding", "added"}
    BY <1>1, <1>3, <2>1, AloneUncounted
  <2>3. fresh[i] \cap store = {} /\ uncounted \subseteq store
    BY <1>1 DEF IngestInv, TruthWhenAlone
  <2>4. store' \ Uncounted' = store \ Uncounted
    BY <1>1, <2>2, <2>3
  <2>5. Cardinality(store' \ Uncounted') = InsertedBy(stats')
    BY <1>1, <2>4 DEF IngestInv, TruthWhenAlone
  <2>6. \A j \in Ingests : ingest'[j] # "adding"
    BY <1>3, <2>2
  <2>7. \A j, k \in Ingesting' : j = k
    BY <2>1 DEF IngestInv, TruthWhenAlone
  <2>8. uncounted' \subseteq store'
    BY <1>1, <2>3
  <2>9. \A j \in Ingests : ingest'[j] = "adding" => fresh'[j] \cap store' = {}
    BY <2>6, Zenon
  <2>10. \A j \in Ingests : ingest'[j] = "added" => fresh'[j] \cap uncounted' = {}
    BY <1>1, <1>3, <2>2, <2>3
  <2>. QED BY <2>5, <2>7, <2>8, <2>9, <2>10, Zenon DEF TruthWhenAlone
<1>. QED BY <1>1, <1>4, <1>5, <1>6 DEF IngestInv

LEMMA CountKeepsTruth ==
    ASSUME IngestInv, RagTypeOK', NEW i \in Ingests, CountChunks(i)
    PROVE  IngestInv'
<1>1. ingest[i] = "added" /\ UNCHANGED <<docs, store, uncounted, edited, sideBySide>>
  BY DEF CountChunks
<1>2. /\ stats[i] \in Counts /\ Truthful(i)
      /\ stats[i].inserted + stats[i].skipped = stats[i].chunks /\ todo[i] # <<>>
      /\ IsFiniteSet(docChunks[i]) /\ IsFiniteSet(fresh[i]) /\ IsFiniteSet(store)
  BY <1>1 DEF IngestInv, Truthful, RagTypeOK
<1>3. PICK a, b : a = Cardinality(fresh[i]) /\ b = Cardinality(docChunks[i] \ fresh[i])
  OBVIOUS
<1>4. a \in Nat /\ b \in Nat
  BY <1>2, <1>3, FS_CardinalityType, FS_Difference
<1>5. PICK c : c = Counted(stats[i], a, b)
  OBVIOUS
<1>6. NextFile(i, c)
  BY <1>3, <1>5 DEF CountChunks
<1>7. /\ c \in Counts /\ c.inserted = stats[i].inserted + a
      /\ c.inserted + c.skipped = c.chunks
      /\ c.documents + c.errors = stats[i].documents + stats[i].errors + 1
      /\ c.errors = stats[i].errors
  BY <1>2, <1>4, <1>5, CountedCounts
<1>8. \/ Head(todo[i]) \in edited[i]
      \/ ChunksOf(Head(todo[i]), docs[Head(todo[i])]) \subseteq store'
  BY <1>1, <1>2 DEF Truthful
<1>9. ~sideBySide => /\ uncounted' \subseteq store'
                     /\ Cardinality(store' \ uncounted') = InsertedBy(stats')
  <2>. SUFFICES ASSUME ~sideBySide
                PROVE  /\ uncounted \subseteq store
                       /\ Cardinality(store \ uncounted) = InsertedBy(stats')
    BY <1>1
  <2>1. /\ fresh[i] \cap uncounted = {} /\ fresh[i] \subseteq store /\ uncounted \subseteq store
        /\ Cardinality(store \ Uncounted) = InsertedBy(stats)
    BY <1>1, <1>2 DEF IngestInv, TruthWhenAlone, Truthful
  <2>2. PICK rest : rest = store \ Uncounted
    OBVIOUS
  <2>3. Uncounted = uncounted \cup fresh[i]
    <3>1. i \in Ingesting /\ \A j \in Ingests \ {i} : ingest'[j] = ingest[j]
      BY <1>1, <1>6 DEF Ingesting, NextFile, IngestInv, RagTypeOK
    <3>. QED BY <1>1, <3>1, AloneUncounted
  <2>4. store \ uncounted = rest \cup fresh[i] /\ rest \cap fresh[i] = {}
        /\ rest \in SUBSET store
    BY <2>1, <2>2, <2>3
  <2>5. Cardinality(store \ uncounted) = Cardinality(rest) + a
    <3>1. IsFiniteSet(rest)
      BY <1>2, <2>4, FS_Subset
    <3>2. Cardinality(rest \cup fresh[i])
             = Cardinality(rest) + Cardinality(fresh[i]) - Cardinality(rest \cap fresh[i])
      BY <1>2, <3>1, FS_Union
    <3>3. Cardinality(rest \cap fresh[i]) = 0
      BY <2>4, FS_EmptySet
    <3>4. Cardinality(rest) \in Nat
      BY <3>1, FS_CardinalityType
    <3>5. Cardinality(rest \cup fresh[i]) = Cardinality(rest) + a
      BY <1>3, <1>4, <3>2, <3>3, <3>4
    <3>. QED BY <2>4, <3>5
  <2>6. stats' = [stats EXCEPT ![i] = c]
    BY <1>6 DEF NextFile
  <2>7. /\ \A j \in Ingests : stats[j].inserted \in Nat
        /\ \A j \in Ingests \ {i} : stats'[j].inserted = stats[j].inserted
        /\ stats'[i].inserted = stats[i].inserted + a
    BY <1>7, <2>6 DEF IngestInv, Counts
  <2>8. InsertedBy(stats') = InsertedBy(stats) + a
    BY <1>4, <2>7, SumGrows
  <2>. QED BY <2>1, <2>2, <2>5, <2>8
<1>. QED BY <1>1, <1>2, <1>6, <1>7, <1>8, <1>9, NextFileKeepsTruth

LEMMA FailKeepsTruth ==
    ASSUME IngestInv, RagTypeOK', NEW i \in Ingests, FailCall(i)
    PROVE  IngestInv'
<1>1. PICK c : c = OneError(stats[i])
  OBVIOUS
<1>2. /\ ingest[i] \in {"asking", "adding", "added"} /\ NextFile(i, c) /\ LoseCount(i)
      /\ UNCHANGED <<docs, store, edited, sideBySide>>
  BY <1>1 DEF FailCall, OneError
<1>3. /\ stats[i] \in Counts /\ todo[i] # <<>>
      /\ stats[i].inserted + stats[i].skipped = stats[i].chunks
  BY <1>2 DEF IngestInv, Truthful, RagTypeOK
<1>4. /\ c \in Counts /\ c.inserted = stats[i].inserted
      /\ c.inserted + c.skipped = c.chunks
      /\ c.documents + c.errors = stats[i].documents + stats[i].errors + 1
      /\ c.errors = stats[i].errors + 1
  <2>1. ErrorCounted(stats[i], c)
    BY <1>1, <1>3, ErrorCounts, Zenon
  <2>. QED BY <2>1 DEF ErrorCounted
<1>5. InsertedBy(stats') = InsertedBy(stats)
  <2>1. stats' = [stats EXCEPT ![i] = c]
    BY <1>2 DEF NextFile
  <2>. QED BY <1>4, <2>1, SumKept DEF IngestInv
<1>6. ~sideBySide => /\ uncounted' \subseteq store'
                     /\ Cardinality(store' \ uncounted') = InsertedBy(stats')
  <2>. SUFFICES ASSUME ~sideBySide
                PROVE  /\ uncounted' \subseteq store'
                       /\ Cardinality(store' \ uncounted') = InsertedBy(stats')
    OBVIOUS
  <2>1. i \in Ingesting /\ \A j \in Ingests \ {i} : ingest'[j] = ingest[j]
    BY <1>2 DEF Ingesting, NextFile, IngestInv, RagTypeOK
  <2>2. uncounted' = Uncounted
    BY <1>2, <2>1, AloneUncounted DEF LoseCount
  <2>3. Uncounted \subseteq store
    BY <2>1, AloneUncounted DEF IngestInv, TruthWhenAlone, Truthful
  <2>. QED BY <1>2, <1>5, <2>2, <2>3 DEF IngestInv, TruthWhenAlone
<1>. QED BY <1>2, <1>3, <1>4, <1>6, NextFileKeepsTruth

\* An ingest ends, or its process is killed.
LEMMA EndKeepsTruth ==
    ASSUME IngestInv, RagTypeOK', NEW i \in Ingests, FinishIngest(i) \/ Kill(i)
    PROVE  IngestInv'
<1>1. /\ UNCHANGED <<docs, store, todo, docChunks, fresh, stats, edited, sideBySide>>
      /\ ingest[i] \in {"file", "asking", "adding", "added"}
      /\ \/ ingest' = [ingest EXCEPT ![i] = "killed"] /\ LoseCount(i)
         \/ /\ ingest' = [ingest EXCEPT ![i] = "done"] /\ ingest[i] = "file" /\ todo[i] = <<>>
            /\ uncounted' = uncounted
  BY DEF FinishIngest, Kill
<1>2. /\ \/ ingest'[i] = "killed"
         \/ ingest'[i] = "done" /\ ingest[i] = "file" /\ todo[i] = <<>>
      /\ \A j \in Ingests \ {i} : ingest'[j] = ingest[j]
  BY <1>1 DEF IngestInv, RagTypeOK
<1>3. Missing(i)' = Missing(i)
  BY <1>1, MissingKept
<1>4. Truthful(i)'
  BY <1>1, <1>2, <1>3 DEF IngestInv, Truthful, ChunksOf
<1>5. ~sideBySide => uncounted' = Uncounted
  <2>. SUFFICES ASSUME ~sideBySide PROVE uncounted' = Uncounted
    OBVIOUS
  <2>1. i \in Ingesting
    BY <1>1 DEF Ingesting
  <2>. QED BY <1>1, <1>2, <2>1, AloneUncounted DEF LoseCount
<1>. QED BY <1>1, <1>2, <1>4, <1>5, QuietStep

\* An ingest that ends well tells the truth about the store (ingest_industry_docs,
\* add_chunks_without_duplicates): for any documents, however many ingests run one after
\* the other or side by side, whatever is edited, fails or is killed.
THEOREM IngestAlwaysTellsTheTruth == RagSpec => []IngestTellsTheTruth
<1>1. IngestInv /\ [RagNext]_ragVars => IngestInv'
  <2>. SUFFICES ASSUME IngestInv, [RagNext]_ragVars PROVE IngestInv'
    OBVIOUS
  <2>1. RagTypeOK'
    BY RagTypesKept DEF IngestInv
  <2>2. CASE UNCHANGED <<docs, store, ingest, todo, docChunks, fresh, stats, uncounted, edited,
                         sideBySide>>
    <3>1. ASSUME NEW j \in Ingests PROVE Truthful(j)'
      BY <2>2, TruthKept
    <3>2. TruthWhenAlone'
      BY <2>2 DEF IngestInv, TruthWhenAlone, Ingesting, Uncounted
    <3>. QED BY <2>1, <2>2, <3>1, <3>2 DEF IngestInv
  <2>3. CASE \E c \in Clients : Lookup(c)
    BY <2>2, <2>3 DEF Lookup
  <2>4. CASE UNCHANGED ragVars
    BY <2>2, <2>4 DEF ragVars
  <2>. QED
    BY <2>1, <2>3, <2>4, EditKeepsTruth, BeginKeepsTruth, ReadKeepsTruth, AskKeepsTruth,
       AddKeepsTruth, CountKeepsTruth, FailKeepsTruth, EndKeepsTruth DEF RagNext, IngestStep
<1>2. IngestInv => IngestTellsTheTruth
  <2>. SUFFICES ASSUME IngestInv PROVE IngestTellsTheTruth
    OBVIOUS
  <2>1. ASSUME NEW i \in Ingests, ingest[i] = "done"
        PROVE  /\ stats[i].documents + stats[i].errors = Cardinality(Files)
               /\ stats[i].inserted + stats[i].skipped = stats[i].chunks
               /\ Cardinality({f \in Files \ edited[i] : ~(ChunksOf(f, docs[f]) \subseteq store)})
                     <= stats[i].errors
    <3>1. /\ stats[i].documents + stats[i].errors + Len(todo[i]) = Cardinality(Files)
          /\ todo[i] = <<>> /\ Cardinality(Missing(i)) <= stats[i].errors
          /\ stats[i].inserted + stats[i].skipped = stats[i].chunks
          /\ stats[i].documents \in Nat /\ stats[i].errors \in Nat
      BY <2>1 DEF IngestInv, Truthful, Counts
    <3>2. Len(todo[i]) = 0 /\ Range(todo[i]) = {}
      BY <3>1 DEF Range
    <3>3. Missing(i) = {f \in Files \ edited[i] : ~(ChunksOf(f, docs[f]) \subseteq store)}
      BY <3>2 DEF Missing
    <3>. QED BY <3>1, <3>2, <3>3
  <2>. QED BY <2>1 DEF IngestInv, TruthWhenAlone, IngestTellsTheTruth
<1>. QED BY <1>1, <1>2, InitIngestInv, PTL DEF RagSpec
-----------------------------------------------------------------------------
(* The list of a collection *)

\* Reading a page is a recursive function on the sets of its items.
IsReadingOf(u, c, first, items) ==
    u = [s \in SUBSET DOMAIN items |->
            IF s = {} THEN first ELSE TakeItem(c, u[s \ {Max(s)}], items[Max(s)])]

LEMMA ReadingUnfolds ==
    ASSUME NEW c, NEW first, NEW items, NEW n \in Nat, DOMAIN items = 1..n
    PROVE  \E u : IsReadingOf(u, c, first, items)
<1> DEFINE F(m) == {s \in SUBSET (1..n) : Cardinality(s) <= m}
<1> DEFINE P(m) == \E u : u = [s \in F(m) |->
                     IF s = {} THEN first ELSE TakeItem(c, u[s \ {Max(s)}], items[Max(s)])]
<1>1. IsFiniteSet(1..n) /\ Cardinality(1..n) = n
  BY FS_Interval
<1>2. ASSUME NEW s \in SUBSET (1..n)
      PROVE  /\ IsFiniteSet(s) /\ Cardinality(s) \in Nat /\ Cardinality(s) <= n
             /\ Cardinality(s) = 0 => s = {}
             /\ s # {} => Cardinality(s \ {Max(s)}) = Cardinality(s) - 1
  <2>1. IsFiniteSet(s) /\ Cardinality(s) <= n
    <3>1. IsFiniteSet(s) /\ Cardinality(s) <= Cardinality(1..n)
      BY <1>1, FS_Subset
    <3>. QED BY <1>1, <3>1
  <2>2. Cardinality(s) \in Nat /\ (Cardinality(s) = 0 => s = {})
    BY <2>1, FS_CardinalityType, FS_EmptySet
  <2>3. s # {} => Max(s) \in s
    BY MaxIs
  <2>4. s # {} => Cardinality(s \ {Max(s)}) = Cardinality(s) - 1
    BY <2>1, <2>3, FS_RemoveElement
  <2>. QED BY <2>1, <2>2, <2>4
<1>3. P(0)
  <2>1. ASSUME NEW s \in F(0) PROVE s = {}
    <3>1. s \in SUBSET (1..n) /\ Cardinality(s) <= 0
      BY <2>1
    <3>2. Cardinality(s) \in Nat /\ (Cardinality(s) = 0 => s = {})
      BY <1>2, <3>1
    <3>. QED BY <3>1, <3>2
  <2>2. PICK u : u = [s \in F(0) |-> first]
    OBVIOUS
  <2>. HIDE DEF F
  <2>3. u = [s \in F(0) |->
                IF s = {} THEN first ELSE TakeItem(c, u[s \ {Max(s)}], items[Max(s)])]
    BY <2>1, <2>2
  <2>. QED BY <2>3
<1>4. ASSUME NEW m \in Nat, P(m) PROVE P(m + 1)
  <2>1. PICK u : u = [s \in F(m) |->
                IF s = {} THEN first ELSE TakeItem(c, u[s \ {Max(s)}], items[Max(s)])]
    BY <1>4
  <2>2. PICK v : v = [s \in F(m + 1) |->
                IF s = {} THEN first ELSE TakeItem(c, u[s \ {Max(s)}], items[Max(s)])]
    OBVIOUS
  <2>3. ASSUME NEW s \in F(m + 1), s # {} PROVE s \ {Max(s)} \in F(m)
    <3>1. s \in SUBSET (1..n) /\ Cardinality(s) <= m + 1
      BY <2>3
    <3>2. Cardinality(s) \in Nat /\ Cardinality(s \ {Max(s)}) = Cardinality(s) - 1
      BY <1>2, <2>3, <3>1
    <3>3. Cardinality(s \ {Max(s)}) <= m
      BY <3>1, <3>2
    <3>. QED BY <3>1, <3>3
  <2>4. ASSUME NEW s \in F(m) PROVE s \in F(m + 1)
    <3>1. s \in SUBSET (1..n) /\ Cardinality(s) <= m
      BY <2>4
    <3>2. Cardinality(s) \in Nat
      BY <1>2, <3>1
    <3>3. Cardinality(s) <= m + 1
      BY <3>1, <3>2
    <3>. QED BY <3>1, <3>3
  <2>. HIDE DEF F
  <2>5. \A s \in F(m) : v[s] = u[s]
    BY <2>1, <2>2, <2>4
  <2>6. \A s \in F(m + 1) : s # {} => u[s \ {Max(s)}] = v[s \ {Max(s)}]
    BY <2>3, <2>5
  <2>7. \A s \in F(m + 1) :
           (IF s = {} THEN first ELSE TakeItem(c, u[s \ {Max(s)}], items[Max(s)]))
              = IF s = {} THEN first ELSE TakeItem(c, v[s \ {Max(s)}], items[Max(s)])
    BY <2>6
  <2>8. v = [s \in F(m + 1) |->
                IF s = {} THEN first ELSE TakeItem(c, v[s \ {Max(s)}], items[Max(s)])]
    BY <2>2, <2>7
  <2>. QED BY <2>8
<1>5. P(n)
  <2> DEFINE T == {m \in Nat : P(m)}
  <2>. HIDE DEF P
  <2>1. 0 \in T /\ \A m \in Nat : m \in T => m + 1 \in T
    BY <1>3, <1>4
  <2>. HIDE DEF T
  <2>2. n \in T
    BY <2>1, NatSetInduction
  <2>. QED BY <2>2 DEF T
<1>6. F(n) = SUBSET DOMAIN items
  BY <1>2
<1>7. \E u : u = [s \in SUBSET DOMAIN items |->
                IF s = {} THEN first ELSE TakeItem(c, u[s \ {Max(s)}], items[Max(s)])]
  <2>. HIDE DEF F
  <2>. QED BY <1>5, <1>6
<1>. QED BY <1>7 DEF IsReadingOf

\* The state of the list after each item of a page.
ItemByItem(l, c, first, items, n) ==
    /\ l[0] = first
    /\ \A k \in 1..n : l[k] = TakeItem(c, l[k - 1], items[k])
    /\ TakeItems(c, first, items) = l[n]

LEMMA PageItemByItem ==
    ASSUME NEW c, NEW first, NEW items, NEW n \in Nat, DOMAIN items = 1..n
    PROVE  \E l : ItemByItem(l, c, first, items, n)
<1>1. TakeItems(c, first, items) = (CHOOSE u : IsReadingOf(u, c, first, items))[DOMAIN items]
  BY DEF TakeItems, FoldLeft, MapThenFoldSet, IsReadingOf
<1>2. \E u : IsReadingOf(u, c, first, items)
  BY ReadingUnfolds
<1>3. PICK u : /\ IsReadingOf(u, c, first, items)
               /\ TakeItems(c, first, items) = u[DOMAIN items]
  BY <1>1, <1>2
<1>4. PICK l : l = [k \in 0..n |-> u[1..k]]
  OBVIOUS
<1>5. l[0] = first
  <2>1. 1..0 = {} /\ 0 \in 0..n
    OBVIOUS
  <2>2. u[{}] = first
    BY <1>3 DEF IsReadingOf
  <2>. QED BY <1>4, <2>1, <2>2
<1>6. ASSUME NEW k \in 1..n PROVE l[k] = TakeItem(c, l[k - 1], items[k])
  <2>1. PICK s : s = 1..k
    OBVIOUS
  <2>2. s \in SUBSET DOMAIN items /\ s # {}
    BY <2>1
  <2>3. Max(s) = k
    <3>1. s \in SUBSET (1..n) /\ k \in s
      BY <2>1
    <3>2. Max(s) \in s /\ \A m \in s : m <= Max(s)
      BY <2>2, <3>1, MaxIs
    <3>3. k <= Max(s) /\ Max(s) \in 1..k
      BY <2>1, <3>1, <3>2
    <3>. QED BY <3>3
  <2>4. s \ {k} = 1..(k - 1)
    BY <2>1
  <2>5. u[s] = TakeItem(c, u[s \ {Max(s)}], items[Max(s)])
    BY <1>3, <2>2 DEF IsReadingOf
  <2>6. k \in 0..n /\ k - 1 \in 0..n
    OBVIOUS
  <2>. QED BY <1>4, <2>1, <2>3, <2>4, <2>5, <2>6
<1>7. l[n] = u[DOMAIN items]
  <2>1. n \in 0..n
    OBVIOUS
  <2>. QED BY <1>4, <2>1
<1>. QED BY <1>3, <1>5, <1>6, <1>7, Zenon DEF ItemByItem

Items == [rank : Nat, dated : BOOLEAN]

\* The site's list is in the order of publication, and what was on it stays on it.
ListTypes ==
    /\ feed \in Seq(Items) /\ \A k \in DOMAIN feed : feed[k].rank = Len(feed) + 1 - k
    /\ phase \in [Collections -> {"new", "listing", "reading", "looking", "writing", "done",
                                  "raised"}]
    /\ page \in [Collections -> Nat \ {0}] /\ cutoff \in [Collections -> Nat]
    /\ list \in [Collections -> Seq(Nat)] /\ begun \in [Collections -> Seq(Items)]
    /\ DOMAIN cut = Collections
    /\ \A c \in Collections : phase[c] = "new" => list[c] = <<>> /\ page[c] = 1

StillListed ==
    \A c \in Collections : \A i \in DOMAIN begun[c] :
       /\ begun[c][i].rank \in 1..Len(feed)
       /\ feed[Len(feed) + 1 - begun[c][i].rank] = begun[c][i]

\* A recent article that a collection does not hold.
Left(c, item) == item.dated /\ item.rank > cutoff[c] /\ item.rank \notin Range(list[c])

PageStart(c) == (page[c] - 1) * PageSize

\* While it pages, what it has not taken of the list it began with is still ahead of it
\* and older than all it holds.
Ahead(c) ==
    phase[c] = "listing" =>
       /\ Len(list[c]) < MaxArticles
       /\ \A i \in DOMAIN begun[c] : Left(c, begun[c][i]) =>
             /\ PageStart(c) < Len(feed) + 1 - begun[c][i].rank
             /\ \A n \in Range(list[c]) : n > begun[c][i].rank

\* ListHasNoGap of one collection.
NoGap(c) ==
    phase[c] = "reading" =>
       \A i \in DOMAIN begun[c] : Left(c, begun[c][i]) =>
          /\ cut[c] \/ Len(list[c]) = MaxArticles
          /\ \A n \in Range(list[c]) : n > begun[c][i].rank

ListInv == ListTypes /\ StillListed /\ \A c \in Collections : Ahead(c) /\ NoGap(c)

\* What a page brings, item by item: the items are in the order of the list, the last
\* one the list ended at is old or the limit.
PageRead(c, items, l, j) ==
    /\ l[j].taken \in Seq(Nat) /\ l[j].more \in BOOLEAN
    /\ Range(list[c]) \subseteq Range(l[j].taken)
    /\ l[j].more =>
          /\ Len(l[j].taken) < MaxArticles
          /\ \A k \in 1..j : items[k].dated /\ items[k].rank > cutoff[c] =>
                items[k].rank \in Range(l[j].taken)
    /\ ~l[j].more =>
          \/ Len(l[j].taken) = MaxArticles
          \/ \E k \in 1..j :
                /\ items[k].rank <= cutoff[c]
                /\ \A m \in 1..(k - 1) : items[m].dated /\ items[m].rank > cutoff[c] =>
                      items[m].rank \in Range(l[j].taken)
    /\ \A n \in Range(l[j].taken) \ Range(list[c]) :
          \E k \in 1..j :
             /\ items[k].rank = n
             /\ \A m \in 1..(k - 1) : items[m].dated /\ items[m].rank > cutoff[c] =>
                   items[m].rank \in Range(l[j].taken)

LEMMA OneMore ==
    ASSUME NEW s \in Seq(Nat), NEW e \in Nat
    PROVE  /\ Append(s, e) \in Seq(Nat) /\ Len(Append(s, e)) = Len(s) + 1
           /\ Range(Append(s, e)) = Range(s) \cup {e}
<1>1. Append(s, e) \in Seq(Nat) /\ Len(Append(s, e)) = Len(s) + 1 /\ Len(s) \in Nat
  OBVIOUS
<1>2. PICK t : t = Append(s, e)
  OBVIOUS
<1>3. /\ DOMAIN t = 1..(Len(s) + 1) /\ DOMAIN s = 1..Len(s) /\ t[Len(s) + 1] = e
      /\ \A k \in 1..Len(s) : t[k] = s[k]
  BY <1>2
<1>4. Range(t) = Range(s) \cup {e}
  BY <1>1, <1>3 DEF Range
<1>. QED BY <1>1, <1>2, <1>4

LEMMA ItemTaken ==
    ASSUME NEW c \in Collections, NEW items, NEW l, NEW j \in Nat,
           PageRead(c, items, l, j), items[j + 1] \in Items, cutoff[c] \in Nat,
           l[j + 1] = TakeItem(c, l[j], items[j + 1]), l[j] = [taken |-> l[j].taken, more |-> l[j].more]
    PROVE  /\ PageRead(c, items, l, j + 1)
           /\ l[j + 1] = [taken |-> l[j + 1].taken, more |-> l[j + 1].more]
<1>1. PICK k, item, old : k = j + 1 /\ item = items[k] /\ old = l[j].taken
  OBVIOUS
<1>2. /\ k \in Nat /\ k \in 1..k /\ 1..(k - 1) = 1..j
      /\ \A m : m \in 1..k <=> m \in 1..j \/ m = k
  BY <1>1
<1>3. /\ item.rank \in Nat /\ item.dated \in BOOLEAN /\ old \in Seq(Nat) /\ Len(old) \in Nat
  BY <1>1 DEF Items, PageRead
<1>4. CASE ~l[j].more \/ ~item.dated
  <2>1. l[k] = l[j]
    BY <1>1, <1>4 DEF TakeItem
  <2>2. PageRead(c, items, l, k)
    BY <1>1, <1>2, <1>4, <2>1 DEF PageRead
  <2>. QED BY <1>1, <2>1, <2>2
<1>5. CASE l[j].more /\ item.dated /\ item.rank <= cutoff[c]
  <2>1. l[k] = [taken |-> old, more |-> FALSE]
    BY <1>1, <1>5 DEF TakeItem
  <2>2. PageRead(c, items, l, k)
    <3>1. l[k].taken = old /\ l[k].more = FALSE
      BY <2>1
    <3>2. /\ items[k].rank <= cutoff[c]
          /\ \A m \in 1..(k - 1) : items[m].dated /\ items[m].rank > cutoff[c] =>
                items[m].rank \in Range(old)
      BY <1>1, <1>2, <1>5 DEF PageRead
    <3>3. ASSUME NEW n \in Range(old) \ Range(list[c])
          PROVE  \E q \in 1..k :
                    /\ items[q].rank = n
                    /\ \A m \in 1..(q - 1) : items[m].dated /\ items[m].rank > cutoff[c] =>
                          items[m].rank \in Range(old)
      <4>1. PICK q \in 1..j :
               /\ items[q].rank = n
               /\ \A m \in 1..(q - 1) : items[m].dated /\ items[m].rank > cutoff[c] =>
                     items[m].rank \in Range(old)
        BY <1>1, <3>3 DEF PageRead
      <4>. QED BY <1>2, <4>1
    <3>4. Range(list[c]) \subseteq Range(old)
      BY <1>1 DEF PageRead
    <3>. QED BY <1>2, <1>3, <3>1, <3>2, <3>3, <3>4 DEF PageRead
  <2>. QED BY <1>1, <2>1, <2>2
<1>6. CASE l[j].more /\ item.dated /\ ~(item.rank <= cutoff[c])
  <2>1. PICK t : t = Append(old, item.rank)
    OBVIOUS
  <2>2. l[k] = [taken |-> t, more |-> Len(old) + 1 < MaxArticles]
    BY <1>1, <1>6, <2>1 DEF TakeItem
  <2>3. t \in Seq(Nat) /\ Len(t) = Len(old) + 1 /\ Range(t) = Range(old) \cup {item.rank}
    BY <1>3, <2>1, OneMore
  <2>4. /\ l[k].taken = t /\ l[k].more = (Len(old) + 1 < MaxArticles)
    BY <2>2
  <2>5. /\ Len(old) < MaxArticles
        /\ \A m \in 1..j : items[m].dated /\ items[m].rank > cutoff[c] =>
              items[m].rank \in Range(t)
    BY <1>1, <1>6, <2>3 DEF PageRead
  <2>6. l[k].more =>
          /\ Len(t) < MaxArticles
          /\ \A m \in 1..k : items[m].dated /\ items[m].rank > cutoff[c] =>
                items[m].rank \in Range(t)
    BY <1>1, <1>2, <2>3, <2>4, <2>5
  <2>7. ~l[k].more => Len(t) = MaxArticles
    <3>1. ~l[k].more => ~(Len(old) + 1 < MaxArticles)
      BY <2>4
    <3>2. MaxArticles \in Nat
      BY NewsAssumption
    <3>. QED BY <1>3, <2>3, <2>5, <3>1, <3>2
  <2>8. ASSUME NEW n \in Range(t) \ Range(list[c])
        PROVE  \E q \in 1..k :
                  /\ items[q].rank = n
                  /\ \A m \in 1..(q - 1) : items[m].dated /\ items[m].rank > cutoff[c] =>
                        items[m].rank \in Range(t)
    <3>1. CASE n = item.rank
      BY <1>1, <1>2, <2>5, <3>1
    <3>2. CASE n # item.rank
      <4>1. n \in Range(old) \ Range(list[c])
        BY <2>3, <2>8, <3>2
      <4>2. PICK q \in 1..j :
               /\ items[q].rank = n
               /\ \A m \in 1..(q - 1) : items[m].dated /\ items[m].rank > cutoff[c] =>
                     items[m].rank \in Range(old)
        BY <1>1, <4>1 DEF PageRead
      <4>. QED BY <1>2, <2>3, <4>2
    <3>. QED BY <3>1, <3>2
  <2>9. Range(list[c]) \subseteq Range(t)
    BY <1>1, <2>3 DEF PageRead
  <2>10. PageRead(c, items, l, k)
    <3>1. l[k].taken \in Seq(Nat) /\ Range(list[c]) \subseteq Range(l[k].taken)
      BY <2>3, <2>4, <2>9
    <3>2. l[k].more \in BOOLEAN
      BY <2>4
    <3>3. l[k].taken = t
      BY <2>4
    <3>. QED BY <2>6, <2>7, <2>8, <3>1, <3>2, <3>3, Zenon DEF PageRead
  <2>. QED BY <1>1, <2>2, <2>4, <2>10
<1>. QED BY <1>3, <1>4, <1>5, <1>6

LEMMA PageIsRead ==
    ASSUME NEW c \in Collections, ListTypes, Len(list[c]) < MaxArticles,
           NEW items \in Seq(Items), NEW n \in Nat, Len(items) = n, NEW l,
           l[0] = [taken |-> list[c], more |-> TRUE],
           \A k \in 1..n : l[k] = TakeItem(c, l[k - 1], items[k])
    PROVE  PageRead(c, items, l, n)
<1> DEFINE Reads(j) == PageRead(c, items, l, j)
                       /\ l[j] = [taken |-> l[j].taken, more |-> l[j].more]
<1> DEFINE T == {j \in Nat : j \in 0..n => Reads(j)}
<1>1. Reads(0)
  BY DEF PageRead, ListTypes
<1>2. ASSUME NEW j \in Nat, j \in T PROVE j + 1 \in T
  <2>. SUFFICES ASSUME j + 1 \in 0..n PROVE Reads(j + 1)
    OBVIOUS
  <2>1. j \in 0..n /\ j + 1 \in 1..n /\ (j + 1) - 1 = j
    OBVIOUS
  <2>2. Reads(j)
    BY <1>2, <2>1
  <2>3. items[j + 1] \in Items /\ cutoff[c] \in Nat
    BY <2>1 DEF ListTypes
  <2>4. l[j + 1] = TakeItem(c, l[j], items[j + 1])
    BY <2>1
  <2>. QED BY <2>2, <2>3, <2>4, ItemTaken
<1>3. n \in T
  <2>1. 0 \in T
    BY <1>1
  <2>. HIDE DEF T
  <2>. QED BY <1>2, <2>1, NatSetInduction
<1>4. Reads(n)
  <2>. HIDE DEF Reads
  <2>. QED BY <1>3
<1>. QED BY <1>4

\* The items of a page are the next ones of the list.
LEMMA PageIsNext ==
    ASSUME ListTypes, NEW c \in Collections, NEW b \in Nat, b = PageStart(c),
           NEW items, items = PageItems(page[c]), NEW n, n = Len(items)
    PROVE  /\ items \in Seq(Items) /\ n \in Nat /\ DOMAIN items = 1..n
           /\ page[c] * PageSize = b + PageSize
           /\ n = IF Len(feed) <= b THEN 0
                  ELSE IF b + PageSize > Len(feed) THEN Len(feed) - b ELSE PageSize
           /\ \A k \in 1..n : items[k] = feed[b + k] /\ b + k \in 1..Len(feed)
<1>1. page[c] \in Nat /\ PageSize \in Nat \ {0} /\ feed \in Seq(Items) /\ Len(feed) \in Nat
  BY NewsAssumption DEF ListTypes
<1>2. page[c] * PageSize = b + PageSize
  <2>1. \A x, y \in Int : x * y = (x - 1) * y + y
    OBVIOUS
  <2>. QED BY <1>1, <2>1 DEF PageStart
<1>3. PICK e : e = IF b + PageSize > Len(feed) THEN Len(feed) ELSE b + PageSize
  OBVIOUS
<1>4. e \in Nat /\ e <= Len(feed)
  BY <1>1, <1>3
<1>5. items = SubSeq(feed, b + 1, e)
  BY <1>2, <1>3 DEF PageItems, PageStart
<1>6. PICK m \in Int : m = b + 1
  OBVIOUS
<1>7. ASSUME NEW k \in m..e PROVE k \in 1..Len(feed) /\ feed[k] \in Items
  BY <1>1, <1>4, <1>6
<1>8. /\ items \in Seq(Items) /\ Len(items) = (IF m <= e THEN e - m + 1 ELSE 0)
      /\ \A k \in 1..(e - m + 1) : items[k] = feed[m + k - 1]
  <2>1. \A k \in m..e : feed[k] \in Items
    BY <1>7
  <2>2. e \in Int /\ items = SubSeq(feed, m, e)
    BY <1>4, <1>5, <1>6
  <2>3. /\ SubSeq(feed, m, e) \in Seq(Items)
        /\ Len(SubSeq(feed, m, e)) = (IF m <= e THEN e - m + 1 ELSE 0)
        /\ \A k \in 1..(e - m + 1) : SubSeq(feed, m, e)[k] = feed[m + k - 1]
    BY <2>1, <2>2, SubSeqProperties
  <2>. QED BY <2>2, <2>3
<1>12. n \in Nat /\ n = (IF m <= e THEN e - m + 1 ELSE 0) /\ e \in Int
  BY <1>4, <1>8
<1>9. n \in Nat /\ DOMAIN items = 1..n
  BY <1>8
<1>10. n = IF Len(feed) <= b THEN 0
           ELSE IF b + PageSize > Len(feed) THEN Len(feed) - b ELSE PageSize
  BY <1>1, <1>3, <1>6, <1>12
<1>11. ASSUME NEW k \in 1..n PROVE items[k] = feed[b + k] /\ b + k \in 1..Len(feed)
  <2>1. k \in 1..(e - m + 1) /\ m + k - 1 = b + k
    BY <1>6, <1>12
  <2>2. b + k \in m..e
    <3>1. k \in Int /\ 1 <= k /\ k <= e - m + 1 /\ m = b + 1
      BY <1>4, <1>6, <2>1
    <3>2. e \in Nat
      BY <1>4
    <3>. QED BY <3>1, <3>2
  <2>. QED BY <1>7, <1>8, <2>1, <2>2
<1>. QED BY <1>2, <1>8, <1>9, <1>10, <1>11

AtPage(c, b, items, n) == b = PageStart(c) /\ items = PageItems(page[c]) /\ n = Len(items)

\* What the list began with and what a page left out.
LeftOut(c, i, r, held) ==
    /\ i \in DOMAIN begun[c] /\ r = begun[c][i].rank /\ begun[c][i].dated
    /\ r > cutoff[c] /\ r \notin Range(held)

\* A page leaves no gap: what it does not take of the list at the beginning is older than
\* all it holds, and behind the page unless the limit ended the list.
LEMMA PageLeavesNoGap ==
    ASSUME ListInv, NEW c \in Collections, phase[c] = "listing",
           NEW b \in Nat, NEW items, NEW n, AtPage(c, b, items, n),
           NEW l, PageRead(c, items, l, n), NEW i, NEW r, LeftOut(c, i, r, l[n].taken)
    PROVE  /\ \A m \in Range(l[n].taken) : m > r
           /\ l[n].more => n # 0 /\ b + PageSize < Len(feed) + 1 - r
           /\ ~l[n].more => Len(l[n].taken) = MaxArticles
<1>0. /\ i \in DOMAIN begun[c] /\ r = begun[c][i].rank /\ begun[c][i].dated
      /\ r > cutoff[c] /\ r \notin Range(l[n].taken) /\ b = PageStart(c)
  BY DEF LeftOut, AtPage
<1>1. /\ items \in Seq(Items) /\ n \in Nat /\ DOMAIN items = 1..n
      /\ n = IF Len(feed) <= b THEN 0
             ELSE IF b + PageSize > Len(feed) THEN Len(feed) - b ELSE PageSize
      /\ \A k \in 1..n : items[k] = feed[b + k] /\ b + k \in 1..Len(feed)
  BY PageIsNext DEF ListInv, AtPage
<1>2. /\ feed \in Seq(Items) /\ Len(feed) \in Nat /\ DOMAIN feed = 1..Len(feed)
      /\ \A k \in 1..Len(feed) : feed[k].rank = Len(feed) + 1 - k
      /\ cutoff[c] \in Nat /\ PageSize \in Nat \ {0}
  BY NewsAssumption DEF ListInv, ListTypes
<1>3. PICK q : q = Len(feed) + 1 - r
  OBVIOUS
<1>4. r \in 1..Len(feed) /\ feed[q] = begun[c][i]
  BY <1>0, <1>3 DEF ListInv, StillListed
<1>5. q \in 1..Len(feed)
  BY <1>2, <1>3, <1>4
<1>6. r \notin Range(list[c])
  BY <1>0 DEF PageRead
<1>7. b < q /\ \A m \in Range(list[c]) : m > r
  <2>1. Left(c, begun[c][i])
    BY <1>0, <1>6 DEF Left
  <2>. QED BY <1>0, <1>3, <2>1 DEF ListInv, Ahead
<1>8. \A k \in 1..n : items[k].rank = Len(feed) + 1 - (b + k)
  BY <1>1, <1>2
\* If the page reached it, it would have been taken.
<1>9. ASSUME NEW k \in Nat, k <= n,
             \A m \in 1..k : items[m].dated /\ items[m].rank > cutoff[c] =>
                items[m].rank \in Range(l[n].taken)
      PROVE  b + k < q
  <2>. SUFFICES ASSUME q <= b + k PROVE FALSE
    BY <1>5
  <2>1. PICK m : m = q - b
    OBVIOUS
  <2>4. n \in Nat /\ q \in Int /\ b < q
    BY <1>0, <1>1, <1>2, <1>5, <1>7
  <2>5. m \in 1..k /\ b + m = q
    BY <2>1, <2>4
  <2>2. m \in 1..k /\ m \in 1..n /\ b + m = q
    BY <1>9, <2>4, <2>5
  <2>3. items[m] = begun[c][i]
    BY <1>1, <1>4, <2>2
  <2>. QED BY <1>0, <1>9, <2>2, <2>3
<1>10. ASSUME NEW m \in Range(l[n].taken) PROVE m > r
  <2>1. CASE m \in Range(list[c])
    BY <1>7, <2>1
  <2>2. CASE m \notin Range(list[c])
    <3>1. PICK k \in 1..n :
             /\ items[k].rank = m
             /\ \A j \in 1..(k - 1) : items[j].dated /\ items[j].rank > cutoff[c] =>
                   items[j].rank \in Range(l[n].taken)
      BY <1>10, <2>2 DEF PageRead
    <3>2. k - 1 \in Nat /\ k - 1 <= n
      BY <1>1
    <3>3. b + (k - 1) < q
      BY <1>9, <3>1, <3>2
    <3>4. m = Len(feed) + 1 - (b + k)
      BY <1>8, <3>1
    <3>5. m # r
      BY <1>0, <1>10
    <3>6. /\ k \in Int /\ r \in Int /\ Len(feed) \in Int /\ q \in Int
          /\ r = Len(feed) + 1 - q
      <4>1. k \in Int /\ Len(feed) \in Int
        BY <1>0, <1>1, <1>2
      <4>. QED BY <1>3, <1>4, <1>5, <4>1
    <3>. QED BY <3>3, <3>4, <3>5, <3>6
  <2>. QED BY <2>1, <2>2
<1>11. ASSUME l[n].more PROVE n # 0 /\ b + PageSize < q
  <2>1. b + n < q
    <3>1. \A k \in 1..n : items[k].dated /\ items[k].rank > cutoff[c] =>
             items[k].rank \in Range(l[n].taken)
      BY <1>11, Zenon DEF PageRead
    <3>2. n \in Nat /\ n <= n
      BY <1>1
    <3>. QED BY <1>9, <3>1, <3>2, Zenon
  <2>. QED BY <1>0, <1>1, <1>2, <1>5, <2>1
<1>12. ASSUME ~l[n].more PROVE Len(l[n].taken) = MaxArticles
  <2>. SUFFICES ASSUME NEW k \in 1..n, items[k].rank <= cutoff[c],
                       \A j \in 1..(k - 1) : items[j].dated /\ items[j].rank > cutoff[c] =>
                          items[j].rank \in Range(l[n].taken)
               PROVE  FALSE
    BY <1>12 DEF PageRead
  <2>1. k - 1 \in Nat /\ k - 1 <= n
    BY <1>1
  <2>2. b + (k - 1) < q
    BY <1>9, <2>1
  <2>3. Len(feed) + 1 - (b + k) <= cutoff[c]
    BY <1>8
  <2>4. /\ k \in Int /\ r \in Int /\ Len(feed) \in Int /\ q \in Int /\ cutoff[c] \in Int
        /\ r = Len(feed) + 1 - q
    <3>1. k \in Int /\ Len(feed) \in Int /\ cutoff[c] \in Int
      BY <1>0, <1>1, <1>2
    <3>. QED BY <1>3, <1>4, <1>5, <3>1
  <2>. QED BY <1>0, <2>2, <2>3, <2>4
<1>. QED BY <1>3, <1>10, <1>11, <1>12

\* A step of one collection leaves the lists of the others.
LEMMA OtherListsKept ==
    ASSUME ListInv, feed' = feed, NEW d \in Collections,
           phase'[d] = phase[d], page'[d] = page[d], cutoff'[d] = cutoff[d],
           list'[d] = list[d], begun'[d] = begun[d], cut'[d] = cut[d]
    PROVE  Ahead(d)' /\ NoGap(d)'
<1>1. Ahead(d) /\ NoGap(d)
  BY DEF ListInv
<1>2. PageStart(d)' = PageStart(d)
  BY DEF PageStart
<1>3. \A i \in DOMAIN begun[d] : Left(d, begun[d][i])' <=> Left(d, begun[d][i])
  BY DEF Left, Range
<1>4. Ahead(d)'
  <2>1. Range(list'[d]) = Range(list[d])
    OBVIOUS
  <2>. QED BY <1>1, <1>2, <1>3, <2>1 DEF Ahead, Left
<1>5. NoGap(d)'
  BY <1>1, <1>3 DEF NoGap, Left, Range
<1>. QED BY <1>4, <1>5

LEMMA InFront ==
    ASSUME NEW S, NEW e \in S, NEW s \in Seq(S), NEW t, t = <<e>> \o s
    PROVE  /\ t \in Seq(S) /\ Len(t) = Len(s) + 1 /\ t[1] = e
           /\ \A k \in 1..Len(s) : t[k + 1] = s[k]
  OBVIOUS

LEMMA PublishKeepsLists == ASSUME ListInv, Publish PROVE ListInv'
<1>1. PICK x \in BOOLEAN : feed' = <<[rank |-> Len(feed) + 1, dated |-> x]>> \o feed
  BY DEF Publish
<1>2. UNCHANGED <<phase, page, cutoff, list, begun, cut>>
  BY DEF Publish
<1>3. PICK new, n : new = [rank |-> Len(feed) + 1, dated |-> x] /\ n = Len(feed)
  OBVIOUS
<1>4. n \in Nat /\ feed \in Seq(Items) /\ \A k \in 1..n : feed[k].rank = n + 1 - k
  <2>1. feed \in Seq(Items) /\ \A k \in DOMAIN feed : feed[k].rank = Len(feed) + 1 - k
    BY DEF ListInv, ListTypes
  <2>2. DOMAIN feed = 1..n /\ n \in Nat
    BY <1>3, <2>1
  <2>. QED BY <1>3, <2>1, <2>2
<1>5. new \in Items /\ new.rank = n + 1
  BY <1>3, <1>4 DEF Items
<1>6. /\ feed' \in Seq(Items) /\ Len(feed') = n + 1 /\ DOMAIN feed' = 1..(n + 1)
      /\ feed'[1] = new /\ \A k \in 1..n : feed'[k + 1] = feed[k]
  <2>1. feed' = <<new>> \o feed
    BY <1>1, <1>3
  <2>2. /\ feed' \in Seq(Items) /\ Len(feed') = Len(feed) + 1 /\ feed'[1] = new
        /\ \A k \in 1..Len(feed) : feed'[k + 1] = feed[k]
    BY <1>4, <1>5, <2>1, InFront
  <2>. QED BY <1>3, <2>2
<1>7. ListTypes'
  <2>1. ASSUME NEW k \in 1..(n + 1) PROVE feed'[k].rank = (n + 1) + 1 - k
    <3>1. CASE k = 1
      BY <1>4, <1>5, <1>6, <3>1
    <3>2. CASE k # 1
      <4>1. k - 1 \in 1..n /\ (k - 1) + 1 = k
        BY <1>4, <3>2
      <4>2. feed'[k] = feed[k - 1] /\ feed[k - 1].rank = n + 1 - (k - 1)
        BY <1>4, <1>6, <4>1
      <4>. QED BY <1>4, <4>2
    <3>. QED BY <3>1, <3>2
  <2>. QED BY <1>2, <1>6, <2>1 DEF ListInv, ListTypes
<1>8. ASSUME NEW c \in Collections, NEW i \in DOMAIN begun[c]
      PROVE  /\ begun[c][i].rank \in 1..(n + 1)
             /\ feed'[(n + 1) + 1 - begun[c][i].rank] = begun[c][i]
  <2>1. PICK r : r = begun[c][i].rank
    OBVIOUS
  <2>2. r \in 1..n /\ feed[n + 1 - r] = begun[c][i]
    BY <1>3, <2>1 DEF ListInv, StillListed
  <2>3. n + 1 - r \in 1..n /\ (n + 1 - r) + 1 = (n + 1) + 1 - r /\ r \in 1..(n + 1)
    BY <1>4, <2>2
  <2>4. feed'[(n + 1 - r) + 1] = feed[n + 1 - r]
    BY <1>6, <2>3
  <2>. QED BY <2>1, <2>2, <2>3, <2>4
<1>9. StillListed'
  BY <1>2, <1>6, <1>8 DEF StillListed
<1>10. ASSUME NEW c \in Collections PROVE Ahead(c)'
  <2>1. PageStart(c)' = PageStart(c)
    BY <1>2 DEF PageStart
  <2>2. ASSUME NEW i \in DOMAIN begun[c], PageStart(c) < n + 1 - begun[c][i].rank
        PROVE  PageStart(c) < (n + 1) + 1 - begun[c][i].rank
    <3>1. PICK r, b : r = begun[c][i].rank /\ b = PageStart(c)
      OBVIOUS
    <3>2. r \in Nat
      BY <1>8, <3>1
    <3>3. b \in Int
      BY <3>1, NewsAssumption DEF PageStart, ListInv, ListTypes
    <3>. QED BY <1>4, <2>2, <3>1, <3>2, <3>3
  <2>3. Ahead(c)
    BY DEF ListInv
  <2>. QED BY <1>2, <1>3, <1>6, <2>1, <2>2, <2>3 DEF Ahead, Left, Range
<1>11. ASSUME NEW c \in Collections PROVE NoGap(c)'
  BY <1>2 DEF ListInv, NoGap, Left, Range
<1>. QED BY <1>7, <1>9, <1>10, <1>11 DEF ListInv

LEMMA PageKeepsLists ==
    ASSUME ListInv, NEW c \in Collections, ReadPage(c) PROVE ListInv'
<1>1. PICK b, items, n, first :
         /\ b = PageStart(c) /\ items = PageItems(page[c]) /\ n = Len(items)
         /\ first = [taken |-> list[c], more |-> TRUE]
  OBVIOUS
<1>2. /\ page[c] \in Nat \ {0} /\ PageSize \in Nat \ {0} /\ phase[c] = "listing"
      /\ UNCHANGED <<feed, cutoff, begun, cut>>
  BY NewsAssumption DEF ListInv, ListTypes, ReadPage
<1>3. b \in Nat
  <2>1. \A x, y \in Nat \ {0} : (x - 1) * y \in Nat
    OBVIOUS
  <2>. QED BY <1>1, <1>2, <2>1 DEF PageStart
<1>4. /\ items \in Seq(Items) /\ n \in Nat /\ DOMAIN items = 1..n
      /\ page[c] * PageSize = b + PageSize
  BY <1>1, <1>3, PageIsNext DEF ListInv
<1>5. PICK l : /\ l[0] = first
               /\ \A k \in 1..n : l[k] = TakeItem(c, l[k - 1], items[k])
               /\ TakeItems(c, first, items) = l[n]
  <2>1. n \in Nat /\ DOMAIN items = 1..n
    BY <1>4
  <2>2. PICK l : ItemByItem(l, c, first, items, n)
    BY <2>1, PageItemByItem
  <2>. QED BY <2>2 DEF ItemByItem
<1>6. PICK done : done = l[n]
  OBVIOUS
<1>7. /\ list' = [list EXCEPT ![c] = done.taken]
      /\ IF items = <<>> \/ ~done.more
         THEN phase' = [phase EXCEPT ![c] = "reading"] /\ page' = page
         ELSE page' = [page EXCEPT ![c] = NextPage(@)] /\ phase' = phase
  BY <1>1, <1>5, <1>6 DEF ReadPage
<1>8. PageRead(c, items, l, n)
  BY <1>1, <1>2, <1>4, <1>5, PageIsRead DEF ListInv, Ahead
<1>9. done.taken \in Seq(Nat) /\ done.more \in BOOLEAN
      /\ (done.more => Len(done.taken) < MaxArticles)
  BY <1>6, <1>8 DEF PageRead
<1>10. ASSUME NEW i \in DOMAIN begun[c], NEW r, r = begun[c][i].rank, begun[c][i].dated,
              r > cutoff[c], r \notin Range(done.taken)
       PROVE  /\ \A m \in Range(done.taken) : m > r
              /\ done.more => n # 0 /\ b + PageSize < Len(feed) + 1 - r
              /\ ~done.more => Len(done.taken) = MaxArticles
  <2>1. r \notin Range(l[n].taken)
    BY <1>6, <1>10
  <2>3. LeftOut(c, i, r, l[n].taken) /\ AtPage(c, b, items, n)
    BY <1>1, <1>10, <2>1 DEF LeftOut, AtPage
  <2>2. /\ \A m \in Range(l[n].taken) : m > r
        /\ l[n].more => n # 0 /\ b + PageSize < Len(feed) + 1 - r
        /\ ~l[n].more => Len(l[n].taken) = MaxArticles
    BY <1>2, <1>3, <1>8, <2>3, PageLeavesNoGap
  <2>. QED BY <1>6, <2>2
<1>11. /\ list'[c] = done.taken
       /\ phase'[c] = IF items = <<>> \/ ~done.more THEN "reading" ELSE "listing"
       /\ page'[c] = IF items = <<>> \/ ~done.more THEN page[c] ELSE page[c] + 1
  BY <1>2, <1>7 DEF NextPage, ListInv, ListTypes
<1>12. ListTypes'
  <2>1. phase' \in [Collections -> {"new", "listing", "reading", "looking", "writing", "done",
                                    "raised"}]
    BY <1>7 DEF ListInv, ListTypes
  <2>2. page' \in [Collections -> Nat \ {0}]
    <3>1. page[c] + 1 \in Nat \ {0} /\ page \in [Collections -> Nat \ {0}]
      BY <1>2 DEF ListInv, ListTypes
    <3>. QED BY <1>7, <3>1 DEF NextPage
  <2>3. list' \in [Collections -> Seq(Nat)]
    BY <1>7, <1>9 DEF ListInv, ListTypes
  <2>4. ASSUME NEW d \in Collections, phase'[d] = "new" PROVE list'[d] = <<>> /\ page'[d] = 1
    <3>1. d # c /\ phase[d] = "new"
      BY <1>2, <1>7, <2>4 DEF ListInv, ListTypes
    <3>2. list'[d] = list[d] /\ page'[d] = page[d]
      BY <1>7, <3>1 DEF ListInv, ListTypes
    <3>. QED BY <3>1, <3>2 DEF ListInv, ListTypes
  <2>. QED BY <1>2, <2>1, <2>2, <2>3, <2>4 DEF ListInv, ListTypes
<1>13. StillListed'
  BY <1>2 DEF ListInv, StillListed
<1>14. ASSUME NEW d \in Collections, d # c PROVE Ahead(d)' /\ NoGap(d)'
  <2>1. phase'[d] = phase[d] /\ page'[d] = page[d] /\ list'[d] = list[d]
    BY <1>7, <1>14 DEF ListInv, ListTypes
  <2>. QED BY <1>2, <2>1, OtherListsKept
<1>15. Ahead(c)'
  <2>. SUFFICES ASSUME phase'[c] = "listing" PROVE Ahead(c)'
    BY DEF Ahead
  <2>1. items # <<>> /\ done.more /\ page'[c] = page[c] + 1
    BY <1>11
  <2>2. PageStart(c)' = b + PageSize
    <3>1. (page[c] + 1) - 1 = page[c]
      BY <1>2
    <3>. QED BY <1>2, <1>4, <2>1, <3>1 DEF PageStart
  <2>3. ASSUME NEW i \in DOMAIN begun[c], Left(c, begun[c][i])'
        PROVE  /\ b + PageSize < Len(feed) + 1 - begun[c][i].rank
               /\ \A m \in Range(done.taken) : m > begun[c][i].rank
    <3>1. /\ begun[c][i].dated /\ begun[c][i].rank > cutoff[c]
          /\ begun[c][i].rank \notin Range(done.taken)
      BY <1>2, <1>11, <2>3 DEF Left, Range
    <3>. QED BY <1>10, <2>1, <3>1
  <2>4. Range(list[c])' = Range(done.taken)
    BY <1>11 DEF Range
  <2>. QED BY <1>2, <1>9, <1>11, <2>1, <2>2, <2>3, <2>4 DEF Ahead, Left
<1>16. NoGap(c)'
  <2>. SUFFICES ASSUME phase'[c] = "reading", NEW i \in DOMAIN begun[c], Left(c, begun[c][i])'
               PROVE  /\ Len(done.taken) = MaxArticles
                      /\ \A m \in Range(done.taken) : m > begun[c][i].rank
    BY <1>2, <1>11 DEF NoGap, Left, Range
  <2>1. /\ begun[c][i].dated /\ begun[c][i].rank > cutoff[c]
        /\ begun[c][i].rank \notin Range(done.taken)
    BY <1>2, <1>11 DEF Left, Range
  <2>2. ~done.more \/ n = 0
    BY <1>1, <1>4, <1>11
  <2>. QED BY <1>9, <1>10, <2>1, <2>2
<1>. QED BY <1>12, <1>13, <1>14, <1>15, <1>16 DEF ListInv

\* The collection holds every recent article that was on the list when it began, except
\* those older than all it holds when the limit or a failed request cut it short
\* (extract_daum_news_list): for any size of the pages, any limit and any cutoff, and
\* however the list grows while it is paged through.
THEOREM ListNeverHasGap == NewsSpec => []ListHasNoGap
<1>1. NewsInit => ListInv
  BY DEF NewsInit, ListInv, ListTypes, StillListed, Ahead, NoGap
<1>2. ListInv /\ [NewsNext]_newsVars => ListInv'
  <2>. SUFFICES ASSUME ListInv, [NewsNext]_newsVars PROVE ListInv'
    OBVIOUS
  <2>1. CASE UNCHANGED <<feed, phase, page, cutoff, list, begun, cut>>
    BY <2>1, OtherListsKept DEF ListInv, ListTypes, StillListed
  <2>2. CASE Publish
    BY <2>2, PublishKeepsLists
  <2>3. ASSUME NEW c \in Collections, BeginCollection(c) PROVE ListInv'
    <3>1. PICK n \in 0..Len(feed) : cutoff' = [cutoff EXCEPT ![c] = n]
      BY <2>3 DEF BeginCollection
    <3>2. /\ phase[c] = "new" /\ phase' = [phase EXCEPT ![c] = "listing"]
          /\ begun' = [begun EXCEPT ![c] = feed] /\ UNCHANGED <<feed, page, list, cut>>
      BY <2>3 DEF BeginCollection
    <3>3. n \in Nat /\ feed \in Seq(Items) /\ DOMAIN feed = 1..Len(feed) /\ Len(feed) \in Nat
      BY DEF ListInv, ListTypes
    <3>4. ListTypes'
      BY <3>1, <3>2, <3>3 DEF ListInv, ListTypes
    <3>5. /\ phase'[c] = "listing" /\ begun'[c] = feed /\ list[c] = <<>> /\ page[c] = 1
          /\ \A d \in Collections \ {c} :
                phase'[d] = phase[d] /\ begun'[d] = begun[d] /\ cutoff'[d] = cutoff[d]
      BY <3>1, <3>2 DEF ListInv, ListTypes
    <3>6. ASSUME NEW i \in 1..Len(feed)
          PROVE  /\ feed[i].rank \in 1..Len(feed) /\ feed[Len(feed) + 1 - feed[i].rank] = feed[i]
                 /\ 0 < Len(feed) + 1 - feed[i].rank
      <4>1. PICK r : r = feed[i].rank
        OBVIOUS
      <4>2. r = Len(feed) + 1 - i
        BY <3>3, <4>1 DEF ListInv, ListTypes
      <4>3. r \in 1..Len(feed) /\ Len(feed) + 1 - r = i /\ 0 < i
        BY <3>3, <4>2
      <4>. QED BY <4>1, <4>3
    <3>7. StillListed'
      <4>1. ASSUME NEW d \in Collections, NEW i \in DOMAIN begun'[d]
            PROVE  /\ begun'[d][i].rank \in 1..Len(feed)
                   /\ feed[Len(feed) + 1 - begun'[d][i].rank] = begun'[d][i]
        BY <3>3, <3>5, <3>6, <4>1 DEF ListInv, StillListed
      <4>. QED BY <3>2, <4>1 DEF StillListed
    <3>8. Ahead(c)' /\ NoGap(c)'
      <4>1. PageStart(c)' = 0
        BY <3>2, <3>5, NewsAssumption DEF PageStart
      <4>2. Range(list'[c]) = {} /\ Len(list'[c]) = 0
        BY <3>2, <3>5 DEF Range
      <4>3. 0 < MaxArticles
        BY NewsAssumption
      <4>. QED BY <3>2, <3>3, <3>5, <3>6, <4>1, <4>2, <4>3 DEF Ahead, NoGap
    <3>9. ASSUME NEW d \in Collections, d # c PROVE Ahead(d)' /\ NoGap(d)'
      BY <3>2, <3>5, <3>9, OtherListsKept
    <3>. QED BY <3>4, <3>7, <3>8, <3>9 DEF ListInv
  <2>4. ASSUME NEW c \in Collections, ReadPage(c) PROVE ListInv'
    BY <2>4, PageKeepsLists
  <2>5. ASSUME NEW c \in Collections, LosePage(c) PROVE ListInv'
    <3>1. /\ phase[c] = "listing" /\ phase' = [phase EXCEPT ![c] = "reading"]
          /\ cut' = [cut EXCEPT ![c] = TRUE] /\ UNCHANGED <<feed, page, cutoff, list, begun>>
      BY <2>5 DEF LosePage
    <3>2. ListTypes' /\ StillListed'
      BY <3>1 DEF ListInv, ListTypes, StillListed
    <3>3. phase'[c] = "reading" /\ cut'[c] = TRUE
      BY <3>1 DEF ListInv, ListTypes
    <3>4. Ahead(c)' /\ NoGap(c)'
      <4>1. Ahead(c)
        BY DEF ListInv
      <4>. QED BY <3>1, <3>3, <4>1 DEF Ahead, NoGap, Left, Range
    <3>5. ASSUME NEW d \in Collections, d # c PROVE Ahead(d)' /\ NoGap(d)'
      <4>1. phase'[d] = phase[d] /\ cut'[d] = cut[d]
        BY <3>1, <3>5 DEF ListInv, ListTypes
      <4>. QED BY <3>1, <4>1, OtherListsKept
    <3>. QED BY <3>2, <3>4, <3>5 DEF ListInv
  <2>6. ASSUME NEW c \in Collections, ReadArticles(c) PROVE ListInv'
    <3>1. /\ phase[c] = "reading" /\ phase' = [phase EXCEPT ![c] = "looking"]
          /\ list' = [list EXCEPT ![c] = <<>>] /\ begun' = [begun EXCEPT ![c] = <<>>]
          /\ page' = [page EXCEPT ![c] = 1] /\ cutoff' = [cutoff EXCEPT ![c] = 0]
          /\ cut' = [cut EXCEPT ![c] = FALSE] /\ feed' = feed
      BY <2>6 DEF ReadArticles
    <3>2. ListTypes'
      BY <3>1 DEF ListInv, ListTypes
    <3>3. phase'[c] = "looking" /\ begun'[c] = <<>>
      BY <3>1 DEF ListInv, ListTypes
    <3>4. \A d \in Collections \ {c} :
             /\ phase'[d] = phase[d] /\ page'[d] = page[d] /\ cutoff'[d] = cutoff[d]
             /\ list'[d] = list[d] /\ begun'[d] = begun[d] /\ cut'[d] = cut[d]
      BY <3>1 DEF ListInv, ListTypes
    <3>5. StillListed'
      BY <3>1, <3>3, <3>4 DEF ListInv, StillListed
    <3>6. Ahead(c)' /\ NoGap(c)'
      BY <3>3 DEF Ahead, NoGap
    <3>7. ASSUME NEW d \in Collections, d # c PROVE Ahead(d)' /\ NoGap(d)'
      BY <3>1, <3>4, <3>7, OtherListsKept
    <3>. QED BY <3>2, <3>5, <3>6, <3>7 DEF ListInv
  <2>7. ASSUME NEW c \in Collections, LookUp(c) \/ Commit(c) PROVE ListInv'
    <3>1. /\ phase[c] \in {"looking", "writing"}
          /\ \E p \in {"writing", "done", "raised"} : phase' = [phase EXCEPT ![c] = p]
          /\ UNCHANGED <<feed, page, cutoff, list, begun, cut>>
      BY <2>7 DEF LookUp, Commit
    <3>2. ListTypes' /\ StillListed'
      BY <3>1 DEF ListInv, ListTypes, StillListed
    <3>3. /\ phase'[c] \in {"writing", "done", "raised"}
          /\ \A d \in Collections \ {c} : phase'[d] = phase[d]
      BY <3>1 DEF ListInv, ListTypes
    <3>4. Ahead(c)' /\ NoGap(c)'
      BY <3>3 DEF Ahead, NoGap
    <3>5. ASSUME NEW d \in Collections, d # c PROVE Ahead(d)' /\ NoGap(d)'
      BY <3>1, <3>3, <3>5, OtherListsKept
    <3>. QED BY <3>2, <3>4, <3>5 DEF ListInv
  <2>8. CASE UNCHANGED newsVars
    BY <2>1, <2>8 DEF newsVars
  <2>. QED BY <2>2, <2>3, <2>4, <2>5, <2>6, <2>7, <2>8 DEF NewsNext, CollectionStep
<1>3. ListInv => ListHasNoGap
  <2>. SUFFICES ASSUME ListInv, NEW c \in Collections, phase[c] = "reading",
                       NEW i \in DOMAIN begun[c], Left(c, begun[c][i])
               PROVE  /\ cut[c] \/ Len(list[c]) = MaxArticles
                      /\ \A n \in Range(list[c]) : n > begun[c][i].rank
    BY DEF ListHasNoGap, Left
  <2>. QED BY DEF ListInv, NoGap
<1>. QED BY <1>1, <1>2, <1>3, PTL DEF NewsSpec
=============================================================================
