--------------------------- MODULE PreflightProofs ---------------------------
(***************************************************************************)
(* Theorems about Preflight for all runners, configurations and matrices.  *)
(*                                                                         *)
(* The argument for ChecksAreExact: when the pages were found to fit, what *)
(* was alien when the check began can only be tasks, and what has stood    *)
(* since then is still an alien task, so the second read finds it.         *)
(***************************************************************************)
EXTENDS Preflight, CompileStoreProofs

\* What a check under way knows of the tables, at any moment between its two
\* reads.
Knows(r) ==
  /\ check[r] = "pages_fit" => standing[r] \subseteq AlienTasks(r)
  /\ check[r] = "pages_alien" => met[r]
  /\ Between(r) /\ Aliens(r) # {} => met[r]

Histories ==
  /\ check \in [Runner -> {"idle", "pages_fit", "pages_alien", "cleared",
                           "refused"}]
  /\ DOMAIN standing = Runner /\ DOMAIN met = Runner
  /\ \A r \in Runner : met[r] \in BOOLEAN
  /\ \A r \in Runner : Knows(r)

\* Rows of the two tables are never mistaken for each other.
LEMMA TablesDiffer ==
  ASSUME NEW r \in Runner
  PROVE  /\ \A x \in AlienPages(r) : x.table = "pages"
         /\ \A x \in AlienTasks(r) : x.table = "compile_tasks"
BY DEF AlienPages, AlienTasks, Pages, Tasks, Row

LEMMA HistoriesInit == PreflightInit => Histories
BY DEF PreflightInit, Histories, Knows, Between

\* The tables and the checks of others do not matter to what r knows.
LEMMA OthersDoNotDisturb ==
  ASSUME NEW r \in Runner, Histories, UNCHANGED vars,
         check'[r] = check[r], standing'[r] = standing[r], met'[r] = met[r]
  PROVE  Knows(r)'
<1>1. AlienPages(r)' = AlienPages(r) /\ AlienTasks(r)' = AlienTasks(r)
  BY DEF AlienPages, AlienTasks, Pages, Tasks, vars
<1>2. Aliens(r)' = Aliens(r)
  BY <1>1 DEF Aliens
<1> QED
  BY <1>1, <1>2 DEF Histories, Knows, Between

\* What the tables do between the two reads only takes from what stands.
LEMMA FollowKeepsHistories ==
  ASSUME Histories, Follow, UNCHANGED check
  PROVE  Histories'
<1>1. /\ \A r \in Runner : met'[r] \in BOOLEAN
      /\ DOMAIN standing' = Runner /\ DOMAIN met' = Runner
  BY DEF Histories, Follow, Between
<1>2. ASSUME NEW r \in Runner PROVE Knows(r)'
  <2>1. CASE check[r] = "pages_fit"
    <3>1. standing'[r] = standing[r] \cap Aliens(r)'
      BY <2>1 DEF Follow, Between
    <3>2. \A x \in standing[r] : x.table = "compile_tasks"
      BY <2>1, TablesDiffer DEF Histories, Knows
    <3>3. \A x \in AlienPages(r)' : x.table = "pages"
      BY DEF AlienPages, Pages, Row
    <3>4. standing'[r] \subseteq AlienTasks(r)'
      BY <3>1, <3>2, <3>3 DEF Aliens
    <3>5. met'[r] = (met[r] \/ Aliens(r)' # {})
      BY <2>1 DEF Follow, Between
    <3> QED
      BY <2>1, <3>4, <3>5 DEF Knows
  <2>2. CASE check[r] = "pages_alien"
    <3>1. met'[r] = (met[r] \/ Aliens(r)' # {})
      BY <2>2 DEF Follow, Between
    <3> QED
      BY <2>2, <3>1 DEF Histories, Knows
  <2>3. CASE ~Between(r)
    BY <2>3 DEF Knows, Between
  <2> QED
    BY <2>1, <2>2, <2>3 DEF Between
<1> QED
  BY <1>1, <1>2 DEF Histories

\* One lemma for each step of a check.
LEMMA ReadPagesKeepsHistories ==
  ASSUME Histories, NEW r \in Runner, ReadPages(r)
  PROVE  Histories'
<1>1. /\ \A q \in Runner : met'[q] \in BOOLEAN
      /\ DOMAIN standing' = Runner /\ DOMAIN met' = Runner
  BY DEF Histories, ReadPages
<1>2. check' \in [Runner -> {"idle", "pages_fit", "pages_alien", "cleared",
                             "refused"}]
  BY DEF Histories, ReadPages
<1>3. ASSUME NEW q \in Runner, q # r PROVE Knows(q)'
  BY <1>3, OthersDoNotDisturb DEF Histories, ReadPages
<1>4. Knows(r)'
  <2>1. AlienPages(r)' = AlienPages(r) /\ AlienTasks(r)' = AlienTasks(r)
    BY DEF AlienPages, AlienTasks, Pages, Tasks, vars, ReadPages
  <2>2. Aliens(r)' = Aliens(r)
    BY <2>1 DEF Aliens
  <2>3. /\ standing'[r] = Aliens(r)
        /\ met'[r] = (Aliens(r) # {})
        /\ check'[r] = IF AlienPages(r) = {} THEN "pages_fit"
                       ELSE "pages_alien"
    BY DEF Histories, ReadPages
  <2> QED
    BY <2>1, <2>2, <2>3 DEF Knows, Between, Aliens
<1> QED
  BY <1>1, <1>2, <1>3, <1>4 DEF Histories

\* A step that ends the check of r forgets its history.
LEMMA EndKeepsHistories ==
  ASSUME Histories, NEW r \in Runner, UNCHANGED vars,
         NEW phase \in {"idle", "cleared", "refused"},
         check' = [check EXCEPT ![r] = phase],
         Forget(r) \/ UNCHANGED <<standing, met>>
  PROVE  Histories'
<1>1. /\ \A q \in Runner : met'[q] \in BOOLEAN
      /\ DOMAIN standing' = Runner /\ DOMAIN met' = Runner
  BY DEF Histories, Forget
<1>2. check' \in [Runner -> {"idle", "pages_fit", "pages_alien", "cleared",
                             "refused"}]
  BY DEF Histories
<1>3. ASSUME NEW q \in Runner, q # r PROVE Knows(q)'
  <2>1. /\ check'[q] = check[q] /\ standing'[q] = standing[q]
        /\ met'[q] = met[q]
    BY <1>3 DEF Histories, Forget
  <2> QED
    BY <2>1, OthersDoNotDisturb
<1>4. Knows(r)'
  BY DEF Histories, Knows, Between
<1> QED
  BY <1>1, <1>2, <1>3, <1>4 DEF Histories

LEMMA HistoriesNext == Histories /\ [PreflightNext]_checks => Histories'
<1> SUFFICES ASSUME Histories, [PreflightNext]_checks
             PROVE  Histories'
  OBVIOUS
<1>1. CASE UNCHANGED checks
  <2>1. UNCHANGED vars /\ UNCHANGED <<check, standing, met>>
    BY <1>1 DEF checks
  <2>2. \A r \in Runner : Knows(r)'
    BY <2>1, OthersDoNotDisturb
  <2> QED
    BY <2>1, <2>2 DEF Histories
<1>2. ASSUME NEW r \in Runner, SkipCheck(r) PROVE Histories'
  <2>1. /\ UNCHANGED vars /\ UNCHANGED <<standing, met>>
        /\ check' = [check EXCEPT ![r] = "cleared"]
    BY <1>2 DEF SkipCheck
  <2> QED
    BY <2>1, EndKeepsHistories
<1>3. ASSUME NEW r \in Runner, ReadPages(r) PROVE Histories'
  BY <1>3, ReadPagesKeepsHistories
<1>4. ASSUME NEW r \in Runner, ReadTasks(r) PROVE Histories'
  <2> DEFINE phase == IF check[r] = "pages_fit" /\ AlienTasks(r) = {}
                        THEN "cleared" ELSE "refused"
  <2>1. UNCHANGED vars /\ Forget(r) /\ check' = [check EXCEPT ![r] = phase]
    BY <1>4 DEF ReadTasks
  <2>2. phase \in {"idle", "cleared", "refused"}
    OBVIOUS
  <2> HIDE DEF phase
  <2> QED
    BY <2>1, <2>2, EndKeepsHistories
<1>5. ASSUME NEW r \in Runner, Alert(r) PROVE Histories'
  <2>1. /\ UNCHANGED vars /\ UNCHANGED <<standing, met>>
        /\ check' = [check EXCEPT ![r] = "idle"]
    BY <1>5 DEF Alert
  <2> QED
    BY <2>1, EndKeepsHistories
<1>6. ASSUME NEW r \in Runner, Stop(r) PROVE Histories'
  <2>1. UNCHANGED vars /\ Forget(r) /\ check' = [check EXCEPT ![r] = "idle"]
    BY <1>6 DEF Stop
  <2> QED
    BY <2>1, EndKeepsHistories
<1>7. CASE Follow /\ UNCHANGED <<check, alerts>>
  BY <1>7, FollowKeepsHistories
<1> QED
  BY <1>1, <1>2, <1>3, <1>4, <1>5, <1>6, <1>7 DEF PreflightNext

-----------------------------------------------------------------------------
\* Only the second read clears or refuses a check that is under way, and it
\* sees all that still stands.
LEMMA SecondReadIsExact ==
  ASSUME Histories, [PreflightNext]_checks, NEW r \in Runner, Between(r)
  PROVE  /\ check'[r] = "cleared" => standing[r] = {}
         /\ check'[r] = "refused" => met[r]
<1>1. CASE UNCHANGED checks
  BY <1>1 DEF checks, Between
<1>2. ASSUME NEW q \in Runner, SkipCheck(q) \/ ReadPages(q) \/ Alert(q)
      PROVE  check'[r] = check[r]
  BY <1>2 DEF SkipCheck, ReadPages, Alert, Histories, Between
<1>3. ASSUME NEW q \in Runner, Stop(q)
      PROVE  check'[r] = check[r] \/ check'[r] = "idle"
  BY <1>3 DEF Stop, Histories
<1>4. ASSUME NEW q \in Runner, ReadTasks(q), q # r
      PROVE  check'[r] = check[r]
  BY <1>4 DEF ReadTasks, Histories
<1>5. CASE ReadTasks(r)
  <2>1. check'[r] = IF check[r] = "pages_fit" /\ AlienTasks(r) = {}
                      THEN "cleared" ELSE "refused"
    BY <1>5 DEF ReadTasks, Histories
  <2>2. CASE check[r] = "pages_fit" /\ AlienTasks(r) = {}
    BY <2>1, <2>2 DEF Histories, Knows
  <2>3. CASE check[r] = "pages_fit" /\ AlienTasks(r) # {}
    BY <2>1, <2>3 DEF Histories, Knows, Aliens, Between
  <2>4. CASE check[r] = "pages_alien"
    BY <2>1, <2>4 DEF Histories, Knows
  <2> QED
    BY <2>2, <2>3, <2>4 DEF Between
<1>6. CASE UNCHANGED <<check, alerts>>
  BY <1>6 DEF Between
<1> QED
  BY <1>1, <1>2, <1>3, <1>4, <1>5, <1>6 DEF PreflightNext, Between

\* Whatever the tables do between the two reads, a row that was alien all the
\* time is found, and a refusal has met an alien row.
THEOREM ChecksAreAlwaysExact == PreflightSpec => ChecksAreExact
<1>1. Histories /\ [PreflightNext]_checks
        => [\A r \in Runner : Between(r) =>
              /\ check'[r] = "cleared" => standing[r] = {}
              /\ check'[r] = "refused" => met[r]]_checks
  BY SecondReadIsExact
<1> QED
  BY <1>1, HistoriesInit, HistoriesNext, PTL
    DEF PreflightSpec, ChecksAreExact

-----------------------------------------------------------------------------
\* Checks and the admissions they allow take no step that CompileStore does
\* not allow, so that all its theorems hold behind a preflight.
LEMMA WorkIsAStep == Work => Next
BY DEF Work, Next

LEMMA AdmissionIsAStep ==
  ASSUME NEW r \in Runner, AdmitCleared(r)
  PROVE  Next
BY RunnerAssumption DEF AdmitCleared, Next

THEOREM PreflightKeepsTheStore == PreflightSpec => Spec
<1>1. PreflightInit => Init
  BY DEF PreflightInit
<1>2. [PreflightNext]_checks => [Next]_vars
  <2> SUFFICES ASSUME [PreflightNext]_checks PROVE [Next]_vars
    OBVIOUS
  <2>1. CASE UNCHANGED checks
    BY <2>1 DEF checks
  <2>2. CASE \E r \in Runner : \/ SkipCheck(r) \/ ReadPages(r)
                               \/ ReadTasks(r) \/ Alert(r) \/ Stop(r)
    BY <2>2 DEF SkipCheck, ReadPages, ReadTasks, Alert, Stop
  <2>3. CASE Work \/ \E r \in Runner : AdmitCleared(r)
    BY <2>3, WorkIsAStep, AdmissionIsAStep
  <2> QED
    BY <2>1, <2>2, <2>3 DEF PreflightNext
<1> QED
  BY <1>1, <1>2, PTL DEF PreflightSpec, Spec
=============================================================================
