------------------------- MODULE ProfileSwitchProofs -------------------------
(***************************************************************************)
(* Theorems of ProfileSwitch, for every value of its constants.            *)
(***************************************************************************)
EXTENDS ProfileSwitch, TLAPS

USE NoIdAssumption, ProfileAssumption

------------------------------------------------------------------------------
(* Type correctness: first what the statements on the table and the ways to *)
(* move a request on keep, then one step per action.                        *)

LEMMA EnvTypes == EnvSettings \in Settings /\ EnvBinding \in Binding
  BY DEF EnvSettings, EnvBinding, Settings, Binding, AnyId

LEMMA ProfileTypes ==
    ASSUME TableTypeOK, NEW i \in Ids
    PROVE  ProfileBinding(i) \in Binding /\ ProfileBinding(i).settings \in Settings
  BY DEF TableTypeOK, ProfileBinding, Binding, Settings, AnyId

LEMMA TableTypes ==
    ASSUME TableTypeOK, NEW i, NEW s \in Servers,
           \/ InsertRow(i, s) \/ UpdateRow(i, s) \/ DeleteRow(i)
           \/ DeactivateOthers(i) \/ SetActive(i) \/ DeactivateAll
           \/ UNCHANGED tableVars
    PROVE  TableTypeOK'
  BY DEF TableTypeOK, InsertRow, UpdateRow, DeleteRow, DeactivateOthers, SetActive,
         DeactivateAll, tableVars

LEMMA GotoTypes ==
    ASSUME RequestTypeOK, NEW c \in Clients, NEW s \in Steps, Goto(c, s)
    PROVE  RequestTypeOK'
  BY DEF RequestTypeOK, Goto

LEMMA AnswerTypes ==
    ASSUME RequestTypeOK, NEW c \in Clients, Answer(c)
    PROVE  RequestTypeOK'
  BY EnvTypes DEF RequestTypeOK, Answer, Steps, AnyId

LEMMA BeginTypes ==
    ASSUME RequestTypeOK, NEW c \in Clients, NEW s \in Steps, NEW i \in Ids, Begin(c, s, i)
    PROVE  RequestTypeOK'
  BY DEF RequestTypeOK, Begin, AnyId

LEMMA BeginRebindTypes ==
    ASSUME RequestTypeOK, NEW c \in Clients, NEW s \in Steps, NEW b \in Binding,
           BeginRebind(c, s, b)
    PROVE  RequestTypeOK'
  BY DEF RequestTypeOK, BeginRebind

\* Which steps there are, spelled out.
LEMMA StepNames ==
    /\ DOMAIN AfterSwap = {"swap", "swap_back", "swap_env"}
    /\ DOMAIN AfterLabel = {"label", "label_back", "label_env"}
    /\ \A s \in DOMAIN AfterSwap : AfterSwap[s] \in DOMAIN AfterLabel
    /\ AfterLabel["label"] = "idle"
    /\ AfterLabel["label_back"] = "idle"
    /\ AfterLabel["label_env"] = "clear_all"
  BY DEF AfterSwap, AfterLabel

LEMMA StepTypes ==
    /\ {"idle", "delete", "probe", "remember", "clear", "mark", "fetch", "undo",
        "rebuild", "clear_all", "swap", "swap_back", "swap_env"} \subseteq Steps
    /\ \A s \in DOMAIN AfterSwap : AfterSwap[s] \in Steps
    /\ \A s \in DOMAIN AfterLabel : AfterLabel[s] \in Steps
  BY StepNames DEF Steps

\* Every step keeps the types: active rows are rows, rows have issued ids, and the
\* locals of a request are bindings, whichever handler runs.
LEMMA TypeStep == TypeOK /\ [Next]_vars => TypeOK'
  <1> SUFFICES ASSUME TypeOK, [Next]_vars PROVE TypeOK'
    OBVIOUS
  <1> USE DEF TypeOK
  <1>1. ASSUME NEW c \in Clients, Create(c) \/ Update(c)
        PROVE  TypeOK'
    <2>1. TableTypeOK'
      BY <1>1, TableTypes DEF Create, Update
    <2> QED
      BY <1>1, <2>1 DEF Create, Update, RequestTypeOK, RuntimeTypeOK, runtimeVars,
            requestVars, historyVars
  <1>2. ASSUME NEW c \in Clients, DeleteCheck(c) \/ ActivateGet(c)
        PROVE  TypeOK'
    <2>1. TableTypeOK'
      BY <1>2, TableTypes DEF DeleteCheck, ActivateGet
    <2>2. RequestTypeOK'
      BY <1>2, BeginTypes, StepTypes DEF DeleteCheck, ActivateGet, TableTypeOK
    <2>3. RuntimeTypeOK'
      BY <1>2 DEF DeleteCheck, ActivateGet, RuntimeTypeOK, runtimeVars, historyVars
    <2> QED
      BY <2>1, <2>2, <2>3
  <1>3. ASSUME NEW c \in Clients, Probe(c)
        PROVE  TypeOK'
    <2>1. TableTypeOK'
      BY <1>3, TableTypes DEF Probe
    <2>2. RequestTypeOK'
      BY <1>3, GotoTypes, AnswerTypes, StepTypes DEF Probe
    <2>3. RuntimeTypeOK'
      BY <1>3 DEF Probe, ProbeReaches, TableTypeOK, RuntimeTypeOK, runtimeVars, historyVars
    <2> QED
      BY <2>1, <2>2, <2>3
  <1>4. ASSUME NEW c \in Clients, Remember(c)
        PROVE  TypeOK'
    <2>1. TableTypeOK'
      BY <1>4, TableTypes DEF Remember
    <2>2. RequestTypeOK'
      BY <1>4, StepTypes DEF Remember, Bound, RequestTypeOK, RuntimeTypeOK, Binding
    <2>3. RuntimeTypeOK'
      BY <1>4 DEF Remember, RuntimeTypeOK, runtimeVars, historyVars
    <2> QED
      BY <2>1, <2>2, <2>3
  <1>5. ASSUME NEW c \in Clients, Delete(c) \/ MarkRefused(c) \/ ClearAll(c)
        PROVE  TypeOK'
    <2>1. TableTypeOK'
      BY <1>5, TableTypes DEF Delete, MarkRefused, ClearAll
    <2>2. RequestTypeOK'
      BY <1>5, AnswerTypes DEF Delete, MarkRefused, ClearAll
    <2>3. RuntimeTypeOK'
      BY <1>5 DEF Delete, MarkRefused, ClearAll, RuntimeTypeOK, runtimeVars, historyVars
    <2> QED
      BY <2>1, <2>2, <2>3
  <1>6. ASSUME NEW c \in Clients, ClearOthers(c) \/ Mark(c) \/ Undo(c)
        PROVE  TypeOK'
    <2>1. TableTypeOK'
      BY <1>6, TableTypes DEF ClearOthers, Mark, Undo
    <2>2. RequestTypeOK'
      BY <1>6, GotoTypes, StepTypes DEF ClearOthers, Mark, Undo
    <2>3. RuntimeTypeOK'
      BY <1>6 DEF ClearOthers, Mark, Undo, RuntimeTypeOK, runtimeVars, historyVars
    <2> QED
      BY <2>1, <2>2, <2>3
  <1>7. ASSUME NEW c \in Clients, Fetch(c)
        PROVE  TypeOK'
    <2>1. TableTypeOK'
      BY <1>7, TableTypes DEF Fetch
    <2>2. RequestTypeOK'
      BY <1>7, GotoTypes, BeginRebindTypes, StepTypes, ProfileTypes DEF Fetch, TableTypeOK
    <2>3. RuntimeTypeOK'
      BY <1>7 DEF Fetch, RuntimeTypeOK, runtimeVars, historyVars
    <2> QED
      BY <2>1, <2>2, <2>3
  <1>8. ASSUME NEW c \in Clients, Rebuild(c) \/ Deactivate(c)
        PROVE  TypeOK'
    <2>1. TableTypeOK'
      BY <1>8, TableTypes DEF Rebuild, Deactivate
    <2>2. RequestTypeOK'
      BY <1>8, BeginRebindTypes, StepTypes, EnvTypes DEF Rebuild, Deactivate, RequestTypeOK
    <2>3. RuntimeTypeOK'
      BY <1>8 DEF Rebuild, Deactivate, RuntimeTypeOK, runtimeVars, historyVars
    <2> QED
      BY <2>1, <2>2, <2>3
  <1>9. ASSUME NEW c \in Clients, Swap(c)
        PROVE  TypeOK'
    <2>1. TableTypeOK'
      BY <1>9, TableTypes DEF Swap
    <2>2. RequestTypeOK'
      BY <1>9, GotoTypes, StepTypes DEF Swap
    <2>3. RuntimeTypeOK'
      BY <1>9 DEF Swap, RequestTypeOK, Binding, RuntimeTypeOK, runtimeVars, historyVars
    <2> QED
      BY <2>1, <2>2, <2>3
  <1>10. ASSUME NEW c \in Clients, Label(c)
        PROVE  TypeOK'
    <2>1. TableTypeOK'
      BY <1>10, TableTypes DEF Label
    <2>2. RequestTypeOK'
      BY <1>10, GotoTypes, AnswerTypes, StepTypes DEF Label
    <2>3. RuntimeTypeOK'
      BY <1>10 DEF Label, RequestTypeOK, Binding, RuntimeTypeOK, runtimeVars, historyVars
    <2> QED
      BY <2>1, <2>2, <2>3
  <1>11. ASSUME NEW c \in Clients, StatementFails(c)
        PROVE  TypeOK'
    <2>1. TableTypeOK'
      BY <1>11, TableTypes DEF StatementFails, Statement
    <2>2. RequestTypeOK'
      BY <1>11, GotoTypes, AnswerTypes, StepTypes DEF StatementFails
    <2>3. RuntimeTypeOK'
      BY <1>11 DEF StatementFails, RuntimeTypeOK, runtimeVars, historyVars
    <2> QED
      BY <2>1, <2>2, <2>3
  <1>12. ASSUME NEW c \in Clients, BuildFails(c)
        PROVE  TypeOK'
    <2>1. TableTypeOK'
      BY <1>12, TableTypes DEF BuildFails
    <2>2. RequestTypeOK'
      BY <1>12, GotoTypes, AnswerTypes, StepTypes DEF BuildFails
    <2>3. RuntimeTypeOK'
      BY <1>12 DEF BuildFails, RuntimeTypeOK, runtimeVars, historyVars
    <2> QED
      BY <2>1, <2>2, <2>3
  <1>13. CASE Crash
    BY <1>13, EnvTypes, StepTypes, TableTypes
    DEF Crash, NoRequests, RequestTypeOK, RuntimeTypeOK, historyVars, AnyId
  <1>14. CASE Boot
    <2>1. TableTypeOK' /\ RequestTypeOK'
      BY <1>14, TableTypes DEF Boot, RequestTypeOK, requestVars
    <2>2. live' \in Settings /\ label' \in AnyId
      <3>1. CASE live' = EnvSettings /\ label' = NoId
        BY <3>1, EnvTypes DEF AnyId
      <3>2. ASSUME NEW i \in active, live' = ProfileBinding(i).settings, label' = i
            PROVE  live' \in Settings /\ label' \in AnyId
        BY <3>2, ProfileTypes DEF TableTypeOK, AnyId
      <3> QED
        BY <1>14, <3>1, <3>2 DEF Boot
    <2>3. RuntimeTypeOK'
      BY <1>14, <2>2 DEF Boot, RuntimeTypeOK
    <2> QED
      BY <2>1, <2>3
  <1>15. CASE UNCHANGED vars
    BY <1>15, TableTypes DEF vars, RequestTypeOK, RuntimeTypeOK, runtimeVars, requestVars,
                 historyVars
  <1> QED
    BY <1>1, <1>2, <1>3, <1>4, <1>5, <1>6, <1>7, <1>8, <1>9, <1>10, <1>11, <1>12, <1>13, <1>14,
       <1>15 DEF Next

\* Spec keeps every variable in its type.
THEOREM TypeCorrect == Spec => []TypeOK
  <1>1. Init => TypeOK
    BY EnvTypes, StepTypes
    DEF Init, TableInit, TypeOK, TableTypeOK, RequestTypeOK, RuntimeTypeOK, AnyId
  <1> QED
    BY <1>1, TypeStep, PTL DEF Spec

------------------------------------------------------------------------------
(* At most one profile is recorded as active *)

LEMMA OneActiveStep == TypeOK /\ OneActiveProfile /\ [Next]_vars => OneActiveProfile'
  <1> SUFFICES ASSUME TypeOK, OneActiveProfile, [Next]_vars PROVE OneActiveProfile'
    OBVIOUS
  <1> USE DEF OneActiveProfile, vars, tableVars, runtimeVars, requestVars, historyVars
  <1>1. ASSUME NEW c \in Clients, Create(c) \/ Update(c)
        PROVE  OneActiveProfile'
    BY <1>1 DEF Create, InsertRow, Update, UpdateRow
  <1>2. ASSUME NEW c \in Clients, Delete(c)
        PROVE  OneActiveProfile'
    BY <1>2 DEF Delete, DeleteRow, Answer
  <1>3. ASSUME NEW c \in Clients, ClearOthers(c) \/ Mark(c)
        PROVE  OneActiveProfile'
    BY <1>3 DEF ClearOthers, DeactivateOthers, Goto, Mark, SetActive, IndexAllows
  <1>4. ASSUME NEW c \in Clients, Undo(c) \/ ClearAll(c)
        PROVE  OneActiveProfile'
    BY <1>4 DEF Undo, DeactivateAll, Goto, ClearAll, Answer
  <1>5. ASSUME NEW c \in Clients,
               DeleteCheck(c) \/ ActivateGet(c) \/ Probe(c) \/ Remember(c) \/
               MarkRefused(c) \/ Fetch(c) \/ Swap(c) \/ Label(c) \/ Rebuild(c) \/
               Deactivate(c) \/ BuildFails(c)
        PROVE  OneActiveProfile'
    BY <1>5 DEF DeleteCheck, Begin, ActivateGet, Probe, ProbeReaches, Goto, Answer,
          Remember, Bound, MarkRefused, Fetch, BeginRebind, ProfileBinding, Swap,
          Label, Rebuild, Deactivate, BuildFails
  <1>6. ASSUME NEW c \in Clients, StatementFails(c)
        PROVE  OneActiveProfile'
    BY <1>6 DEF StatementFails, Statement, DeleteRow, DeactivateOthers, SetActive,
          IndexAllows, DeactivateAll, Goto, Answer
  <1>7. CASE Crash
    BY <1>7 DEF Crash, NoRequests, EnvSettings, EnvBinding
  <1>8. CASE Boot
    BY <1>8 DEF Boot, ProfileBinding, EnvSettings
  <1>9. CASE UNCHANGED vars
    BY <1>9
  <1> QED
    BY <1>1, <1>2, <1>3, <1>4, <1>5, <1>6, <1>7, <1>8, <1>9 DEF Next

\* Whatever activations, rollbacks and restarts overlap, two rows are never active.
THEOREM NeverTwoActive == Spec => []OneActiveProfile
  <1>1. Init => OneActiveProfile
    BY DEF Init, TableInit, OneActiveProfile
  <1> QED
    BY <1>1, TypeCorrect, OneActiveStep, PTL DEF Spec

------------------------------------------------------------------------------
(* Only profiles that a probe reached are recorded, shown or serve *)

LEMMA GotoProbed ==
    ASSUME RequestTypeOK, LocalsProbed, probed \subseteq probed',
           NEW c \in Clients, NEW s, Goto(c, s),
           s \in {"remember", "clear", "mark", "fetch"} => arg[c] \in probed'
    PROVE  LocalsProbed'
  BY DEF RequestTypeOK, LocalsProbed, Goto

LEMMA AnswerProbed ==
    ASSUME RequestTypeOK, LocalsProbed, probed \subseteq probed', NEW c \in Clients, Answer(c)
    PROVE  LocalsProbed'
  BY DEF RequestTypeOK, LocalsProbed, Answer, EnvBinding, EnvSettings

LEMMA ProbedStep == TypeOK /\ ProbedInv /\ [Next]_vars => ProbedInv'
  <1> SUFFICES ASSUME TypeOK, ProbedInv, [Next]_vars PROVE ProbedInv'
    OBVIOUS
  <1> USE DEF ProbedInv, LocalsProbed, OnlyProbedProfilesServe, TypeOK, TableTypeOK, RequestTypeOK,
              RuntimeTypeOK, Binding, Settings, EnvBinding, EnvSettings,
              vars, tableVars, runtimeVars, requestVars, historyVars
  <1>1. ASSUME NEW c \in Clients, Create(c) \/ Update(c)
        PROVE  ProbedInv'
    BY <1>1 DEF Create, InsertRow, Update, UpdateRow
  <1>2. ASSUME NEW c \in Clients, DeleteCheck(c)
        PROVE  ProbedInv'
    BY <1>2 DEF DeleteCheck, Begin
  <1>3. ASSUME NEW c \in Clients, ActivateGet(c)
        PROVE  ProbedInv'
    BY <1>3 DEF ActivateGet, Begin
  <1>4. ASSUME NEW c \in Clients, Delete(c)
        PROVE  ProbedInv'
    BY <1>4 DEF Delete, DeleteRow, Answer
  <1>5. ASSUME NEW c \in Clients, Probe(c)
        PROVE  ProbedInv'
    <2> USE <1>5 DEF Probe
    <2>1. LocalsProbed'
      BY GotoProbed, AnswerProbed
    <2>2. OnlyProbedProfilesServe'
      OBVIOUS
    <2> QED
      BY <2>1, <2>2
  <1>6. ASSUME NEW c \in Clients, Remember(c)
        PROVE  ProbedInv'
    BY <1>6 DEF Remember, Bound
  <1>7. ASSUME NEW c \in Clients, ClearOthers(c)
        PROVE  ProbedInv'
    BY <1>7 DEF ClearOthers, DeactivateOthers, Goto
  <1>8. ASSUME NEW c \in Clients, Mark(c)
        PROVE  ProbedInv'
    BY <1>8 DEF Mark, SetActive, IndexAllows, Goto
  <1>9. ASSUME NEW c \in Clients, MarkRefused(c)
        PROVE  ProbedInv'
    BY <1>9 DEF MarkRefused, Answer
  <1>10. ASSUME NEW c \in Clients, Fetch(c)
        PROVE  ProbedInv'
    BY <1>10 DEF Fetch, BeginRebind, ProfileBinding, Goto
  <1>11. ASSUME NEW c \in Clients, Swap(c)
        PROVE  ProbedInv'
    BY <1>11, StepNames DEF Swap, Goto
  <1>12. ASSUME NEW c \in Clients, Label(c)
        PROVE  ProbedInv'
    <2>1. LocalsProbed'
      BY <1>12, StepNames, GotoProbed, AnswerProbed DEF Label
    <2>2. OnlyProbedProfilesServe'
      BY <1>12 DEF Label
    <2> QED
      BY <2>1, <2>2
  <1>13. ASSUME NEW c \in Clients, Undo(c)
        PROVE  ProbedInv'
    BY <1>13 DEF Undo, DeactivateAll, Goto
  <1>14. ASSUME NEW c \in Clients, Rebuild(c)
        PROVE  ProbedInv'
    BY <1>14 DEF Rebuild, BeginRebind
  <1>15. ASSUME NEW c \in Clients, Deactivate(c)
        PROVE  ProbedInv'
    BY <1>15 DEF Deactivate, BeginRebind
  <1>16. ASSUME NEW c \in Clients, ClearAll(c)
        PROVE  ProbedInv'
    BY <1>16 DEF ClearAll, DeactivateAll, Answer
  <1>17. ASSUME NEW c \in Clients, StatementFails(c)
        PROVE  ProbedInv'
    <2>1. LocalsProbed'
      BY <1>17, GotoProbed, AnswerProbed DEF StatementFails
    <2>2. active' \subseteq active \union {arg[c]} /\ (pc[c] # "mark" => active' \subseteq active)
      BY <1>17 DEF StatementFails, Statement, DeleteRow, DeactivateOthers, SetActive, DeactivateAll
    <2>3. OnlyProbedProfilesServe'
      BY <1>17, <2>2 DEF StatementFails
    <2> QED
      BY <2>1, <2>3
  <1>18. ASSUME NEW c \in Clients, BuildFails(c)
        PROVE  ProbedInv'
    <2>1. LocalsProbed'
      BY <1>18, GotoProbed, AnswerProbed DEF BuildFails
    <2>2. OnlyProbedProfilesServe'
      BY <1>18 DEF BuildFails
    <2> QED
      BY <2>1, <2>2
  <1>19. CASE Crash
    BY <1>19 DEF Crash, NoRequests, EnvSettings, EnvBinding
  <1>20. CASE Boot
    BY <1>20 DEF Boot, ProfileBinding, EnvSettings
  <1>21. CASE UNCHANGED vars
    BY <1>21
  <1> QED
    BY <1>1, <1>2, <1>3, <1>4, <1>5, <1>6, <1>7, <1>8, <1>9, <1>10, <1>11, <1>12,
       <1>13, <1>14, <1>15, <1>16, <1>17, <1>18, <1>19, <1>20, <1>21 DEF Next

\* No interleaving lets a profile that was never reached be recorded, shown or served.
THEOREM OnlyProbedServe == Spec => []OnlyProbedProfilesServe
  <1>1. Init => ProbedInv
    BY DEF Init, TableInit, ProbedInv, LocalsProbed, OnlyProbedProfilesServe, EnvSettings,
            EnvBinding
  <1>2. ProbedInv => OnlyProbedProfilesServe
    BY DEF ProbedInv
  <1> QED
    BY <1>1, <1>2, TypeCorrect, ProbedStep, PTL DEF Spec

------------------------------------------------------------------------------
(* One client: requests do not overlap *)

\* With one client, a client whose request has just been answered is every client.
LEMMA OnlyClient == ASSUME OneClient, NEW c \in Clients, NEW d \in Clients PROVE d = c
  BY DEF OneClient

LEMMA OneClientStep ==
    ASSUME OneClient, TypeOK, OneActiveProfile, OneClientInv, [Next]_vars
    PROVE  OneClientInv'
  <1> USE OnlyClient
      DEF OneClientInv, BoundProfileExists, AgreeInv, FreshInv, OneProfile, RequestInv, ProbeReaches,
          IndexAllows, Bound, ProfileBinding, EnvBinding, EnvSettings, MayStart,
          TypeOK, TableTypeOK, RequestTypeOK, RuntimeTypeOK, AnyId,
          vars, tableVars, runtimeVars, requestVars, historyVars
  <1>1. ASSUME NEW c \in Clients, Create(c) \/ Update(c)
        PROVE  OneClientInv'
    BY <1>1 DEF Create, InsertRow, Update, UpdateRow
  <1>2. ASSUME NEW c \in Clients, DeleteCheck(c)
        PROVE  OneClientInv'
    BY <1>2 DEF DeleteCheck, Begin
  <1>3. ASSUME NEW c \in Clients, ActivateGet(c)
        PROVE  OneClientInv'
    BY <1>3 DEF ActivateGet, Begin
  <1>4. ASSUME NEW c \in Clients, Delete(c)
        PROVE  OneClientInv'
    BY <1>4 DEF Delete, DeleteRow, Answer
  <1>5. ASSUME NEW c \in Clients, Probe(c)
        PROVE  OneClientInv'
    BY <1>5 DEF Probe, ProbeReaches, Goto, Answer
  <1>6. ASSUME NEW c \in Clients, Remember(c)
        PROVE  OneClientInv'
    BY <1>6 DEF Remember, Bound
  <1>7. ASSUME NEW c \in Clients, ClearOthers(c)
        PROVE  OneClientInv'
    BY <1>7 DEF ClearOthers, DeactivateOthers, Goto
  <1>8. ASSUME NEW c \in Clients, Mark(c)
        PROVE  OneClientInv'
    BY <1>8 DEF Mark, SetActive, IndexAllows, Goto
  <1>9. ASSUME NEW c \in Clients, MarkRefused(c)
        PROVE  OneClientInv'
    BY <1>9 DEF MarkRefused, Answer
  <1>10. ASSUME NEW c \in Clients, Fetch(c)
        PROVE  OneClientInv'
    BY <1>10 DEF Fetch, BeginRebind, ProfileBinding, Goto
  <1>11. ASSUME NEW c \in Clients, Swap(c)
        PROVE  OneClientInv'
    <2>1. AfterSwap["swap"] = "label" /\ AfterSwap["swap_back"] = "label_back"
          /\ AfterSwap["swap_env"] = "label_env"
      BY DEF AfterSwap
    <2>2. CASE pc[c] = "swap"
      BY <1>11, <2>1, <2>2 DEF Swap, Goto
    <2>3. CASE pc[c] = "swap_back"
      BY <1>11, <2>1, <2>3 DEF Swap, Goto
    <2>4. CASE pc[c] = "swap_env"
      BY <1>11, <2>1, <2>4 DEF Swap, Goto
    <2> QED
      BY <1>11, <2>2, <2>3, <2>4, StepNames DEF Swap
  <1>12. ASSUME NEW c \in Clients, Label(c)
        PROVE  OneClientInv'
    BY <1>12, StepNames DEF Label, Answer, Goto
  <1>13. ASSUME NEW c \in Clients, Undo(c)
        PROVE  OneClientInv'
    BY <1>13 DEF Undo, DeactivateAll, Goto
  <1>14. ASSUME NEW c \in Clients, Rebuild(c)
        PROVE  OneClientInv'
    BY <1>14 DEF Rebuild, BeginRebind
  <1>15. ASSUME NEW c \in Clients, Deactivate(c)
        PROVE  OneClientInv'
    BY <1>15 DEF Deactivate, BeginRebind
  <1>16. ASSUME NEW c \in Clients, ClearAll(c)
        PROVE  OneClientInv'
    BY <1>16 DEF ClearAll, DeactivateAll, Answer
  <1>17. ASSUME NEW c \in Clients, StatementFails(c)
        PROVE  OneClientInv'
    BY <1>17 DEF StatementFails, Statement, DeleteRow, DeactivateOthers, SetActive,
          IndexAllows, DeactivateAll, Goto, Answer
  <1>18. ASSUME NEW c \in Clients, BuildFails(c)
        PROVE  OneClientInv'
    BY <1>18 DEF BuildFails, Goto, Answer
  <1>19. CASE Crash
    BY <1>19 DEF Crash, NoRequests, EnvSettings, EnvBinding
  <1>20. CASE Boot
    <2>1. \A c \in Clients : pc'[c] = "idle"
      BY <1>20 DEF Boot
    <2>2. BoundProfileExists'
      BY <1>20 DEF Boot
    <2>3. AgreeInv'
      <3>1. CASE active = {} /\ live' = EnvSettings /\ label' = NoId
        BY <1>20, <3>1 DEF Boot
      <3>2. ASSUME NEW i \in active, live' = ProfileBinding(i).settings, label' = i
            PROVE  AgreeInv'
        <4>1. active' = {i}
          BY <1>20, <3>2 DEF Boot, OneActiveProfile
        <4> QED
          BY <1>20, <3>2, <4>1
      <3>3. CASE ~clean'
        BY <3>3
      <3> QED
        BY <1>20, <3>1, <3>2, <3>3 DEF Boot
    <2>4. FreshInv'
      BY <1>20 DEF Boot
    <2>5. \A c \in Clients : RequestInv(c)'
      BY <2>1
    <2> QED
      BY <2>2, <2>3, <2>4, <2>5
  <1>21. CASE UNCHANGED vars
    BY <1>21
  <1> QED
    BY <1>1, <1>2, <1>3, <1>4, <1>5, <1>6, <1>7, <1>8, <1>9, <1>10, <1>11, <1>12,
       <1>13, <1>14, <1>15, <1>16, <1>17, <1>18, <1>19, <1>20, <1>21 DEF Next

LEMMA OneClientInvariant == OneClient /\ Spec => []OneClientInv
  <1> SUFFICES ASSUME OneClient PROVE Spec => []OneClientInv
    OBVIOUS
  <1>1. Init => OneClientInv
    BY DEF Init, TableInit, OneClientInv, BoundProfileExists, AgreeInv, FreshInv, OneProfile,
           RequestInv, EnvSettings
  <1>2. TypeOK /\ OneActiveProfile /\ OneClientInv /\ [Next]_vars => OneClientInv'
    BY OneClientStep
  <1> QED
    BY <1>1, <1>2, TypeCorrect, NeverTwoActive, PTL DEF Spec

\* The screen never names a profile that was deleted.
THEOREM BoundExists == OneClient /\ Spec => []BoundProfileExists
  <1>1. OneClientInv => BoundProfileExists
    BY DEF OneClientInv
  <1> QED
    BY <1>1, OneClientInvariant, PTL

\* Between requests, and until something fails, a restart would bind the profile that is
\* bound, and with the server it has now unless PUT edited its row meanwhile.
THEOREM RecordKept == OneClient /\ Spec => []RecordAgrees
  <1>1. ASSUME TypeOK, OneClientInv, up, store, clean, \A c \in Clients : pc[c] = "idle"
        PROVE  Agreed
    <2>1. OneProfile
      BY <1>1 DEF OneClientInv, AgreeInv
    <2>2. ASSUME ~edited, label = NoId
          PROVE  RestartBinds(Bound)
      <3>1. live = EnvSettings
        BY <1>1, <2>1, <2>2
        DEF OneClientInv, FreshInv, OneProfile, TypeOK, RuntimeTypeOK, Settings, EnvSettings
      <3> QED
        BY <2>1, <2>2, <3>1 DEF OneProfile, RestartBinds, Bound, EnvBinding
    <2>3. ASSUME ~edited, label # NoId
          PROVE  RestartBinds(Bound)
      <3>1. live = [server |-> server[label], owner |-> label]
        BY <1>1, <2>1, <2>3
        DEF OneClientInv, FreshInv, OneProfile, TypeOK, RuntimeTypeOK, Settings
      <3> QED
        BY <2>1, <2>3, <3>1 DEF OneProfile, RestartBinds, Bound, ProfileBinding
    <2> QED
      BY <2>1, <2>2, <2>3 DEF Agreed
  <1>2. TypeOK /\ OneClientInv => RecordAgrees
    BY <1>1 DEF RecordAgrees
  <1> QED
    BY <1>2, TypeCorrect, OneClientInvariant, PTL

\* A profile becomes active only while its row names a server that answers.
THEOREM ActivationReaches == OneClient /\ Spec => ActivatedServerAnswers
  <1>1. ASSUME OneClientInv, [Next]_vars, NEW i \in active' \ active
        PROVE  server[i] \in Reachable
    <2>1. PICK c \in Clients : pc[c] = "mark" /\ i = arg[c]
      BY <1>1 DEF Next, vars, Create, Update, InsertRow, UpdateRow, DeleteCheck, Delete,
            DeleteRow, ActivateGet, Probe, Remember, ClearOthers, DeactivateOthers, Mark,
            SetActive, MarkRefused, Fetch, Swap, Label, Undo, Rebuild, Deactivate, ClearAll,
            DeactivateAll, StatementFails, Statement, BuildFails, Crash, Boot, tableVars
    <2> QED
      BY <1>1, <2>1 DEF OneClientInv, RequestInv, ProbeReaches
  <1>2. OneClientInv /\ [Next]_vars
        => [\A i \in active' \ active : server[i] \in Reachable]_vars
    BY <1>1
  <1> QED
    BY <1>2, OneClientInvariant, PTL DEF Spec, ActivatedServerAnswers

\* A completed activation leaves record, screen and settings on its profile.
THEOREM ActivationHeals == OneClient /\ Spec => CompletedActivationHeals
  <1>1. ASSUME OneClient, TypeOK, OneClientInv, [Next]_vars, NEW c \in Clients,
               pc[c] = "label", pc'[c] = "idle", up'
        PROVE  active' = {label'} /\ Bound' = ProfileBinding(label)'
    <2>1. target[c] = ProfileBinding(arg[c]) /\ active = {arg[c]} /\ live = target[c].settings
      BY <1>1 DEF OneClientInv, RequestInv
    <2>2. ASSUME NEW d \in Clients
          PROVE  pc[d] = "label"
      BY <1>1, OnlyClient
    <2>3. Label(c)
      BY <1>1, <2>2, OnlyClient, StepNames
      DEF Next, vars, MayStart, Create, Update, DeleteCheck, Delete, ActivateGet, Probe,
          Remember, ClearOthers, Mark, MarkRefused, Fetch, Swap, Undo, Rebuild, Deactivate,
          ClearAll, StatementFails, BuildFails, Crash, Boot, requestVars
    <2> QED
      BY <2>1, <2>3 DEF Bound, ProfileBinding, Label, tableVars
  <1>2. OneClient /\ TypeOK /\ OneClientInv /\ [Next]_vars
        => [\A c \in Clients : pc[c] = "label" /\ pc'[c] = "idle" /\ up' =>
                active' = {label'} /\ Bound' = ProfileBinding(label)']_vars
    BY <1>1
  <1> SUFFICES ASSUME OneClient PROVE Spec => CompletedActivationHeals
    OBVIOUS
  <1> QED
    BY <1>2, TypeCorrect, OneClientInvariant, PTL DEF Spec, CompletedActivationHeals

\* With one client the wish is that of its request's step.
LEMMA PendingOf ==
    ASSUME OneClient, NEW c \in Clients
    PROVE  Pending = WishOf(pc[c]) /\ Pending' = WishOf(pc'[c])
  BY OnlyClient DEF Pending, WishOf

\* The application with one client implements ServingContract: a switch that fails, at
\* whatever statement or build, leaves the settings that were serving in place.
THEOREM ServingImplemented == OneClient /\ Spec => ServingKept
  <1>1. Init => Contract!Init
    BY DEF Init, Contract!Init, Pending, WishOf
  <1>2. ASSUME OneClient, TypeOK, TypeOK', OneClientInv, [Next]_vars
        PROVE  [Contract!Next]_<<up, live, Pending>>
    <2> DEFINE Mapped == [Contract!Next]_<<up, live, Pending>>
    <2>1. ASSUME NEW c \in Clients, Swap(c)
          PROVE  Mapped
      <3> USE <1>2, <2>1, PendingOf DEF OneClientInv, RequestInv, WishOf
      <3>0. UNCHANGED up /\ live' = target[c].settings /\ pc'[c] = AfterSwap[pc[c]]
        BY DEF Swap, Goto, TypeOK, RequestTypeOK
      <3>1. CASE pc[c] = "swap"
        <4>1. up /\ target[c] = ProfileBinding(arg[c]) /\ ProbeReaches(arg[c])
          BY <3>1
        <4>2. Answers(live')
          BY <4>1, <3>0 DEF ProfileBinding, ProbeReaches, Answers
        <4>3. live' \in Settings
          BY DEF TypeOK, RuntimeTypeOK
        <4>4. Pending = "switch" /\ Pending' = "none"
          BY <3>0, <3>1 DEF AfterSwap
        <4> QED
          BY <4>1, <4>2, <4>3, <4>4, <3>0 DEF Contract!Next, Contract!Switch
      <3>2. CASE pc[c] = "swap_back"
        BY <3>0, <3>2 DEF Bound, AfterSwap
      <3>3. CASE pc[c] = "swap_env"
        BY <3>0, <3>3 DEF AfterSwap, EnvBinding, Contract!Next, Contract!Revert
      <3> QED
        BY <3>1, <3>2, <3>3, StepNames DEF Swap
    <2>2. ASSUME Crash PROVE Mapped
      BY <2>2 DEF Crash, NoRequests, Pending, WishOf, Contract!Next, Contract!Stop
    <2>3. ASSUME Boot PROVE Mapped
      BY <1>2, <2>3
      DEF Boot, requestVars, Pending, TypeOK, RuntimeTypeOK, Contract!Next, Contract!Start
    <2>4. ASSUME NEW c \in Clients, ActivateGet(c) \/ Deactivate(c)
          PROVE  Mapped
      <3>1. up /\ UNCHANGED <<up, live>> /\ pc[c] = "idle" /\ pc'[c] \in {"probe", "swap_env"}
        BY <1>2, <2>4
        DEF ActivateGet, Deactivate, MayStart, Begin, BeginRebind, TypeOK, RequestTypeOK,
            runtimeVars
      <3> QED
        BY <1>2, <3>1, PendingOf DEF WishOf, Contract!Next, Contract!Ask
    <2>5. ASSUME NEW c \in Clients,
                 \/ Probe(c) \/ Remember(c) \/ ClearOthers(c) \/ Mark(c) \/ MarkRefused(c)
                 \/ Fetch(c)
          PROVE  Mapped
      <3>1. /\ UNCHANGED <<up, live>>
            /\ WishOf(pc[c]) = "switch" /\ WishOf(pc'[c]) \in {"switch", "none"}
        BY <1>2, <2>5
        DEF Probe, Remember, ClearOthers, Mark, MarkRefused, Fetch, Goto, Answer, BeginRebind,
            TypeOK, RequestTypeOK, runtimeVars, WishOf
      <3> QED
        BY <1>2, <3>1, PendingOf DEF Contract!Next, Contract!GiveUp
    <2>6. ASSUME NEW c \in Clients, StatementFails(c) \/ BuildFails(c)
          PROVE  Mapped
      <3>1. /\ UNCHANGED <<up, live>>
            /\ WishOf(pc[c]) \in {"switch", "none"} /\ WishOf(pc'[c]) = "none"
        BY <1>2, <2>6
        DEF StatementFails, BuildFails, Goto, Answer, TypeOK, RequestTypeOK, runtimeVars, WishOf
      <3> QED
        BY <1>2, <3>1, PendingOf DEF Contract!Next, Contract!GiveUp
    <2>7. ASSUME NEW c \in Clients,
                 \/ Create(c) \/ Update(c) \/ DeleteCheck(c) \/ Delete(c) \/ Label(c)
                 \/ Undo(c) \/ Rebuild(c) \/ ClearAll(c)
          PROVE  Mapped
      <3>1. UNCHANGED <<up, live>> /\ WishOf(pc[c]) = WishOf(pc'[c])
        <4>1. CASE Label(c)
          BY <1>2, <4>1, StepNames
          DEF Label, AfterLabel, Goto, Answer, TypeOK, RequestTypeOK, WishOf
        <4> QED
          BY <1>2, <2>7, <4>1
          DEF Create, Update, DeleteCheck, Delete, Undo, Rebuild, ClearAll, MayStart, Begin,
              Goto, Answer, BeginRebind, TypeOK, RequestTypeOK, runtimeVars, requestVars, WishOf
      <3> QED
        BY <1>2, <3>1, PendingOf
    <2>8. ASSUME UNCHANGED vars PROVE Mapped
      BY <2>8 DEF vars, runtimeVars, requestVars, Pending
    <2> HIDE DEF Mapped
    <2>9. Mapped
      BY <1>2, <2>1, <2>2, <2>3, <2>4, <2>5, <2>6, <2>7, <2>8 DEF Next
    <2> QED
      BY <2>9 DEF Mapped
  <1>3. OneClient /\ TypeOK /\ TypeOK' /\ OneClientInv /\ [Next]_vars
        => [Contract!Next]_<<up, live, Pending>>
    BY <1>2
  <1> SUFFICES ASSUME OneClient PROVE Spec => ServingKept
    OBVIOUS
  <1> QED
    BY <1>1, <1>3, TypeCorrect, OneClientInvariant, PTL DEF Spec, ServingKept, Contract!Spec
==============================================================================
