---------------------------- MODULE ScenesProofs ----------------------------
(***************************************************************************)
(* The invariants of the scenes, for every value of the constants:         *)
(* whichever component is at work, its variables have values of their      *)
(* kinds, and the safety invariants of all components hold in every scene. *)
(* The inductive invariant of a scene is that of its component; here is    *)
(* only that a scene is nothing but its component.                         *)
(***************************************************************************)
EXTENDS MCPipelines, RoutingProofs, PipelineProofs

-----------------------------------------------------------------------------
SceneInv ==
  /\ scene \in Scenes
  /\ scene = "routing" => RoutingTyped
  /\ scene = "loop" => LoopTyped
  /\ scene = "mail" => MailInv
  /\ scene = "accounts" => AccountsInv
  /\ scene = "service" => ServiceInv
  /\ scene = "staging" => StagingInv
  /\ scene = "themes" => ThemesInv
  /\ scene = "clusters" => ClusterInv
  /\ scene = "store" => SessionsHeld

LEMMA SceneBegins == Init => SceneInv
  <1> SUFFICES ASSUME Init PROVE SceneInv
    OBVIOUS
  <1>1. /\ scene \in Scenes
        /\ LoopInit /\ ServiceInit /\ StagingInit /\ ThemesInit /\ MailAccountsInit
        /\ ClusterInit /\ (scene = "store" => SessionsInit)
    BY DEF Init
  <1>2. RoutingInit /\ MailInit
    BY <1>1 DEF LoopInit, ServiceInit
  <1>3. RoutingTyped /\ LoopTyped
    BY <1>1, <1>2, RoutingTypedBegins, LoopTypedBegins
  <1>4. MailInv /\ AccountsInv /\ ServiceInv
    BY <1>1, <1>2, MailInvBegins, AccountsInvBegins, ServiceInvBegins
  <1>5. StagingInv /\ ThemesInv /\ ClusterInv
    BY <1>1, StagingInvBegins, ThemesInvBegins, ClusterStart
  <1>6. scene = "store" => SessionsHeld
    BY <1>1, SessionsHeldBegins
  <1>7. QED
    BY <1>1, <1>3, <1>4, <1>5, <1>6 DEF SceneInv

\* A step of a scene is one of its component, or none.
LEMMA SceneIsComponent ==
  ASSUME [Next]_vars
  PROVE  /\ scene' = scene
         /\ scene = "routing" => [RoutingNext]_routingVars
         /\ scene = "loop" => [LoopNext]_loopVars
         /\ scene = "mail" => [MailNext]_mailVars
         /\ scene = "accounts" => [MailAccountsNext]_accountsVars
         /\ scene = "service" => [ServiceNext]_serviceVars
         /\ scene = "staging" => [StagingNext]_stagingVars
         /\ scene = "themes" => [ThemesNext]_themeVars
         /\ scene = "clusters" => [Join]_clusterVars
         /\ scene = "store" => [SessionsNext]_sessionVars
  <1>1. CASE UNCHANGED vars
    <2>1. /\ UNCHANGED <<scene, loopVars, registryVars, serviceVars, stagingVars>>
          /\ UNCHANGED <<themeVars, clusterVars, sessionVars>>
      BY <1>1 DEF vars
    <2>2. UNCHANGED routingVars /\ UNCHANGED mailVars /\ UNCHANGED accountsVars
      BY <2>1 DEF loopVars, serviceVars, accountsVars
    <2>3. QED
      BY <2>1, <2>2
  <1>2. CASE RoutingScene
    BY <1>2 DEF RoutingScene
  <1>3. CASE LoopScene
    BY <1>3 DEF LoopScene
  <1>4. CASE MailScene
    BY <1>4 DEF MailScene
  <1>5. CASE ServiceScene
    BY <1>5 DEF ServiceScene, Service
  <1>6. CASE StagingScene
    BY <1>6 DEF StagingScene
  <1>7. CASE ThemesScene
    BY <1>7 DEF ThemesScene
  <1>8. CASE ClustersScene
    BY <1>8 DEF ClustersScene
  <1>9. CASE StoreScene
    BY <1>9 DEF StoreScene
  <1>10. QED
    BY <1>1, <1>2, <1>3, <1>4, <1>5, <1>6, <1>7, <1>8, <1>9 DEF Next

LEMMA SceneSteps ==
  ASSUME SceneInv, [Next]_vars
  PROVE  SceneInv'
  <1>1. scene' = scene /\ scene \in Scenes
    BY SceneIsComponent DEF SceneInv
  <1>2. scene = "routing" => RoutingTyped'
    BY SceneIsComponent, RoutingTypedSteps DEF SceneInv
  <1>3. scene = "loop" => LoopTyped'
    BY SceneIsComponent, LoopTypedSteps DEF SceneInv
  <1>4. scene = "mail" => MailInv'
    BY SceneIsComponent, MailInvSteps DEF SceneInv
  <1>5. scene = "accounts" => AccountsInv'
    BY SceneIsComponent, AccountsInvSteps DEF SceneInv
  <1>6. scene = "service" => ServiceInv'
    BY SceneIsComponent, ServiceInvSteps DEF SceneInv
  <1>7. scene = "staging" => StagingInv'
    BY SceneIsComponent, StagingInvSteps DEF SceneInv
  <1>8. scene = "themes" => ThemesInv'
    BY SceneIsComponent, ThemesInvSteps DEF SceneInv
  <1>9. scene = "clusters" => ClusterInv'
    BY SceneIsComponent, ClusterInvSteps DEF SceneInv
  <1>10. scene = "store" => SessionsHeld'
    BY SceneIsComponent, SessionsHeldSteps DEF SceneInv
  <1>11. QED
    BY <1>1, <1>2, <1>3, <1>4, <1>5, <1>6, <1>7, <1>8, <1>9, <1>10 DEF SceneInv

LEMMA SceneSuffices ==
  ASSUME SceneInv
  PROVE  TypeOK
  <1>1. scene \in {"routing", "loop", "mail", "accounts", "service", "staging",
                   "themes", "clusters", "store"}
    BY ScenesAssumption DEF SceneInv
  <1>2. scene = "routing" => RoutingTypeOK
    BY RoutingTypedSuffices DEF SceneInv
  <1>3. scene = "loop" => RoutingTypeOK /\ LoopTypeOK
    BY LoopTypedSuffices DEF SceneInv
  <1>4. scene = "mail" => MailTypeOK
    BY DEF SceneInv, MailInv
  <1>5. scene = "accounts" => MailAccountsTypeOK
    BY AccountsInvSuffices DEF SceneInv
  <1>6. scene = "service" => ServiceTypeOK
    BY ServiceInvSuffices DEF SceneInv
  <1>7. /\ scene = "staging" => StagingTypeOK
        /\ scene = "themes" => ThemesTypeOK
        /\ scene = "clusters" => ClusterTypeOK
        /\ scene = "store" => SessionsTypeOK /\ SessionsInv
    BY DEF SceneInv, StagingInv, ThemesInv, ClusterInv, SessionsHeld
  <1>8. QED
    BY <1>1, <1>2, <1>3, <1>4, <1>5, <1>6, <1>7 DEF TypeOK

\* Every variable of the component at work has values of its kind, and the open
\* blocks of a store agree with its drafts (SQLiteStore.transaction, MailRuntime,
\* WebhookDispatcher, the matchers and the clerks of routing).
THEOREM ScenesTypesCorrect == Spec => []TypeOK
  <1>1. QED
    BY SceneBegins, SceneSteps, SceneSuffices, PTL DEF Spec

-----------------------------------------------------------------------------
\* The invariants of the run: what a component keeps while it is at work it
\* keeps while it stands still.
AtRest ==
  /\ RoutingTyped /\ MailInv /\ BoxInv /\ ReviewsInv /\ ClusterInv

LEMMA OthersStandStill ==
  ASSUME [Next]_vars
  PROVE  /\ scene \in {"routing", "loop"} \/ UNCHANGED routingVars
         /\ scene \in {"mail", "accounts", "service"} \/ UNCHANGED mailVars
         /\ scene = "service" \/ UNCHANGED outboxVars
         /\ scene = "themes" \/ UNCHANGED themeVars
         /\ scene = "clusters" \/ UNCHANGED clusterVars
  <1>1. CASE UNCHANGED vars
    BY <1>1 DEF vars, loopVars, serviceVars
  <1>2. CASE RoutingScene
    BY <1>2 DEF RoutingScene, serviceVars
  <1>3. CASE LoopScene
    BY <1>3 DEF LoopScene, serviceVars
  <1>4. CASE MailScene
    BY <1>4 DEF MailScene, loopVars
  <1>5. CASE ServiceScene
    BY <1>5 DEF ServiceScene, Service, loopVars
  <1>6. CASE StagingScene \/ ThemesScene \/ ClustersScene \/ StoreScene
    BY <1>6 DEF StagingScene, ThemesScene, ClustersScene, StoreScene, loopVars, serviceVars
  <1>7. QED
    BY <1>1, <1>2, <1>3, <1>4, <1>5, <1>6 DEF Next

LEMMA AtRestBegins == Init => AtRest
  <1> SUFFICES ASSUME Init PROVE AtRest
    OBVIOUS
  <1>1. RoutingInit /\ MailInit /\ OutboxInit /\ ThemesInit /\ ClusterInit
    BY DEF Init, LoopInit, ServiceInit
  <1>2. QED
    BY <1>1, RoutingTypedBegins, MailInvBegins, BoxInvBegins, ReviewsBegin, ClusterStart
       DEF AtRest

LEMMA AtRestSteps ==
  ASSUME SceneInv, AtRest, [Next]_vars
  PROVE  AtRest'
  <1>1. /\ RoutingTyped /\ MailInv /\ BoxInv /\ ReviewsInv /\ ClusterInv
    BY DEF AtRest
  <1>2. RoutingTyped'
    <2>1. CASE scene = "loop"
      BY <2>1, SceneIsComponent, LoopTypedSteps DEF SceneInv, LoopTyped
    <2>2. CASE scene # "loop"
      BY <1>1, <2>2, SceneIsComponent, OthersStandStill, RoutingTypedSteps
    <2>3. QED
      BY <2>1, <2>2
  <1>3. MailInv'
    <2>1. CASE scene = "accounts"
      BY <2>1, SceneIsComponent, AccountsInvSteps DEF SceneInv, AccountsInv
    <2>2. CASE scene = "service"
      BY <2>2, SceneIsComponent, ServiceInvSteps DEF SceneInv, ServiceInv
    <2>3. CASE scene \notin {"accounts", "service"}
      BY <1>1, <2>3, SceneIsComponent, OthersStandStill, MailInvSteps
    <2>4. QED
      BY <2>1, <2>2, <2>3
  <1>4. BoxInv'
    BY <1>1, SceneIsComponent, OthersStandStill, BoxInvSteps, BoxInvStays
  <1>5. ReviewsInv' /\ ClusterInv'
    BY <1>1, SceneIsComponent, OthersStandStill, ReviewsSteps, ClusterInvSteps
  <1>6. QED
    BY <1>2, <1>3, <1>4, <1>5 DEF AtRest

LEMMA AtRestSuffices ==
  ASSUME AtRest
  PROVE  /\ OneHome /\ DecidedOnce /\ NoMailLost /\ MarkedWasReceived /\ OneOpenProposal
         /\ OneStrongCore
  <1>1. RoutingInv /\ MailInv /\ BoxInv /\ ReviewsInv /\ ClusterInv
    BY DEF AtRest, RoutingTyped
  <1>2. OneHome /\ DecidedOnce
    BY <1>1, ClaimsCounted DEF RoutingInv, Homes
  <1>3. QED
    BY <1>1, <1>2, InvImplies, ClusterInvSuffices DEF BoxInv, ReviewsInv

\* The invariants hold in every scene: reviewers and merges go on beside the tool
\* loop, and the syncs of accounts, of the command line and of the service all
\* move the one position (UnifiedLoopSession, MailRuntimeRegistry,
\* service_lifespan).
THEOREM ScenesKeepInvariants ==
  Spec => [](/\ OneHome /\ DecidedOnce /\ NoMailLost /\ MarkedWasReceived
             /\ OneOpenProposal /\ OneStrongCore)
  <1>1. SceneInv /\ [Next]_vars => SceneInv'
    BY SceneSteps
  <1>2. SceneInv /\ AtRest /\ [Next]_vars => AtRest'
    BY AtRestSteps
  <1>3. AtRest => /\ OneHome /\ DecidedOnce /\ NoMailLost /\ MarkedWasReceived
                  /\ OneOpenProposal /\ OneStrongCore
    BY AtRestSuffices
  <1>4. QED
    BY SceneBegins, AtRestBegins, <1>1, <1>2, <1>3, PTL DEF Spec
=============================================================================
