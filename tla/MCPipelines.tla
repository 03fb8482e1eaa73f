---------------------------- MODULE MCPipelines ----------------------------
(***************************************************************************)
(* Small instances of the components that feed the ledger or stand beside  *)
(* it.  A behaviour is one of the scenes: a component at work by itself    *)
(* while the variables of the others stay as they began.                   *)
(***************************************************************************)
EXTENDS UnifiedLoop, ServiceLoop, MailAccounts, Themes, ThemeClusters, Staging,
  StoreSessions

CONSTANTS
  Scenes,                      \* the scenes of a run
  k1, k2, k3,                  \* subjects
  c1, c2, c3, c4, c5, handle,  \* cards
  w1, w2,                      \* pseudo cards of windows
  MaxNews,                     \* bound: messages while accounts change
  MaxMishaps                   \* bound: resets, failures and restarts together

\* What may be at work.
ASSUME ScenesAssumption ==
  Scenes \subseteq {"routing", "loop", "mail", "accounts", "service", "staging",
                   "themes", "clusters", "store"}

VARIABLE scene

-----------------------------------------------------------------------------

\* Cards: the first two share a handle and nothing else; the third cites what
\* both cite and names the first one's subject; the fourth came by mail with a
\* key of its own, in the second one's thread; the fifth shows nothing that places
\* it, and an extraction may return it twice.
Card == [c \in {c1, c2, c3, c4, c5} |->
  CASE c = c1 -> [cites |-> {1}, thread |-> 1, marks |-> {handle}, hint |-> NoKey, own |-> k1]
    [] c = c2 -> [cites |-> {2}, thread |-> 2, marks |-> {handle}, hint |-> NoKey, own |-> k2]
    [] c = c3 -> [cites |-> {1, 2}, thread |-> 3, marks |-> {}, hint |-> k1, own |-> k3]
    [] c = c4 -> [cites |-> {1, 2}, thread |-> 2, marks |-> {}, hint |-> k3, own |-> k2]
    [] c = c5 -> [cites |-> {2}, thread |-> 4, marks |-> {}, hint |-> NoKey, own |-> k3]]

\* Windows: two records in one thread, each with its pseudo card.
PseudoCard(r) ==
  [cites |-> {r}, thread |-> 1, marks |-> {handle}, hint |-> NoKey, own |-> k1]
AllCards == {c1, c2, c3, c4, c5, w1, w2}
Field(name) == [c \in AllCards |->
  CASE c = w1 -> PseudoCard(1)[name] [] c = w2 -> PseudoCard(2)[name] [] OTHER -> Card[c][name]]
AllCites == Field("cites")
AllThreads == Field("thread")
AllMarks == Field("marks")
AllHints == Field("hint")
AllOwnKeys == Field("own")
CardReplies == {<<c1>>, <<c2>>, <<c1, c2>>, <<c3>>, <<c5, c5>>, <<c4>>}
WindowCards == [K \in {{1}, {2}} |-> IF K = {1} THEN w1 ELSE w2]
DeclaredKeys == [K \in {{1}, {2}} |-> IF K = {1} THEN k2 ELSE k3]

Intent(subject, object, good) == [subject |-> subject, object |-> object, good |-> good]
IntentBatches ==
  {<<Intent("new", NoKey, TRUE)>>,
   <<Intent("new", NoKey, FALSE), Intent("$new", NoKey, TRUE)>>,
   <<Intent("new", NoKey, TRUE), Intent("$new", k2, TRUE)>>,
   <<Intent(k2, NoKey, TRUE), Intent(k3, NoKey, TRUE)>>}

\* Three matters; two namings of one cluster, one that names a part of it under
\* another member, and one of another cluster.
Draft(members, theme, sure, wording) ==
  [members |-> members, parent |-> theme, sure |-> sure, wording |-> wording]
ThemeRoots == {k1, k2, k3}
ThemeDrafts ==
  {Draft({k1, k2}, c1, FALSE, 1), Draft({k1, k2}, c1, FALSE, 2),
   Draft({k1}, k2, FALSE, 1), Draft({k2, k3}, c2, TRUE, 1)}
StagedMatters == {k1}

-----------------------------------------------------------------------------

vars == <<scene, loopVars, registryVars, serviceVars, stagingVars,
          themeVars, clusterVars, sessionVars>>

\* Bonds and the contents of a store are free where they matter.
Init ==
  /\ scene \in Scenes
  /\ LoopInit /\ ServiceInit /\ StagingInit /\ ThemesInit
  /\ MailAccountsInit /\ (scene # "accounts" => saved = {})
  /\ ClusterInit /\ (scene # "clusters" => Bonds("strong") = Pairs)
  /\ IF scene = "store" THEN SessionsInit
     ELSE /\ db = EmptyStore /\ blocks = <<>> /\ holder = Nil /\ raising = FALSE
          /\ drafts = <<>> /\ group = {}

RoutingScene ==
  /\ scene = "routing" /\ RoutingNext
  /\ UNCHANGED <<scene, session, claims, registryVars, serviceVars, stagingVars, themeVars,
                 clusterVars, sessionVars>>
LoopScene ==
  /\ scene = "loop" /\ LoopNext
  /\ UNCHANGED <<scene, registryVars, serviceVars, stagingVars, themeVars, clusterVars,
                 sessionVars>>
MailScene ==
  /\ \/ scene = "mail" /\ MailNext /\ UNCHANGED registryVars
     \/ scene = "accounts" /\ MailAccountsNext /\ top' <= MaxNews
  /\ resets' + failures' <= MaxMishaps
  /\ UNCHANGED <<scene, loopVars, outboxVars, at, due, restarts, stagingVars,
                 themeVars, clusterVars, sessionVars>>
Service(A) ==
  /\ scene = "service" /\ A
  /\ UNCHANGED <<scene, loopVars, registryVars, stagingVars, themeVars,
                 clusterVars, sessionVars>>
ServiceScene == Service(ServiceNext) /\ resets' + failures' + restarts' <= MaxMishaps
StagingScene ==
  /\ scene = "staging" /\ StagingNext
  /\ UNCHANGED <<scene, loopVars, registryVars, serviceVars, themeVars,
                 clusterVars, sessionVars>>
ThemesScene ==
  /\ scene = "themes" /\ ThemesNext
  /\ UNCHANGED <<scene, loopVars, registryVars, serviceVars, stagingVars,
                 clusterVars, sessionVars>>
ClustersScene ==
  /\ scene = "clusters" /\ Join
  /\ UNCHANGED <<scene, loopVars, registryVars, serviceVars, stagingVars,
                 themeVars, sessionVars>>
StoreScene ==
  /\ scene = "store" /\ SessionsNext
  /\ UNCHANGED <<scene, loopVars, registryVars, serviceVars, stagingVars,
                 themeVars, clusterVars>>

Next ==
  \/ RoutingScene \/ LoopScene \/ MailScene \/ ServiceScene \/ StagingScene
  \/ ThemesScene \/ ClustersScene \/ StoreScene

\* The loop goes on; a receiver that is posted to time and again answers once;
\* the interval of the mailbox passes.
Spec ==
  /\ Init /\ [][Next]_vars
  /\ WF_vars(Service(LoopStep))
  /\ SF_vars(Service(DispatchAnswered))
  /\ WF_vars(Service(FallDue))

-----------------------------------------------------------------------------

\* Every variable of the component at work has values of its kind, and the blocks
\* of a store agree with its drafts.
TypeOK ==
  CASE scene = "routing" -> RoutingTypeOK
    [] scene = "loop" -> RoutingTypeOK /\ LoopTypeOK
    [] scene = "mail" -> MailTypeOK
    [] scene = "accounts" -> MailAccountsTypeOK
    [] scene = "service" -> ServiceTypeOK
    [] scene = "staging" -> StagingTypeOK
    [] scene = "themes" -> ThemesTypeOK
    [] scene = "clusters" -> ClusterTypeOK
    [] scene = "store" -> SessionsTypeOK /\ SessionsInv

\* Every event is marked in the end where the loop of the service runs
\* (WebhookDispatcher.deliver_pending).
EventsDeliveredWhenServed == scene = "service" => EventsDelivered
\* Every message comes in where the loop of the service runs (MailRuntime.tick).
MailComesInWhenServed == scene = "service" => MailComesIn
=============================================================================
