-------------------------- MODULE StorefrontProofs --------------------------
(***************************************************************************)
(* The parts of MCStorefront share no variable: a behaviour of all of them *)
(* is, of each part, one of its own specification.  What PagesProofs and   *)
(* ServerProofs show of the parts therefore holds of the whole.            *)
(***************************************************************************)
EXTENDS MCStorefront, PagesProofs, ServerProofs

\* Every step is one of the part that is followed, or leaves it alone.
LEMMA StepsApart ==
  ASSUME [Next]_allVars
  PROVE  /\ [SessionNext]_sessionVars /\ [FlowNext]_flowVars /\ [AssistantNext]_assistantVars
         /\ [BrowseNext]_browseVars /\ [MerchantNext]_merchantVars /\ [TableNext]_tableVars
         /\ [SsrNext]_ssrVars /\ [LegacyNext]_legacyVars /\ [RateNext]_rateVars
         /\ [TurnNext]_turnVars /\ [FirstNext]_firstVars /\ [PolicyNext]_policyVars
<1>1. CASE AloneSession(SessionNext)
  BY <1>1, Zenon DEF AloneSession
<1>2. CASE AloneFlow(FlowNext)
  BY <1>2, Zenon DEF AloneFlow
<1>3. CASE AloneAssistant(AssistantNext)
  BY <1>3, Zenon DEF AloneAssistant
<1>4. CASE AloneBrowse(BrowseNext)
  BY <1>4, Zenon DEF AloneBrowse
<1>5. CASE AloneMerchant(MerchantNext)
  BY <1>5, Zenon DEF AloneMerchant
<1>6. CASE AloneTables(TableNext)
  BY <1>6, Zenon DEF AloneTables
<1>7. CASE AloneSsr(SsrNext)
  BY <1>7, Zenon DEF AloneSsr
<1>8. CASE AloneLegacy(LegacyNext)
  BY <1>8, Zenon DEF AloneLegacy
<1>9. CASE AloneRate(RateNext)
  BY <1>9, Zenon DEF AloneRate
<1>10. CASE AloneTurn(TurnNext)
  BY <1>10, Zenon DEF AloneTurn
<1>11. CASE AloneFirst(FirstNext)
  BY <1>11, Zenon DEF AloneFirst
<1>12. CASE AlonePolicy(PolicyNext)
  BY <1>12, Zenon DEF AlonePolicy
<1>13. CASE UNCHANGED allVars
  BY <1>13, Zenon DEF allVars
<1>14. QED
  BY <1>1, <1>2, <1>3, <1>4, <1>5, <1>6, <1>7, <1>8, <1>9, <1>10, <1>11, <1>12, <1>13, Zenon
     DEF Next

\* The pages and services of the project, run side by side, are each what its own
\* module says: none of them reads or writes what another keeps.
LEMMA PartsApart ==
  Spec => /\ SessionSpec /\ FlowSpec /\ AssistantSpec /\ BrowseSpec /\ MerchantSpec /\ TablesSpec
          /\ SsrSpec /\ LegacySpec /\ RateSpec /\ TurnSpec /\ FirstSpec /\ PolicySpec
<1>1. Init => /\ SessionInit /\ FlowInit /\ AssistantInit /\ BrowseInit /\ MerchantInit
              /\ TableInit /\ SsrInit /\ LegacyInit /\ RateInit /\ TurnInit
              /\ FirstInit /\ PolicyInit
  BY DEF Init
<1>2. QED
  BY <1>1, StepsApart, PTL
     DEF Spec, SessionSpec, FlowSpec, AssistantSpec, BrowseSpec, MerchantSpec, TablesSpec,
         SsrSpec, LegacySpec, RateSpec, TurnSpec, FirstSpec, PolicySpec

\* Every part keeps its types, for every value of the bounds.
THEOREM StorefrontTypes == Spec => []StorefrontTypeOK
<1>1. StorefrontTypeOK <=>
        /\ SessionTypeOK /\ FlowTypeOK /\ AssistantTypeOK /\ BrowseTypeOK /\ MerchantTypeOK
        /\ TableTypeOK /\ SsrTypeOK /\ LegacyTypeOK /\ RateTypeOK /\ TurnTypeOK
        /\ FirstTypeOK /\ PolicyTypeOK
  BY DEF StorefrontTypeOK
<1>2. QED
  BY <1>1, PartsApart, SessionSafe, FlowSafe, AssistantSafe, BrowseSafe, KeyIsShown, TablesSafe,
     SsrSafe, LegacySafe, RateSafe, TurnSafe, FirstSafe, PolicySafe, PTL

\* The list of products and the merchant's tables show the answer to what they
\* now ask, however many answers of earlier questions are still to come
\* (ProductsPage.tsx and the merchant's routes of apps/web2).
THEOREM AnswersMatch == Spec => []AnswersMatchQuestions
<1>1. AnswersMatchQuestions <=> ListMatchesSearch /\ OwnRows
  BY DEF AnswersMatchQuestions
<1>2. QED
  BY <1>1, PartsApart, BrowseSafe, TablesSafe, PTL

\* Everything the run of the parts checks as an invariant or of a step, of the
\* parts together and for every value of the bounds.
THEOREM StorefrontSafe ==
  Spec => /\ [](OneSessionPerDocument /\ GuardedPagesHaveSession)
          /\ [](PaidForOnce /\ ReceivedMeansCreated)
          /\ [](OneConversation /\ AskedOnce)
          /\ []LegalQuantities
          /\ KeyStaysOpen
          /\ []OwnErrorWhenAlone
          /\ [](ShownIsSignedIn /\ TakesTurns)
          /\ []TwiceAtMost
          /\ []TurnStoredWhole
          /\ []OneRowAlone
          /\ []DeniedIffViolated
  BY PartsApart, SessionSafe, FlowSafe, AssistantSafe, BrowseSafe, KeyIsShown,
     SsrSafe, LegacySafe, RateSafe, TurnSafe, FirstSafe, PolicySafe, PTL
=============================================================================
