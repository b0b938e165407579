---------------------------- MODULE MCStorefront ----------------------------
(***************************************************************************)
(* The two storefronts, and the four parts of the backend that             *)
(* share nothing with the payments and the checkout, for TLC.  The parts   *)
(* share no state either, so that a behaviour of theirs together is one of *)
(* each, interleaved: one run follows one part at a time, whichever it     *)
(* picks at the start, and finds every state each of them has.             *)
(***************************************************************************)
EXTENDS PagesInv, ServerInv

CONSTANT Parts      \* the parts followed, among those named in Init below

VARIABLE part       \* the one this behaviour follows

allVars == <<part, sessionVars, flowVars, assistantVars, browseVars, merchantVars, tableVars,
             ssrVars, legacyVars, rateVars, turnVars, firstVars, policyVars>>

Init ==
    /\ part \in Parts
    /\ SessionInit /\ FlowInit /\ AssistantInit /\ BrowseInit /\ MerchantInit
    /\ TableInit /\ SsrInit /\ LegacyInit /\ RateInit /\ TurnInit
    /\ FirstInit /\ PolicyInit
    /\ part # "legacy" => local = 0

\* The steps of one part leave the others alone.
AloneSession(A) ==
    /\ part = "session" /\ A
    /\ UNCHANGED <<part, flowVars, assistantVars, browseVars, merchantVars, tableVars,
                   ssrVars, legacyVars, rateVars, turnVars, firstVars, policyVars>>
AloneFlow(A) ==
    /\ part = "flow" /\ A
    /\ UNCHANGED <<part, sessionVars, assistantVars, browseVars, merchantVars, tableVars,
                   ssrVars, legacyVars, rateVars, turnVars, firstVars, policyVars>>
AloneAssistant(A) ==
    /\ part = "assistant" /\ A
    /\ UNCHANGED <<part, sessionVars, flowVars, browseVars, merchantVars, tableVars,
                   ssrVars, legacyVars, rateVars, turnVars, firstVars, policyVars>>
AloneBrowse(A) ==
    /\ part = "browse" /\ A
    /\ UNCHANGED <<part, sessionVars, flowVars, assistantVars, merchantVars, tableVars,
                   ssrVars, legacyVars, rateVars, turnVars, firstVars, policyVars>>
AloneMerchant(A) ==
    /\ part = "merchant" /\ A
    /\ UNCHANGED <<part, sessionVars, flowVars, assistantVars, browseVars, tableVars,
                   ssrVars, legacyVars, rateVars, turnVars, firstVars, policyVars>>
AloneTables(A) ==
    /\ part = "tables" /\ A
    /\ UNCHANGED <<part, sessionVars, flowVars, assistantVars, browseVars, merchantVars,
                   ssrVars, legacyVars, rateVars, turnVars, firstVars, policyVars>>
AloneSsr(A) ==
    /\ part = "ssr" /\ A
    /\ UNCHANGED <<part, sessionVars, flowVars, assistantVars, browseVars, merchantVars, tableVars,
                   legacyVars, rateVars, turnVars, firstVars, policyVars>>
AloneLegacy(A) ==
    /\ part = "legacy" /\ A
    /\ UNCHANGED <<part, sessionVars, flowVars, assistantVars, browseVars, merchantVars, tableVars,
                   ssrVars, rateVars, turnVars, firstVars, policyVars>>
AloneRate(A) ==
    /\ part = "rate" /\ A
    /\ UNCHANGED <<part, sessionVars, flowVars, assistantVars, browseVars, merchantVars, tableVars,
                   ssrVars, legacyVars, turnVars, firstVars, policyVars>>
AloneTurn(A) ==
    /\ part = "turn" /\ A
    /\ UNCHANGED <<part, sessionVars, flowVars, assistantVars, browseVars, merchantVars, tableVars,
                   ssrVars, legacyVars, rateVars, firstVars, policyVars>>
AloneFirst(A) ==
    /\ part = "first" /\ A
    /\ UNCHANGED <<part, sessionVars, flowVars, assistantVars, browseVars, merchantVars, tableVars,
                   ssrVars, legacyVars, rateVars, turnVars, policyVars>>
AlonePolicy(A) ==
    /\ part = "policy" /\ A
    /\ UNCHANGED <<part, sessionVars, flowVars, assistantVars, browseVars, merchantVars, tableVars,
                   ssrVars, legacyVars, rateVars, turnVars, firstVars>>

Next ==
    \/ AloneSession(SessionNext) \/ AloneFlow(FlowNext) \/ AloneAssistant(AssistantNext)
    \/ AloneBrowse(BrowseNext) \/ AloneMerchant(MerchantNext) \/ AloneTables(TableNext)
    \/ AloneSsr(SsrNext) \/ AloneLegacy(LegacyNext)
    \/ AloneRate(RateNext) \/ AloneTurn(TurnNext)
    \/ AloneFirst(FirstNext) \/ AlonePolicy(PolicyNext)

\* That of the parts.  A part that is not followed has nothing to do: nobody
\* has asked it anything.
Fairness == SessionFairness /\ SsrFairness /\ TurnFairness

Spec == Init /\ [][Next]_allVars /\ Fairness

StorefrontTypeOK ==
    /\ SessionTypeOK /\ FlowTypeOK /\ AssistantTypeOK /\ BrowseTypeOK /\ MerchantTypeOK
    /\ TableTypeOK /\ SsrTypeOK /\ LegacyTypeOK /\ RateTypeOK /\ TurnTypeOK
    /\ FirstTypeOK /\ PolicyTypeOK

\* What a page shows is the answer to the question it now asks: the list of
\* products to its search, and a table of the merchant to its own path, with
\* answers of earlier questions still arriving.
AnswersMatchQuestions == ListMatchesSearch /\ OwnRows
=============================================================================
