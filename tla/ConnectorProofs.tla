---------------------------- MODULE ConnectorProofs ----------------------------
(***************************************************************************)
(* Proofs about the clients of the connectors, for any set of rows, any    *)
(* page size and any number of retries (Fetch), and about RevenueCat's     *)
(* sweep, for any customers, offsets and caps (Purchases).                 *)
(*                                                                         *)
(* None of the properties is inductive.                                    *)
(*   - A token: an answer of 401 is judged by the token the request was    *)
(*     sent with, so TokenInv says which tokens can still be under way.    *)
(*   - Tries: a client counts its own tries, the property counts what the  *)
(*     service did; TriesInv relates the two through a refresh.            *)
(*   - A walk: what has been given is known only to the model.  OnceInv    *)
(*     and StayInv say it by the place the client has reached, Past, which *)
(*     is a row's rank among those present where pages have numbers, and   *)
(*     its cursor where one is followed.                                   *)
(*   - The sweep: CopyInv says what a walk knows of the customers it has   *)
(*     come past, and PassInv that the next watermark is good already for  *)
(*     all who have not to be asked for any more.                          *)
(***************************************************************************)
EXTENDS Fetch, Purchases, TLAPS, FiniteSetTheorems, WellFoundedInduction

Clients ==
    {"chargebacks911", "konnektive", "intercom_search", "intercom_list",
     "intercom_pages", "intercom_scroll", "klaviyo", "meta", "stripe", "sigma",
     "singular", "revenuecat", "shiphero", "gads", "google", "rest_cursor",
     "rest_link", "rest_offset", "rest_page", "delivery"}

Tokens == {"none", "young", "old", "over", "void"}

\* The type invariant of Fetch.  A request is under way only while the walk runs.
FetchType ==
    /\ api \in Clients
    /\ present \subseteq Rows /\ stayed \subseteq present
    /\ shifts \subseteq {"in", "out"}
    /\ stage \in {"submit", "poll", "page"}
    /\ tries \in Nat /\ mintTries \in Nat /\ troubles \in Int
    /\ changes \in Nat /\ revoked \in Nat
    /\ token \in Tokens /\ used \in Tokens
    /\ number \in Nat \ {0} /\ after \in Nat
    /\ given \subseteq Rows /\ twice \subseteq given
    /\ outcome # "running" => ~sent

\* Every client has a policy.
LEMMA PolicyOfClients == DOMAIN Policy = Clients
  BY DEF Policy, Clients

\* A finite set of numbers has a greatest one.
LEMMA GreatestOfSome ==
    ASSUME NEW T, IsFiniteSet(T), T \subseteq Nat, T # {}
    PROVE  \E m \in T : \A s \in T : s <= m
  <1> DEFINE above(m) == {q \in T : m < q}
             tails == {above(m) : m \in T}
             inclusion == StrictSubsetOrdering(T)
  <1>1. IsWellFoundedOn(inclusion, SUBSET T)
    BY FS_StrictSubsetOrderingWellFounded, FS_FiniteSubsetsOfFinite
  <1>2. tails \subseteq SUBSET T /\ tails # {}
    OBVIOUS
  <1>3. \E x \in tails : \A y \in tails : ~ (<<y, x>> \in inclusion)
    <2> HIDE DEF tails, inclusion
    <2> QED
      BY <1>1, <1>2, WFMin
  <1>4. PICK m \in T : \A q \in T : ~ (<<above(q), above(m)>> \in inclusion)
    BY <1>3
  <1>5. ASSUME NEW s \in T, m < s PROVE FALSE
    <2>1. m \in Nat /\ s \in Nat
      OBVIOUS
    <2>2. ASSUME NEW q \in above(s) PROVE q \in above(m)
      <3>1. q \in T /\ s < q /\ q \in Nat
        BY <2>1
      <3> QED
        BY <1>5, <2>1, <3>1
    <2>3. s \in above(m) /\ s \notin above(s)
      BY <1>5, <2>1
    <2>4. <<above(s), above(m)>> \in inclusion
      BY <2>2, <2>3 DEF StrictSubsetOrdering
    <2> QED
      BY <1>4, <2>4
  <1> QED
    BY <1>5

\* The cursor a page leaves is its last row.
LEMMA LastOfPage ==
    ASSUME NEW page \in SUBSET Rows, page # {}
    PROVE  /\ LastOf(page) \in page
           /\ \A q \in page : q <= LastOf(page)
  <1>1. IsFiniteSet(page)
    BY FetchAssumption, FS_Subset DEF FetchAssumption
  <1>2. PICK m \in page : \A q \in page : q <= m
    BY <1>1, FetchAssumption, GreatestOfSome DEF FetchAssumption
  <1> QED BY <1>2 DEF LastOf

\* Which loop a request is in depends on the client and on what it is at.
LEMMA LoopFrame ==
    ASSUME UNCHANGED <<api, stage, minting>>
    PROVE  Loop' = Loop
  BY DEF Loop, Policy, Chargebacks911,
     Konnektive, Intercom, Klaviyo, Meta, Stripe, Sigma, SigmaDownload,
     Singular, RevenueCat, ShipHero, ShipHeroToken, GoogleAds, GoogleAdsToken,
     Google, Rest, Delivery

LEMMA LoopHasTries ==
    ASSUME api \in Clients
    PROVE  /\ Loop.tries \in Nat
           /\ api = "shiphero" /\ ~minting => Loop.tries = MaxRetries
  BY FetchAssumption DEF FetchAssumption, Clients, Loop, Policy, Chargebacks911,
     Konnektive, Intercom, Klaviyo, Meta, Stripe, Sigma, SigmaDownload,
     Singular, RevenueCat, ShipHero, ShipHeroToken, GoogleAds, GoogleAdsToken,
     Google, Rest, Delivery

\* A token is over only until the request that found it so has a new one.
TokenInv ==
    /\ token = "void" => revoked > 0
    /\ reminted /\ token = "over" => minting
    /\ api = "gads" => ~reminted
    /\ api = "gads" /\ sent /\ ~minting =>
           token # "over" /\ (used = "young" \/ token = "void")

\* ShipHero counts a refresh as a try.
Extra == IF api = "shiphero" /\ reminted THEN 1 ELSE 0

\* A try is used only for a trouble.  chargebacks911 mints before the first try,
\* and ShipHero within one.
TriesInv ==
    /\ troubles + Extra >= tries + (IF minting THEN mintTries ELSE 0)
    /\ api = "chargebacks911" /\ minting => tries = 0
    /\ api = "shiphero" /\ reminted => tries > 0

RequestInv ==
    FetchType /\ TokenInv /\ TriesInv /\ OnlyRevocationLocksOut /\ TroubleIsOutlasted

LEMMA RequestInvInit ==
    Init => RequestInv
  <1> SUFFICES ASSUME Init PROVE RequestInv
    OBVIOUS
  <1>1. api \in Clients
    BY ApisAssumption, PolicyOfClients DEF Init
  <1>2. FetchType
    BY <1>1 DEF Init, FetchType, Tokens
  <1> QED
    BY <1>2 DEF Init, RequestInv, FetchType, TokenInv, TriesInv, Extra,
       OnlyRevocationLocksOut, TroubleIsOutlasted

LEMMA LoopHasTriesNext ==
    ASSUME api' = "shiphero", ~minting'
    PROVE  Loop'.tries = MaxRetries
  BY DEF Loop, Policy, ShipHero

LEMMA PageIsOfPresent ==
    ASSUME NEW page, NEW thin, IsPage(page, thin)
    PROVE  page \subseteq present
  BY DEF IsPage, Beyond

LEMMA PollKeepsOn ==
    ASSUME NEW status \in {"done", "failed", "pending"}, Poll(status), outcome = "running",
           stage \in {"submit", "poll", "page"}
    PROVE  /\ stage' \in {"submit", "poll", "page"}
           /\ outcome' \in {"running", "jobFailed", "late"}
  <1>1. CASE MetaPoll(status)
    <2>1. CASE status = "done"
      BY <1>1, <2>1, Zenon DEF MetaPoll
    <2>2. CASE status = "failed"
      BY <1>1, <2>2, Zenon DEF MetaPoll
    <2>3. CASE status = "pending"
      BY <1>1, <2>3, Zenon DEF MetaPoll
    <2> QED BY <2>1, <2>2, <2>3
  <1>2. CASE SingularPoll(status)
    BY <1>2 DEF SingularPoll
  <1>3. CASE SigmaPoll(status)
    BY <1>3 DEF SigmaPoll
  <1> QED BY <1>1, <1>2, <1>3 DEF Poll


\* A 401 ends the call, or costs a token.
LEMMA UnauthorizedEndsOrMints ==
    ASSUME Unauthorized
    PROVE  \/ /\ api = "gads" \/ (api \in {"chargebacks911", "shiphero"} /\ reminted)
              /\ outcome' = "unauthorized" /\ ~sent'
              /\ UNCHANGED <<minting, reminted, tries>>
           \/ /\ ~reminted /\ reminted' /\ minting'
              /\ UNCHANGED <<outcome, sent>>
              /\ \/ (api = "chargebacks911" /\ tries' = 0)
                 \/ (api = "shiphero" /\ tries' = tries + 1)
  <1>1. CASE Chargebacks911Unauthorized
    BY <1>1, Zenon DEF Chargebacks911Unauthorized
  <1>2. CASE ShipHeroUnauthorized
    BY <1>2, Zenon DEF ShipHeroUnauthorized
  <1>3. CASE GoogleAdsUnauthorized
    BY <1>3, Zenon DEF GoogleAdsUnauthorized
  <1> QED BY <1>1, <1>2, <1>3 DEF Unauthorized

LEMMA FetchTypeStep ==
    ASSUME FetchType, [Next]_vars
    PROVE  FetchType'
  <1> USE FetchAssumption DEF FetchAssumption, FetchType, Tokens
  <1>1. ASSUME NEW r \in Rows, Change(r) PROVE FetchType'
    BY <1>1 DEF Change, tokenVars, walkVars, jobVars
  <1>2. CASE Age \/ Revoke
    <2>1. token' \in Tokens /\ revoked' \in Nat
      BY <1>2 DEF Age, Revoke
    <2>2. UNCHANGED <<api, collectionVars, used, reminted, minting, mintTries,
                      walkVars, jobVars, sent, tries, troubles, outcome>>
      BY <1>2 DEF Age, Revoke
    <2> QED BY <2>1, <2>2 DEF collectionVars, walkVars, jobVars
  <1>3. CASE Send \/ Deadline
    <2>1. used' \in Tokens /\ mintTries' \in Nat
      BY <1>3 DEF Send, Deadline, tokenVars
    <2>2. UNCHANGED <<api, collectionVars, token, walkVars, stage,
                      tries, troubles, revoked, outcome>>
      BY <1>3 DEF Send, Deadline, tokenVars, jobVars
    <2>3. outcome' # "running" => ~sent'
      BY <1>3 DEF Send, Deadline
    <2> QED BY <2>1, <2>2, <2>3 DEF collectionVars, walkVars
  <1>4. ASSUME NEW a \in Troubles, NEW wait \in Waits, NEW accepted \in BOOLEAN,
               NEW page, page \in (IF accepted THEN SUBSET present ELSE {{}}),
               Trouble(a, wait, accepted, page)
        PROVE FetchType'
    <2>1. tries' \in Nat /\ mintTries' \in Nat /\ troubles' \in Int
      BY <1>4 DEF Trouble
    <2>2. given' \subseteq Rows /\ twice' \subseteq given'
      BY <1>4 DEF Trouble
    <2>3. ~sent'
      BY <1>4 DEF Trouble
    <2>4. UNCHANGED <<api, collectionVars, token, used, number, after, jobVars, revoked>>
      BY <1>4 DEF Trouble
    <2> QED BY <2>1, <2>2, <2>3, <2>4 DEF collectionVars, jobVars
  <1>5. CASE Minted
    <2>1. troubles' \in Int
      BY <1>5 DEF Minted
    <2>2. outcome' # "running" => ~sent'
      BY <1>5 DEF Minted
    <2>3. token' = "young" /\ used' = "young"
          /\ UNCHANGED <<api, collectionVars, mintTries, walkVars, jobVars, tries, revoked>>
      BY <1>5 DEF Minted
    <2> QED BY <2>1, <2>2, <2>3 DEF collectionVars, walkVars, jobVars
  <1>6. CASE Unauthorized
    <2>1. tries' \in {0, tries, tries + 1} /\ mintTries' = 0
      BY <1>6, UnauthorizedEndsOrMints DEF Unauthorized
    <2>2. outcome' # "running" => ~sent'
      BY <1>6, UnauthorizedEndsOrMints
    <2>3. UNCHANGED <<api, collectionVars, token, used, walkVars, jobVars, troubles, revoked>>
      BY <1>6 DEF Unauthorized
    <2> QED BY <2>1, <2>2, <2>3 DEF collectionVars, walkVars, jobVars
  <1>7. CASE Submit
    BY <1>7 DEF Submit, Forward, collectionVars, walkVars
  <1>8. ASSUME NEW status \in {"done", "failed", "pending"}, Poll(status)
        PROVE FetchType'
    <2>1. stage' \in {"submit", "poll", "page"}
      BY <1>8, PollKeepsOn DEF Poll, Forward
    <2>2. /\ ~sent' /\ tries' = 0 /\ troubles' = 0
          /\ UNCHANGED <<api, collectionVars, token, used, mintTries, walkVars, revoked>>
      BY <1>8 DEF Poll, Forward
    <2> QED BY <2>1, <2>2 DEF collectionVars, walkVars
  <1>9. ASSUME NEW a \in Odd, Misread(a) PROVE FetchType'
    BY <1>9 DEF Misread, Forward, collectionVars, jobVars
  <1>10. ASSUME NEW page \in SUBSET present, NEW thin \in BOOLEAN,
               NEW stray \in BOOLEAN, Page(page, thin, stray)
         PROVE FetchType'
    <2>1. given' \subseteq Rows /\ twice' \subseteq given'
      BY <1>10 DEF Page
    <2>2. /\ ~sent' /\ tries' = 0 /\ troubles' = 0 /\ number' = number + 1
          /\ changes' \in Nat
          /\ UNCHANGED <<api, present, stayed, shifts, token, used, mintTries, jobVars, revoked>>
      BY <1>10 DEF Page, Forward
    <2>3. after' \in Nat
      <3>1. CASE page = {}
        BY <1>10, <3>1 DEF Page
      <3>2. CASE page # {}
        BY <1>10, <3>2, LastOfPage DEF Page
      <3> QED BY <3>1, <3>2
    <2> QED BY <2>1, <2>2, <2>3 DEF jobVars
  <1>11. CASE TokenGarbled
    BY <1>11 DEF TokenGarbled, collectionVars, walkVars, jobVars
  <1>12. CASE UNCHANGED vars
    BY <1>12 DEF vars, collectionVars, walkVars, tokenVars, jobVars
  <1> QED
    BY <1>1, <1>2, <1>3, <1>4, <1>5, <1>6, <1>7, <1>8, <1>9, <1>10, <1>11, <1>12
    DEF Next, Answer

LEMMA TokenInvStep ==
    ASSUME FetchType, TokenInv, OnlyRevocationLocksOut, [Next]_vars
    PROVE  TokenInv' /\ OnlyRevocationLocksOut'
  <1> USE DEF TokenInv, OnlyRevocationLocksOut
  <1>0. revoked \in Nat /\ token \in Tokens /\ used \in Tokens
        /\ (outcome # "running" => ~sent)
    BY DEF FetchType
  <1>1. ASSUME NEW r \in Rows, Change(r) PROVE TokenInv' /\ OnlyRevocationLocksOut'
    BY <1>1 DEF Change, tokenVars
  <1>2. CASE Age
    BY <1>0, <1>2 DEF Age
  <1>3. CASE Revoke
    BY <1>0, <1>3 DEF Revoke
  <1>4. CASE Send
    BY <1>0, <1>4 DEF Send, NeedsToken, GoogleAdsNeedsToken, Tokens
  <1>5. CASE Deadline
    BY <1>5 DEF Deadline, tokenVars
  <1>6. ASSUME NEW a \in Troubles, NEW wait \in Waits, NEW accepted \in BOOLEAN,
               NEW page, page \in (IF accepted THEN SUBSET present ELSE {{}}),
               Trouble(a, wait, accepted, page)
        PROVE TokenInv' /\ OnlyRevocationLocksOut'
    <2>1. outcome' \in {outcome, "spent", "failed"} /\ ~sent'
          /\ UNCHANGED <<api, token, used, reminted, minting, revoked>>
      BY <1>6 DEF Trouble
    <2> QED BY <2>1
  <1>7. CASE Minted
    <2>1. outcome' \in {outcome, "spent"} /\ token' = "young" /\ used' = "young"
          /\ UNCHANGED <<revoked, api, reminted>>
      BY <1>7 DEF Minted
    <2> QED BY <2>1
  <1>8. CASE Unauthorized
    <2>1. ~minting /\ token \in {"over", "void"} /\ sent
          /\ UNCHANGED <<api, token, used, revoked>>
      BY <1>8 DEF Unauthorized, Refused
    <2>2. CASE /\ api = "gads" \/ (api \in {"chargebacks911", "shiphero"} /\ reminted)
               /\ outcome' = "unauthorized" /\ ~sent'
               /\ UNCHANGED <<minting, reminted, tries>>
      <3>1. token = "void" /\ revoked' > 0
        BY <1>0, <2>1, <2>2
      <3>2. TokenInv'
        BY <2>1, <2>2, <3>1, Zenon
      <3> QED BY <3>1, <3>2
    <2>3. CASE /\ minting' /\ api \in {"chargebacks911", "shiphero"}
               /\ UNCHANGED <<outcome, sent>>
      BY <1>0, <2>1, <2>3
    <2> QED BY <2>2, <2>3, <1>8, UnauthorizedEndsOrMints
  <1>9. CASE Submit
    <2>1. ~sent' /\ ~reminted' /\ UNCHANGED <<api, token, used, minting, revoked, outcome>>
      BY <1>9 DEF Submit, Forward
    <2> QED BY <2>1
  <1>10. ASSUME NEW status \in {"done", "failed", "pending"}, Poll(status)
         PROVE TokenInv' /\ OnlyRevocationLocksOut'
    <2>1. ~sent' /\ ~reminted' /\ UNCHANGED <<api, token, used, minting, revoked>>
      BY <1>10 DEF Poll, Forward
    <2>2. outcome' \in {"running", "jobFailed", "late"}
      BY <1>0, <1>10, PollKeepsOn DEF Poll, Forward, FetchType
    <2> QED BY <2>1, <2>2
  <1>11. ASSUME NEW a \in Odd, Misread(a) PROVE TokenInv' /\ OnlyRevocationLocksOut'
    BY <1>0, <1>11 DEF Misread, Forward
  <1>12. ASSUME NEW page \in SUBSET present, NEW thin \in BOOLEAN,
                NEW stray \in BOOLEAN, Page(page, thin, stray)
         PROVE TokenInv' /\ OnlyRevocationLocksOut'
    <2>1. outcome' \in {outcome, "complete"} /\ ~sent'
          /\ ~reminted' /\ UNCHANGED <<api, token, used, minting, revoked>>
      BY <1>12 DEF Page, Forward
    <2> QED BY <1>0, <2>1
  <1>13. CASE TokenGarbled
    <2>1. outcome' \in {outcome, "spent"} /\ ~sent' /\ api = "gads"
          /\ UNCHANGED <<api, token, used, reminted, revoked>>
      BY <1>13 DEF TokenGarbled
    <2> QED BY <2>1
  <1>14. CASE UNCHANGED vars
    BY <1>14 DEF vars, tokenVars
  <1> QED
    BY <1>1, <1>2, <1>3, <1>4, <1>5, <1>6, <1>7, <1>8, <1>9, <1>10, <1>11, <1>12, <1>13, <1>14
    DEF Next, Answer

LEMMA TriesInvStep ==
    ASSUME FetchType, TriesInv, TroubleIsOutlasted, [Next]_vars
    PROVE  TriesInv' /\ TroubleIsOutlasted'
  <1> USE DEF TriesInv, TroubleIsOutlasted, Extra
  <1>0. /\ tries \in Nat /\ mintTries \in Nat /\ troubles \in Int
        /\ api \in Clients /\ (outcome # "running" => ~sent)
    BY DEF FetchType
  <1>1. ASSUME NEW r \in Rows, Change(r) PROVE TriesInv' /\ TroubleIsOutlasted'
    BY <1>1, LoopFrame DEF Change, tokenVars, jobVars
  <1>2. CASE Age
    BY <1>2, LoopFrame DEF Age, jobVars
  <1>3. CASE Revoke
    BY <1>3, LoopFrame DEF Revoke, jobVars
  <1>4. CASE Send
    BY <1>0, <1>4 DEF Send, NeedsToken, Chargebacks911NeedsToken,
       ShipHeroNeedsToken, GoogleAdsNeedsToken
  <1>5. CASE Deadline
    BY <1>5, LoopFrame DEF Deadline, tokenVars
  <1>6. ASSUME NEW a \in Troubles, NEW wait \in Waits, NEW accepted \in BOOLEAN,
               NEW page, page \in (IF accepted THEN SUBSET present ELSE {{}}),
               Trouble(a, wait, accepted, page)
        PROVE TriesInv' /\ TroubleIsOutlasted'
    <2>1. Loop'.tries = Loop.tries /\ Loop.tries \in Nat
      BY <1>0, <1>6, LoopHasTries, LoopFrame DEF Trouble, jobVars
    <2>2. troubles' = troubles + 1 /\ UNCHANGED <<api, reminted, minting>>
      BY <1>6 DEF Trouble
    <2>3. CASE Again(a, wait) /\ Tried + 1 < Loop.tries
      <3>1. outcome' = "running" /\ tries' = (IF minting THEN tries ELSE tries + 1)
            /\ mintTries' = (IF minting THEN mintTries + 1 ELSE mintTries)
        BY <1>0, <1>6, <2>3 DEF Trouble
      <3> QED BY <1>0, <2>2, <3>1
    <2>4. CASE ~(Again(a, wait) /\ Tried + 1 < Loop.tries)
      <3>1. UNCHANGED <<tries, mintTries>>
            /\ outcome' = (IF Again(a, wait) THEN "spent" ELSE "failed")
        BY <1>6, <2>4 DEF Trouble
      <3>2. outcome' = "spent" => Tried + 1 >= Loop.tries
        BY <1>0, <2>1, <2>4, <3>1 DEF Tried
      <3> QED BY <1>0, <2>1, <2>2, <3>1, <3>2 DEF Tried
    <2> QED BY <2>3, <2>4
  <1>7. CASE Minted
    <2>1. minting /\ sent /\ ~minting' /\ UNCHANGED <<api, reminted, mintTries, tries>>
          /\ troubles' = (IF api = "chargebacks911" THEN 0 ELSE troubles - mintTries)
      BY <1>7 DEF Minted
    <2>2. TriesInv'
      BY <1>0, <2>1
    <2>3. outcome' = "spent" => api = "shiphero" /\ tries >= MaxRetries
      BY <1>0, <2>1, <1>7 DEF Minted, ShipHero
    <2>4. api' = "shiphero" /\ ~minting' => Loop'.tries = MaxRetries
      BY <1>0, <2>1, LoopHasTriesNext
    <2> QED BY <1>0, <2>1, <2>2, <2>3, <2>4, FetchAssumption DEF FetchAssumption
  <1>8. CASE Unauthorized
    <2>1. ~minting /\ mintTries' = 0 /\ sent /\ UNCHANGED <<api, troubles>>
      BY <1>8 DEF Unauthorized, Refused
    <2>2. outcome' # "spent"
      BY <1>0, <2>1, <1>8, UnauthorizedEndsOrMints
    <2>3. CASE ~minting' /\ reminted' = reminted /\ tries' = tries
      BY <1>0, <2>1, <2>2, <2>3
    <2>4. CASE /\ ~reminted /\ reminted' /\ minting'
               /\ \/ (api = "chargebacks911" /\ tries' = 0)
                  \/ (api = "shiphero" /\ tries' = tries + 1)
      BY <1>0, <2>1, <2>2, <2>4
    <2> QED BY <2>1, <2>3, <2>4, <1>8, UnauthorizedEndsOrMints
  <1>9. CASE Submit
    BY <1>0, <1>9 DEF Submit, Forward
  <1>10. ASSUME NEW status \in {"done", "failed", "pending"}, Poll(status)
         PROVE TriesInv' /\ TroubleIsOutlasted'
    <2>1. outcome' # "spent"
      BY <1>0, <1>10, PollKeepsOn DEF Poll, Forward, FetchType
    <2>2. tries' = 0 /\ troubles' = 0 /\ ~reminted' /\ ~minting /\ minting' = minting
      BY <1>10 DEF Poll, Forward
    <2> QED BY <2>1, <2>2
  <1>11. ASSUME NEW a \in Odd, Misread(a) PROVE TriesInv' /\ TroubleIsOutlasted'
    BY <1>0, <1>11 DEF Misread, Forward
  <1>12. ASSUME NEW page \in SUBSET present, NEW thin \in BOOLEAN,
                NEW stray \in BOOLEAN, Page(page, thin, stray)
         PROVE TriesInv' /\ TroubleIsOutlasted'
    <2>1. outcome' \in {"running", "complete"} /\ tries' = 0 /\ troubles' = 0
          /\ ~reminted' /\ ~minting /\ minting' = minting
      BY <1>0, <1>12 DEF Page, Forward
    <2> QED BY <2>1
  <1>13. CASE TokenGarbled
    <2>1. /\ api = "gads" /\ minting /\ ~minting' /\ api' = api
          /\ reminted' = reminted /\ troubles' = troubles + 1 /\ mintTries' = 0
      BY <1>13 DEF TokenGarbled
    <2>2. Loop'.tries = GoogleAds.tries /\ GoogleAds.tries \in Nat
      BY <2>1, FetchAssumption DEF Loop, Policy, GoogleAds, FetchAssumption
    <2>3. CASE tries + 1 < GoogleAds.tries
      <3>1. tries' = tries + 1 /\ outcome' # "spent"
        BY <1>0, <1>13, <2>3 DEF TokenGarbled
      <3> QED BY <1>0, <2>1, <3>1
    <2>4. CASE ~(tries + 1 < GoogleAds.tries)
      <3>1. tries' = tries
        BY <1>13, <2>4 DEF TokenGarbled
      <3> QED BY <1>0, <2>1, <2>2, <2>4, <3>1
    <2> QED BY <2>3, <2>4
  <1>14. CASE UNCHANGED vars
    BY <1>14, LoopFrame DEF vars, tokenVars, jobVars
  <1> QED
    BY <1>1, <1>2, <1>3, <1>4, <1>5, <1>6, <1>7, <1>8, <1>9, <1>10, <1>11, <1>12, <1>13, <1>14
    DEF Next, Answer

\* For every client and every way its token can expire, while a request is under
\* way too: a walk ends for want of authorization only after a token was voided
\* before its time.
THEOREM TokensOutlastWalks ==
    Spec => []OnlyRevocationLocksOut
  <1>1. Init => FetchType /\ TokenInv /\ OnlyRevocationLocksOut
    BY RequestInvInit DEF RequestInv
  <1>2. FetchType /\ TokenInv /\ OnlyRevocationLocksOut /\ [Next]_vars
            => (FetchType /\ TokenInv /\ OnlyRevocationLocksOut)'
    BY FetchTypeStep, TokenInvStep
  <1> QED BY <1>1, <1>2, PTL DEF Spec

\* For any max_retries: a client that gives up for want of tries has met as many
\* troubles in a row that it tries again (the `again` of its loop, without the
\* Retry-After headers that end the call).  Other answers end it at once.
THEOREM TriesAreUsed ==
    Spec => []TroubleIsOutlasted
  <1>1. Init => FetchType /\ TriesInv /\ TroubleIsOutlasted
    BY RequestInvInit DEF RequestInv
  <1>2. FetchType /\ TriesInv /\ TroubleIsOutlasted /\ [Next]_vars
            => (FetchType /\ TriesInv /\ TroubleIsOutlasted)'
    BY FetchTypeStep, TriesInvStep
  <1> QED BY <1>1, <1>2, PTL DEF Spec

-----------------------------------------------------------------------------
(* Numbers of pages.                                                       *)

LEMMA TimesMonotone ==
    ASSUME NEW a \in Nat, NEW b \in Nat, a <= b, NEW P \in Nat
    PROVE  a * P \in Nat /\ b * P \in Nat /\ a * P <= b * P
  <1>1. (b - a)*P >= 0 OBVIOUS
  <1>2. (b-a)*P = b*P - a*P OBVIOUS
  <1> QED BY <1>1, <1>2
LEMMA DivIs ==
    ASSUME NEW x \in Nat, NEW P \in Nat \ {0}, NEW m \in Nat
    PROVE  (x \div P = m) <=> (m*P <= x /\ x < (m + 1)*P)
  <1> DEFINE d == x \div P
  <1>0. P \in Int /\ P > 0 /\ x \in Int
    OBVIOUS
  <1>1. d \in Int /\ d >= 0
    BY <1>0
  <1>2. d*P \in Int /\ d*P <= x /\ x < d*P + P
    BY <1>0
  <1>3. (d+1)*P = d*P + P /\ (m+1)*P = m*P + P
    BY <1>1
  <1> HIDE DEF d
  <1>4. CASE d < m
    <2>1. (d+1)*P <= m*P
      BY <1>1, <1>4, TimesMonotone
    <2>2. m*P \in Nat
      BY TimesMonotone
    <2> QED BY <1>1, <1>2, <1>3, <1>4, <2>1, <2>2 DEF d
  <1>5. CASE m < d
    <2>1. (m+1)*P <= d*P
      BY <1>1, <1>5, TimesMonotone
    <2>2. m*P \in Nat
      BY TimesMonotone
    <2> QED BY <1>1, <1>2, <1>3, <1>5, <2>1, <2>2 DEF d
  <1>6. CASE m = d
    BY <1>2, <1>3, <1>6 DEF d
  <1> QED BY <1>1, <1>4, <1>5, <1>6

\* The place of a row among the rows of a collection.
RankIn(S, r) == Cardinality({q \in S : q <= r})

LEMMA RankBounds ==
    ASSUME NEW S, IsFiniteSet(S), S \subseteq Nat, NEW r \in S
    PROVE  /\ RankIn(S, r) \in Nat \ {0} /\ Cardinality(S) \in Nat
           /\ RankIn(S, r) <= Cardinality(S)
  <1> DEFINE lower == {q \in S : q <= r}
  <1>1. lower \in SUBSET S
    OBVIOUS
  <1>2. /\ IsFiniteSet(lower) /\ Cardinality(lower) <= Cardinality(S)
        /\ Cardinality(lower) \in Nat /\ Cardinality(S) \in Nat
    BY <1>1, FS_Subset, FS_CardinalityType
  <1>3. Cardinality(lower) # 0
    <2>1. r \in lower
      OBVIOUS
    <2> QED BY <1>2, <2>1, FS_EmptySet
  <1> HIDE DEF lower
  <1>4. RankIn(S, r) = Cardinality(lower)
    BY DEF RankIn, lower
  <1> QED BY <1>2, <1>3, <1>4

\* Rows that leave a collection do not raise the rank of others.
LEMMA RankShrinks ==
    ASSUME NEW S, IsFiniteSet(S), NEW T \in SUBSET S, NEW r
    PROVE  RankIn(T, r) <= RankIn(S, r)
  <1> DEFINE of(U) == {q \in U : q <= r}
  <1>1. IsFiniteSet(of(S)) /\ of(T) \in SUBSET of(S)
    BY FS_Subset
  <1> QED BY <1>1, FS_Subset DEF RankIn

LEMMA RankOrders ==
    ASSUME NEW S, IsFiniteSet(S), S \subseteq Nat, NEW r \in S, NEW q \in S, r < q
    PROVE  RankIn(S, r) < RankIn(S, q)
  <1> DEFINE of(x) == {y \in S : y <= x}
  <1>1. r \in Nat /\ q \in Nat
    OBVIOUS
  <1>2. of(r) \in SUBSET of(q)
    <2> SUFFICES ASSUME NEW y \in S, y <= r PROVE y <= q
      OBVIOUS
    <2>1. y \in Nat
      OBVIOUS
    <2> QED BY <1>1, <2>1
  <1>3. q \in of(q) /\ q \notin of(r)
    BY <1>1
  <1>4. IsFiniteSet(of(q))
    BY FS_Subset
  <1> HIDE DEF of
  <1>5. Cardinality(of(r)) <= Cardinality(of(q)) /\ Cardinality(of(r)) # Cardinality(of(q))
        /\ IsFiniteSet(of(r))
    BY <1>2, <1>3, <1>4, FS_Subset
  <1>6. Cardinality(of(r)) \in Nat /\ Cardinality(of(q)) \in Nat
    BY <1>4, <1>5, FS_CardinalityType
  <1>7. Cardinality(of(r)) < Cardinality(of(q))
    BY <1>5, <1>6
  <1> QED BY <1>7 DEF RankIn, of

\* Every rank is some row's.
LEMMA RankIsTaken ==
    ASSUME NEW S, IsFiniteSet(S), S \subseteq Nat, NEW k \in 1 .. Cardinality(S)
    PROVE  \E r \in S : RankIn(S, r) = k
  <1> DEFINE n == Cardinality(S)
             f == [r \in S |-> RankIn(S, r)]
             T == (1 .. n) \ {k}
  <1>1. n \in Nat
    BY FS_CardinalityType
  <1> SUFFICES ASSUME \A r \in S : RankIn(S, r) # k PROVE FALSE
    OBVIOUS
  <1>2. f \in [S -> T]
    <2> SUFFICES ASSUME NEW r \in S PROVE RankIn(S, r) \in T
      OBVIOUS
    <2>1. RankIn(S, r) \in Nat \ {0}
      BY RankBounds
    <2>2. RankIn(S, r) <= n
      BY RankBounds
    <2> QED BY <1>1, <2>1, <2>2
  <1>3. IsFiniteSet(T) /\ Cardinality(T) < n
    <2>1. IsFiniteSet(1 .. n) /\ Cardinality(1 .. n) = n
      BY <1>1, FS_Interval
    <2>2. IsFiniteSet(T) /\ Cardinality(T) = n - 1
      BY <2>1, FS_RemoveElement
    <2> QED BY <1>1, <2>2
  <1>4. PICK x, y \in S : x # y /\ f[x] = f[y]
    <2> HIDE DEF f, T
    <2> QED BY <1>2, <1>3, FS_PigeonHole
  <1>5. x \in Nat /\ y \in Nat /\ RankIn(S, x) = RankIn(S, y)
    BY <1>4
  <1>6. RankIn(S, x) \in Nat \ {0}
    BY RankBounds
  <1>7. CASE x < y
    <2>1. RankIn(S, x) < RankIn(S, y)
      BY <1>7, RankOrders
    <2> QED BY <1>5, <1>6, <2>1
  <1>8. CASE y < x
    <2>1. RankIn(S, y) < RankIn(S, x)
      BY <1>8, RankOrders
    <2> QED BY <1>5, <1>6, <2>1
  <1> QED BY <1>4, <1>5, <1>7, <1>8

\* The rows of the nth page.
Slice(S, n) == {r \in S : (RankIn(S, r) - 1) \div PageSize = n - 1}

LEMMA SliceRanks ==
    ASSUME NEW S, IsFiniteSet(S), S \subseteq Nat, NEW n \in Nat \ {0}, NEW r \in S
    PROVE  /\ (n - 1) * PageSize \in Nat /\ n * PageSize \in Nat
           /\ n * PageSize = (n - 1) * PageSize + PageSize
           /\ r \in Slice(S, n) <=>
                  (n - 1) * PageSize < RankIn(S, r) /\ RankIn(S, r) <= n * PageSize
  <1> DEFINE x == RankIn(S, r) - 1
             m == n - 1
  <1>1. PageSize \in Nat \ {0} /\ m \in Nat /\ n \in Nat /\ n = m + 1
    BY FetchAssumption DEF FetchAssumption
  <1>2. x \in Nat /\ RankIn(S, r) = x + 1
    <2>1. RankIn(S, r) \in Nat \ {0}
      BY RankBounds
    <2> QED BY <2>1
  <1>3. m * PageSize \in Nat /\ n * PageSize \in Nat
    BY <1>1, TimesMonotone
  <1>4. n * PageSize = m * PageSize + PageSize
    BY <1>1
  <1> HIDE DEF x, m
  <1>5. (x \div PageSize = m) <=> (m * PageSize <= x /\ x < (m + 1) * PageSize)
    BY <1>1, <1>2, DivIs
  <1>6. (x \div PageSize = m) <=> (m * PageSize < x + 1 /\ x + 1 <= n * PageSize)
    BY <1>1, <1>2, <1>3, <1>5
  <1>7. r \in Slice(S, n) <=> (x \div PageSize = m)
    BY DEF Slice, x, m
  <1> QED BY <1>2, <1>3, <1>4, <1>6, <1>7 DEF m

\* A page that is not full is the last.
LEMMA ShortSliceIsLast ==
    ASSUME NEW S, IsFiniteSet(S), S \subseteq Nat, NEW n \in Nat \ {0},
           Cardinality(Slice(S, n)) < PageSize
    PROVE  Cardinality(S) < n * PageSize
  <1> DEFINE base == (n - 1) * PageSize
             pick(k) == CHOOSE r \in S : RankIn(S, r) = base + k
             f == [k \in 1 .. PageSize |-> pick(k)]
  <1>1. PageSize \in Nat \ {0} /\ Cardinality(S) \in Nat
    BY FetchAssumption, FS_CardinalityType DEF FetchAssumption
  <1>2. base \in Nat /\ n * PageSize = base + PageSize /\ n * PageSize \in Nat
    <2>1. n - 1 \in Nat /\ n \in Nat
      OBVIOUS
    <2>2. base \in Nat /\ n * PageSize \in Nat
      BY <1>1, <2>1, TimesMonotone
    <2> QED BY <1>1, <2>1, <2>2
  <1> HIDE DEF base
  <1> SUFFICES ASSUME n * PageSize <= Cardinality(S) PROVE FALSE
    BY <1>1, <1>2
  <1>3. ASSUME NEW k \in 1 .. PageSize
        PROVE pick(k) \in S /\ RankIn(S, pick(k)) = base + k
    <2>1. base + k \in 1 .. Cardinality(S)
      BY <1>1, <1>2
    <2>2. \E r \in S : RankIn(S, r) = base + k
      BY <2>1, RankIsTaken
    <2> QED BY <2>2
  <1>4. ASSUME NEW k \in 1 .. PageSize PROVE pick(k) \in Slice(S, n)
    <2> DEFINE r == pick(k)
    <2>1. r \in S /\ RankIn(S, r) = base + k
      BY <1>3
    <2> HIDE DEF r
    <2>2. base < RankIn(S, r) /\ RankIn(S, r) <= n * PageSize
      BY <1>1, <1>2, <2>1
    <2>3. r \in Slice(S, n)
      BY <2>1, <2>2, SliceRanks DEF base
    <2> QED BY <2>3 DEF r
  <1>5. \A k, j \in 1 .. PageSize : pick(k) = pick(j) => k = j
    BY <1>2, <1>3
  <1>6. f \in Injection(1 .. PageSize, Slice(S, n))
    <2> HIDE DEF pick
    <2> QED BY <1>4, <1>5 DEF Injection, IsInjective
  <1>7. IsFiniteSet(Slice(S, n))
    BY FS_Subset DEF Slice
  <1>8. Cardinality(1 .. PageSize) <= Cardinality(Slice(S, n))
    <2> HIDE DEF f
    <2> QED BY <1>6, <1>7, FS_Injection
  <1>9. Cardinality(1 .. PageSize) = PageSize
    BY <1>1, FS_Interval
  <1>10. Cardinality(Slice(S, n)) \in Nat
    BY <1>7, FS_CardinalityType
  <1> QED BY <1>1, <1>8, <1>9, <1>10

-----------------------------------------------------------------------------
(* Walks.                                                                   *)

\* The clients whose pages have numbers.
ByRank == Counted \cup {"delivery"}

\* The walk is past a row, as the connector knows it.
Past(r) ==
    IF api \in ByRank THEN Rank(r) <= (number - 1) * PageSize ELSE r <= after

\* Nothing ahead of the walk has been given: no row will be given twice.
OnceInv ==
    /\ api \in Whole => (outcome = "running" => given = {})
    /\ (api \notin Whole \cup {"delivery"} /\ ~(api \in Counted /\ "in" \in shifts)) =>
           \A r \in given : (api \in Counted => r \in present) => Past(r)

\* Every row behind the walk that was there all along has been given.
StayInv ==
    /\ api = "delivery" => shifts = {}
    /\ (api \notin Whole /\ ~(api \in Counted /\ "out" \in shifts)) =>
           \A r \in stayed : Past(r) => r \in given

WalkInv == FetchType /\ OnceInv /\ NothingTwice /\ StayInv /\ StayersAreGiven

\* What the walk knows does not change unless a page comes or a row goes.
LEMMA WalkInvFrame ==
    ASSUME WalkInv, FetchType',
           UNCHANGED <<api, present, stayed, shifts, number, after, given, twice, misled>>,
           \/ outcome' = outcome
           \/ outcome = "running" /\ (outcome' # "complete" \/ misled')
    PROVE  WalkInv'
  <1>1. \A r : Past(r)' <=> Past(r)
    BY DEF Past, Rank
  <1>2. OnceInv' /\ StayInv'
    BY <1>1 DEF WalkInv, OnceInv, StayInv
  <1> QED BY <1>2 DEF WalkInv, NothingTwice, StayersAreGiven

LEMMA WalkInvChange ==
    ASSUME WalkInv, FetchType', NEW r \in Rows, Change(r)
    PROVE  WalkInv'
  <1> DEFINE base == (number - 1) * PageSize
  <1>0. /\ outcome = "running" /\ outcome' = "running" /\ api # "delivery"
        /\ UNCHANGED <<api, number, after, given, twice, misled>>
        /\ stayed' = stayed \ {r} /\ stayed \subseteq present
        /\ present' = (IF r \in present THEN present \ {r} ELSE present \cup {r})
        /\ shifts' = shifts \cup {IF r \in present THEN "out" ELSE "in"}
    BY DEF Change, walkVars, WalkInv, FetchType
  <1>1. /\ IsFiniteSet(present) /\ IsFiniteSet(present')
        /\ present \subseteq Nat /\ present' \subseteq Nat
    BY FetchAssumption, FS_Subset DEF FetchAssumption, WalkInv, FetchType
  <1>2. base \in Nat
    BY FetchAssumption, TimesMonotone DEF FetchAssumption, WalkInv, FetchType
  <1>3. OnceInv'
    <2>1. ASSUME api \in Counted, "in" \notin shifts', NEW g \in given, g \in present'
          PROVE  Past(g)'
      <3>1. r \in present /\ present' \in SUBSET present
        BY <1>0, <2>1
      <3>2. g \in present /\ RankIn(present, g) <= base
        BY <1>0, <2>1, <3>1 DEF WalkInv, OnceInv, Past, ByRank, Rank, RankIn, Whole, Counted
      <3>3. RankIn(present', g) <= RankIn(present, g)
        BY <1>1, <3>1, RankShrinks
      <3>4. RankIn(present', g) \in Nat /\ RankIn(present, g) \in Nat
        BY <1>1, <2>1, <3>2, RankBounds
      <3>5. RankIn(present', g) <= base
        BY <1>2, <3>2, <3>3, <3>4
      <3> QED BY <1>0, <2>1, <3>5 DEF Past, ByRank, Rank, RankIn
    <2>2. ASSUME api \notin Whole \cup Counted, NEW g \in given
          PROVE  Past(g)'
      BY <1>0, <2>2 DEF WalkInv, OnceInv, Past, ByRank
    <2> QED BY <1>0, <2>1, <2>2 DEF WalkInv, OnceInv
  <1>4. StayInv'
    <2>1. ASSUME api \in Counted, "out" \notin shifts', NEW s \in stayed', Past(s)'
          PROVE  s \in given
      <3>1. r \notin present /\ present \in SUBSET present'
        BY <1>0, <2>1
      <3>2. s \in present /\ s \in present' /\ s \in stayed
        BY <1>0
      <3>3. RankIn(present', s) <= base
        BY <1>0, <2>1 DEF Past, ByRank, Rank, RankIn
      <3>4. RankIn(present, s) <= RankIn(present', s)
        BY <1>1, <3>1, RankShrinks
      <3>5. RankIn(present', s) \in Nat /\ RankIn(present, s) \in Nat
        BY <1>1, <3>2, RankBounds
      <3>6. RankIn(present, s) <= base
        BY <1>2, <3>3, <3>4, <3>5
      <3>7. Past(s)
        BY <2>1, <3>6 DEF Past, ByRank, Rank, RankIn
      <3> QED BY <1>0, <2>1, <3>2, <3>7 DEF WalkInv, StayInv, Whole, Counted
    <2>2. ASSUME api \notin Whole \cup Counted, NEW s \in stayed', Past(s)'
          PROVE  s \in given
      BY <1>0, <2>2 DEF WalkInv, StayInv, Past, ByRank
    <2> QED BY <1>0, <2>1, <2>2 DEF StayInv
  <1> QED
    BY <1>0, <1>3, <1>4 DEF WalkInv, NothingTwice, StayersAreGiven

\* What a page does to the walk.
LEMMA PageTaken ==
    ASSUME FetchType, NEW page \in SUBSET present, NEW thin, NEW stray,
           Page(page, thin, stray)
    PROVE  /\ outcome = "running"
           /\ Ends(page) => outcome' = "complete"
           /\ outcome' = "complete" => Ends(page) \/ misled'
           /\ given' = given \cup page /\ twice' = twice \cup (given \cap page)
           /\ number' = number + 1
           /\ after' = (IF page = {} THEN after ELSE LastOf(page))
           /\ UNCHANGED <<api, present, stayed, shifts>>
  BY DEF Page, Forward, FetchType

LEMMA WalkInvWholePage ==
    ASSUME WalkInv, FetchType', NEW page \in SUBSET present, NEW thin, NEW stray,
           Page(page, thin, stray),
           api \in Whole
    PROVE  WalkInv'
  <1>1. page = present
    BY DEF Page, IsPage, Whole, Counted
  <1>2. Ends(page)
    BY DEF Ends
  <1>3. FetchType
    BY DEF WalkInv
  <1>4. given = {} /\ api \notin Counted \cup {"delivery"}
    BY <1>3, PageTaken DEF WalkInv, OnceInv, Whole, Counted
  <1>5. OnceInv' /\ StayInv'
    BY <1>2, <1>3, <1>4, PageTaken DEF OnceInv, StayInv
  <1>6. NothingTwice' /\ StayersAreGiven'
    BY <1>1, <1>2, <1>3, <1>4, PageTaken
    DEF WalkInv, FetchType, NothingTwice, StayersAreGiven
  <1> QED BY <1>5, <1>6 DEF WalkInv

\* Behind a token, a page that ends the walk leaves nothing beyond it.
LEMMA FollowedToTheEnd ==
    ASSUME FetchType, api \notin Whole \cup ByRank, NEW page, NEW thin, thin \in BOOLEAN,
           IsPage(page, thin), Ends(page)
    PROVE  Beyond \subseteq page
  <1>1. Beyond \subseteq page \/ page = {}
    BY DEF Ends, ByRank, Counted, Whole, HasNext, IntercomSearchEnds, IntercomListEnds,
       IntercomScrollEnds, KlaviyoEnds, StripeEnds, MetaEnds, RevenueCatEnds,
       ShipHeroEnds, DriveEnds, RestCursorEnds, RestLinkEnds
  <1>2. CASE page = {}
    <2>1. Cardinality(page) < PageSize
      BY <1>2, FS_EmptySet, FetchAssumption DEF FetchAssumption
    <2>2. thin <=> page # Beyond
      BY <2>1 DEF IsPage, ByRank
    <2>3. thin => api \in {"klaviyo", "meta", "revenuecat", "shiphero", "google",
                           "rest_cursor", "rest_link"}
      BY <1>2 DEF IsPage, ByRank
    <2>4. CASE api \in {"klaviyo", "meta", "revenuecat", "shiphero", "google",
                        "rest_cursor", "rest_link"}
      BY <2>4 DEF Ends, ByRank, Counted, Whole, HasNext, KlaviyoEnds, MetaEnds,
         RevenueCatEnds, ShipHeroEnds, DriveEnds, RestCursorEnds, RestLinkEnds
    <2> QED BY <2>2, <2>3, <2>4
  <1> QED BY <1>1, <1>2

LEMMA WalkInvFollowedPage ==
    ASSUME WalkInv, FetchType', NEW page \in SUBSET present, NEW thin \in BOOLEAN, NEW stray,
           Page(page, thin, stray), api \notin Whole \cup ByRank
    PROVE  WalkInv'
  <1>0. FetchType /\ page \in SUBSET Rows /\ IsPage(page, thin)
    BY DEF WalkInv, FetchType, Page
  <1>1. page \subseteq Beyond /\ \A r \in page, q \in Beyond \ page : r < q
    BY <1>0 DEF IsPage, ByRank
  <1>2. /\ after \in Nat /\ after' \in Nat /\ Rows \subseteq Nat
        /\ given \subseteq Nat /\ page \subseteq Nat /\ stayed \subseteq Nat
    BY <1>0, FetchAssumption DEF FetchType, FetchAssumption
  <1>10. /\ given' = given \cup page /\ UNCHANGED stayed
        /\ after' = (IF page = {} THEN after ELSE LastOf(page))
    BY <1>0, PageTaken
  <1>3. after <= after' /\ \A r \in page : r <= after'
    <2>1. CASE page = {}
      BY <1>2, <1>10, <2>1
    <2>2. CASE page # {}
      <3>1. LastOf(page) \in page /\ \A q \in page : q <= LastOf(page)
        BY <1>0, <2>2, LastOfPage
      <3>2. after' = LastOf(page)
        BY <1>0, <2>2, PageTaken
      <3> QED BY <1>1, <1>2, <3>1, <3>2 DEF Beyond
    <2> QED BY <2>1, <2>2
  <1>4. \A r \in given : r <= after
    BY DEF WalkInv, OnceInv, Past, ByRank
  <1>5. given \cap page = {}
    BY <1>1, <1>2, <1>4 DEF Beyond
  <1>6. OnceInv'
    <2>1. ASSUME NEW r \in given' PROVE r <= after'
      <3>1. CASE r \in given
        <4>1. r \in Nat
          BY <1>2, <3>1, <1>0 DEF FetchType
        <4> QED BY <1>2, <1>3, <1>4, <3>1, <4>1
      <3>2. CASE r \in page
        BY <1>3, <3>2
      <3> QED BY <1>10, <2>1, <3>1, <3>2
    <2> QED BY <1>0, <2>1, PageTaken DEF OnceInv, Past, ByRank
  <1>7. ASSUME NEW s \in stayed, s <= after' PROVE s \in given'
    <2>1. s \in present /\ s \in Nat
      BY <1>0, <1>2 DEF FetchType
    <2>2. CASE s <= after
      BY <1>0, <2>2, PageTaken DEF WalkInv, StayInv, Past, ByRank
    <2>3. CASE s > after /\ s \notin page
      <3>1. s \in Beyond \ page
        BY <2>1, <2>3 DEF Beyond
      <3>2. page # {}
        BY <1>2, <1>7, <1>10, <2>1, <2>3
      <3>3. LastOf(page) \in page /\ after' = LastOf(page)
        BY <1>0, <3>2, LastOfPage, PageTaken
      <3>4. after' < s
        BY <1>1, <3>1, <3>3
      <3> QED BY <1>2, <1>7, <2>1, <3>4
    <2> QED BY <1>2, <1>10, <2>1, <2>2, <2>3
  <1>8. StayInv'
    BY <1>0, <1>7, PageTaken DEF WalkInv, StayInv, Past, ByRank
  <1>9. StayersAreGiven'
    <2> SUFFICES ASSUME outcome' = "complete", ~misled' PROVE stayed' \subseteq given'
      BY DEF StayersAreGiven
    <2>1. Ends(page)
      BY <1>0, PageTaken
    <2>2. Beyond \subseteq page
      BY <1>0, <2>1, FollowedToTheEnd
    <2>3. ASSUME NEW s \in stayed PROVE s \in given'
      <3>1. s \in present /\ s \in Nat
        BY <1>0, <1>2 DEF FetchType
      <3>2. CASE s \in page
        BY <1>10, <3>2
      <3>3. CASE s <= after
        BY <1>2, <1>3, <1>7, <3>1, <3>3
      <3> QED BY <1>2, <2>2, <3>1, <3>2, <3>3 DEF Beyond
    <2> QED BY <1>0, <2>3, PageTaken
  <1> QED
    BY <1>0, <1>5, <1>6, <1>8, <1>9, PageTaken DEF WalkInv, NothingTwice

\* Where pages have numbers, the last one is short, or the total is reached.
LEMMA CountedToTheEnd ==
    ASSUME FetchType, api \in ByRank, NEW page, NEW thin, IsPage(page, thin), Ends(page)
    PROVE  Cardinality(present) <= number * PageSize
  <1>1. /\ IsFiniteSet(present) /\ present \subseteq Nat /\ number \in Nat \ {0}
        /\ PageSize \in Nat \ {0}
    BY FetchAssumption, FS_Subset DEF FetchAssumption, FetchType
  <1>2. page = Slice(present, number)
    BY DEF IsPage, ByRank, Whole, Counted, Slice, Rank, RankIn
  <1>3. Cardinality(present) \in Nat /\ number * PageSize \in Nat
    BY <1>1, FS_CardinalityType, TimesMonotone
  <1>4. \/ Cardinality(page) < PageSize \/ page = {}
        \/ number * PageSize >= Cardinality(present)
        \/ ~(number * PageSize < Cardinality(present))
    BY DEF Ends, ByRank, Counted, Whole, ShortPage, RestPageEnds, KonnektiveEnds,
       IntercomPagesEnd, HasNext, DeliveryEnds
  <1>5. CASE Cardinality(page) < PageSize \/ page = {}
    <2>1. Cardinality(page) < PageSize
      BY <1>1, <1>5, FS_EmptySet
    <2>2. Cardinality(present) < number * PageSize
      BY <1>1, <1>2, <2>1, ShortSliceIsLast
    <2> QED BY <1>3, <2>2
  <1> QED BY <1>3, <1>4, <1>5

LEMMA WalkInvCountedPage ==
    ASSUME WalkInv, FetchType', NEW page \in SUBSET present, NEW thin \in BOOLEAN, NEW stray,
           Page(page, thin, stray), api \in ByRank
    PROVE  WalkInv'
  <1> DEFINE base == (number - 1) * PageSize
             top == number * PageSize
  <1>0. FetchType /\ IsPage(page, thin) /\ api \notin Whole
    BY DEF WalkInv, Page, ByRank, Whole, Counted
  <1>1. /\ IsFiniteSet(present) /\ present \subseteq Nat /\ number \in Nat \ {0}
        /\ stayed \subseteq present
    BY <1>0, FetchAssumption, FS_Subset DEF FetchAssumption, FetchType
  <1>2. page = Slice(present, number)
    BY <1>0 DEF IsPage, ByRank, Whole, Counted, Slice, Rank, RankIn
  <1>3. base \in Nat /\ top \in Nat /\ base <= top
    <2>1. number - 1 \in Nat /\ number \in Nat /\ number - 1 <= number
      BY <1>1
    <2> QED BY <2>1, FetchAssumption, TimesMonotone DEF FetchAssumption
  <1>4. /\ given' = given \cup page /\ twice' = twice \cup (given \cap page)
        /\ number' - 1 = number
        /\ UNCHANGED <<api, present, stayed, shifts>>
    <2>1. number' = number + 1
      BY <1>0, PageTaken
    <2>2. number' - 1 = number
      BY <1>1, <2>1
    <2>3. /\ given' = given \cup page /\ twice' = twice \cup (given \cap page)
          /\ UNCHANGED <<api, present, stayed, shifts>>
      BY <1>0, PageTaken
    <2> QED BY <2>2, <2>3
  <1> DEFINE rank(r) == RankIn(present, r)
  <1>5. \A r \in present : /\ rank(r) \in Nat
                           /\ r \in page <=> base < rank(r) /\ rank(r) <= top
    <2> SUFFICES ASSUME NEW r \in present
                 PROVE  /\ rank(r) \in Nat
                        /\ r \in page <=> base < rank(r) /\ rank(r) <= top
      OBVIOUS
    <2>1. rank(r) \in Nat
      BY <1>1, RankBounds
    <2>2. r \in Slice(present, number) <=> base < rank(r) /\ rank(r) <= top
      BY <1>1, SliceRanks
    <2> QED BY <1>2, <2>1, <2>2
  <1>6. \A r : (Past(r) <=> rank(r) <= base) /\ (Past(r)' <=> rank(r) <= top)
    BY <1>4 DEF Past, Rank, RankIn
  <1> HIDE DEF base, top, rank
  <1>7. ASSUME api \in Counted, "in" \notin shifts
        PROVE  /\ given \cap page = {}
               /\ \A r \in given' : r \in present => Past(r)'
    <2>1. ASSUME NEW r \in given, r \in present PROVE rank(r) <= base
      BY <1>0, <1>6, <1>7, <2>1 DEF WalkInv, OnceInv, Counted
    <2>2. given \cap page = {}
      BY <1>3, <1>5, <2>1
    <2>3. ASSUME NEW r \in given', r \in present PROVE rank(r) <= top
      BY <1>3, <1>4, <1>5, <2>1, <2>3
    <2> QED BY <1>6, <2>2, <2>3
  <1>8. OnceInv' /\ NothingTwice'
    <2>1. OnceInv'
      BY <1>0, <1>4, <1>7 DEF OnceInv, ByRank
    <2>2. NothingTwice'
      BY <1>4, <1>7 DEF WalkInv, NothingTwice, ByRank
    <2> QED BY <2>1, <2>2
  <1>9. ASSUME ~(api \in Counted /\ "out" \in shifts), NEW s \in stayed, Past(s)'
        PROVE  s \in given'
    <2>1. s \in present /\ rank(s) \in Nat /\ rank(s) <= top
      BY <1>1, <1>5, <1>6, <1>9
    <2>2. CASE rank(s) <= base
      BY <1>0, <1>4, <1>6, <1>9, <2>2 DEF WalkInv, StayInv
    <2>3. CASE base < rank(s)
      BY <1>4, <1>5, <2>1, <2>3
    <2> QED BY <1>3, <2>1, <2>2, <2>3
  <1>10. StayInv'
    BY <1>4, <1>9 DEF WalkInv, StayInv
  <1>11. StayersAreGiven'
    <2> SUFFICES ASSUME outcome' = "complete", ~misled',
                        ~(api \in Counted /\ "out" \in shifts)
                 PROVE  stayed' \subseteq given'
      BY <1>4 DEF StayersAreGiven
    <2>1. Ends(page)
      BY <1>0, PageTaken
    <2>2. Cardinality(present) <= top /\ Cardinality(present) \in Nat
      BY <1>0, <1>1, <2>1, CountedToTheEnd, FS_CardinalityType DEF top
    <2>3. ASSUME NEW s \in stayed PROVE s \in given'
      <3>1. s \in present /\ rank(s) \in Nat
        BY <1>1, <1>5
      <3>2. rank(s) <= Cardinality(present)
        BY <1>1, <3>1, RankBounds DEF rank
      <3>3. rank(s) <= top
        BY <1>3, <2>2, <3>1, <3>2
      <3> QED BY <1>6, <1>9, <3>3
    <2> QED BY <1>4, <2>3
  <1> QED BY <1>8, <1>10, <1>11 DEF WalkInv

LEMMA WalkInvTrouble ==
    ASSUME WalkInv, FetchType', NEW a, NEW wait, NEW accepted, NEW page,
           Trouble(a, wait, accepted, page)
    PROVE  WalkInv'
  <1>1. /\ outcome = "running" /\ outcome' \in {"running", "spent", "failed"}
        /\ UNCHANGED <<api, present, stayed, shifts, number, after, misled>>
    BY DEF Trouble, collectionVars, WalkInv, FetchType
  <1>2. CASE accepted
    <2>1. api = "delivery" /\ given \subseteq given'
      BY <1>2 DEF Trouble
    <2>2. \A r : Past(r)' <=> Past(r)
      BY <1>1 DEF Past, Rank
    <2>3. OnceInv' /\ NothingTwice'
      BY <1>1, <2>1 DEF OnceInv, NothingTwice, Whole, Counted
    <2>4. StayInv' /\ StayersAreGiven'
      BY <1>1, <2>1, <2>2 DEF WalkInv, StayInv, StayersAreGiven, Whole, Counted
    <2> QED BY <2>3, <2>4 DEF WalkInv
  <1>3. CASE ~accepted
    <2>1. UNCHANGED <<given, twice>>
      BY <1>3 DEF Trouble
    <2> QED BY <1>1, <2>1, WalkInvFrame
  <1> QED BY <1>2, <1>3

LEMMA WalkInvInit ==
    Init => WalkInv
  <1> SUFFICES ASSUME Init PROVE WalkInv
    OBVIOUS
  <1>1. FetchType
    BY RequestInvInit DEF RequestInv
  <1>2. IsFiniteSet(present) /\ present \subseteq Nat \ {0} /\ present = stayed
    BY FetchAssumption, FS_Subset DEF FetchAssumption, Init
  <1>3. OnceInv /\ NothingTwice /\ StayersAreGiven
    BY DEF Init, OnceInv, NothingTwice, StayersAreGiven
  <1>4. ASSUME NEW r \in stayed PROVE ~Past(r)
    <2>1. number = 1 /\ after = 0 /\ (number - 1) * PageSize = 0
      BY FetchAssumption DEF Init, FetchAssumption
    <2>2. RankIn(present, r) \in Nat \ {0}
      BY <1>2, RankBounds
    <2> QED BY <1>2, <2>1, <2>2 DEF Past, Rank, RankIn
  <1>5. StayInv
    BY <1>4 DEF Init, StayInv
  <1> QED BY <1>1, <1>3, <1>5 DEF WalkInv

LEMMA WalkInvStep ==
    ASSUME WalkInv, [Next]_vars
    PROVE  WalkInv'
  <1>0. FetchType /\ FetchType'
    BY FetchTypeStep DEF WalkInv
  <1>1. ASSUME NEW r \in Rows, Change(r) PROVE WalkInv'
    BY <1>0, <1>1, WalkInvChange
  <1>2. CASE Age \/ Revoke \/ Send \/ Deadline
    BY <1>0, <1>2, WalkInvFrame
    DEF Age, Revoke, Send, Deadline, collectionVars, walkVars
  <1>3. ASSUME NEW a \in Troubles, NEW wait \in Waits, NEW accepted \in BOOLEAN,
               NEW page, page \in (IF accepted THEN SUBSET present ELSE {{}}),
               Trouble(a, wait, accepted, page)
        PROVE WalkInv'
    BY <1>0, <1>3, WalkInvTrouble
  <1>4. CASE Minted
    <2>1. /\ outcome = "running" /\ outcome' \in {"running", "spent"}
          /\ UNCHANGED <<api, collectionVars, walkVars>>
      BY <1>0, <1>4 DEF Minted, FetchType
    <2> QED BY <1>0, <2>1, WalkInvFrame DEF collectionVars, walkVars
  <1>5. CASE Unauthorized
    <2>1. outcome = "running" /\ UNCHANGED <<api, collectionVars, walkVars>>
      BY <1>0, <1>5 DEF Unauthorized, FetchType
    <2>2. outcome' \in {"running", "unauthorized"}
      BY <1>5, <2>1, UnauthorizedEndsOrMints
    <2> QED BY <1>0, <2>1, <2>2, WalkInvFrame DEF collectionVars, walkVars
  <1>6. CASE Submit
    BY <1>0, <1>6, WalkInvFrame DEF Submit, collectionVars, walkVars
  <1>7. ASSUME NEW status \in {"done", "failed", "pending"}, Poll(status)
        PROVE WalkInv'
    <2>1. /\ outcome = "running" /\ outcome' \in {"running", "jobFailed", "late"}
          /\ UNCHANGED <<api, collectionVars, walkVars>>
      BY <1>0, <1>7, PollKeepsOn DEF Poll, Forward, FetchType
    <2> QED BY <1>0, <2>1, WalkInvFrame DEF collectionVars, walkVars
  <1>8. ASSUME NEW a \in Odd, Misread(a) PROVE WalkInv'
    <2>1. /\ outcome = "running"
          /\ UNCHANGED <<api, collectionVars, number, after, given, twice>>
      BY <1>0, <1>8 DEF Misread, Forward, FetchType
    <2>2. \/ outcome' \in {"running", "late"}
          \/ misled'
      <3>1. CASE stage = "poll"
        BY <1>8, <2>1, <3>1 DEF Misread
      <3>2. CASE stage # "poll"
        BY <1>8, <3>2 DEF Misread
      <3> QED BY <3>1, <3>2
    <2>3. \A r : Past(r)' <=> Past(r)
      BY <2>1 DEF Past, Rank, collectionVars
    <2>4. OnceInv' /\ StayInv' /\ NothingTwice'
      <3>1. outcome' = "running" => outcome = "running"
        BY <2>1
      <3> QED BY <2>1, <2>3, <3>1 DEF WalkInv, OnceInv, StayInv, NothingTwice, collectionVars
    <2>5. StayersAreGiven'
      BY <2>2 DEF StayersAreGiven
    <2> QED BY <1>0, <2>4, <2>5 DEF WalkInv
  <1>9. ASSUME NEW page \in SUBSET present, NEW thin \in BOOLEAN,
               NEW stray \in BOOLEAN, Page(page, thin, stray)
        PROVE WalkInv'
    BY <1>0, <1>9, WalkInvWholePage, WalkInvFollowedPage, WalkInvCountedPage
  <1>10. CASE TokenGarbled
    <2>1. /\ outcome = "running" /\ outcome' \in {"running", "spent"}
          /\ UNCHANGED <<api, collectionVars, walkVars>>
      BY <1>0, <1>10 DEF TokenGarbled, FetchType
    <2> QED BY <1>0, <2>1, WalkInvFrame DEF collectionVars, walkVars
  <1>11. CASE UNCHANGED vars
    BY <1>0, <1>11, WalkInvFrame DEF vars, collectionVars, walkVars
  <1> QED
    BY <1>1, <1>2, <1>3, <1>4, <1>5, <1>6, <1>7, <1>8, <1>9, <1>10, <1>11
    DEF Next, Answer

\* Whatever is retried, refreshed, polled and added or deleted meanwhile, a walk
\* that completes gives every row that stayed, and none twice, within the limits
\* that StayersAreGiven and NothingTwice state: pages with numbers shift, and an
\* answer that is none of the sort may be taken for the last page (`misled`).
THEOREM WalksAreExact ==
    Spec => []WalkIsExact
  <1>1. Init => WalkInv
    BY WalkInvInit
  <1>2. WalkInv /\ [Next]_vars => WalkInv'
    BY WalkInvStep
  <1>3. WalkInv => WalkIsExact
    BY DEF WalkInv, WalkIsExact
  <1> QED BY <1>1, <1>2, <1>3, PTL DEF Spec
-----------------------------------------------------------------------------
(* Purchases: what has been passed over.                                    *)

\* The type invariant of Purchases, as far as it is needed.
PurchaseType ==
    /\ now \in Nat \ {0}
    /\ seenAt \in [Customers -> Nat] /\ paid \in [Customers -> Nat]
    /\ copy \in [Customers -> Nat] /\ landed \in [Customers -> Nat]
    /\ snapshot \in Nat /\ started \in Nat
    /\ watermark \in Int /\ origin \in Int /\ next \in Int
    /\ pc \in {"idle", "walk", "walked", "pass"}

\* Nothing happens any more at or before an instant.
Bygone(x) == x <= now /\ (x = now => now % 2 = 0)

\* What the walk has come past: a customer is as the table has it, or was seen
\* since the walk began.  One that the walk left unread is among the skipped.
CopyInv ==
    /\ \E c \in Customers : seenAt[c] # 0
    /\ \A c \in Customers : copy[c] <= seenAt[c]
    /\ pc \in {"walk", "walked"} => started # 0
    /\ pc = "walk" => todo # {} \/ snapshot = started
    /\ pc = "walked" => todo = {} /\ snapshot = started
    /\ pc = "walk" =>
           \A c \in Customers \ todo : copy[c] = seenAt[c] \/ seenAt[c] > started
    /\ pc = "walked" =>
           \A c \in Customers \ skipped : copy[c] = seenAt[c] \/ seenAt[c] > started

\* No checkpoint of a customer after `origin` is passed over by a watermark.
Settled(c, mark) ==
    \A k \in Checkpoints(seenAt[c]) :
        origin < k /\ k <= mark /\ paid[c] <= k => landed[c] = paid[c]

\* The watermark that a pass will persist holds already for all but those it
\* has still to ask for.
PassInv ==
    /\ Bygone(started) /\ Bygone(watermark) /\ (pc = "pass" => Bygone(next))
    /\ \A c \in Customers \ skipped : Settled(c, watermark)
    /\ pc = "pass" => \A c \in Customers \ (skipped \cup todo) : Settled(c, next)

PurchaseInv == PurchaseType /\ CopyInv /\ PassInv

\* A set of integers between two bounds has a least member.
LEMMA LeastOfSome ==
    ASSUME NEW S, NEW low \in Int, NEW high \in Int, S # {},
           \A x \in S : x \in Int /\ low <= x /\ x <= high
    PROVE  Min(S) \in S /\ \A x \in S : Min(S) <= x
  <1> DEFINE T == {high - x : x \in S}
  <1>1. T \subseteq 0 .. (high - low) /\ T # {}
    OBVIOUS
  <1>2. IsFiniteSet(T) /\ T \subseteq Nat
    <2>1. IsFiniteSet(0 .. (high - low)) /\ 0 .. (high - low) \subseteq Nat
      BY FS_Interval
    <2>2. T \in SUBSET (0 .. (high - low))
      BY <1>1
    <2> HIDE DEF T
    <2> QED
      BY <2>1, <2>2, FS_Subset
  <1>3. PICK m \in T : \A s \in T : s <= m
    <2> HIDE DEF T
    <2> QED
      BY <1>1, <1>2, GreatestOfSome
  <1>4. PICK x \in S : m = high - x
    BY <1>3
  <1>5. ASSUME NEW y \in S PROVE x <= y
    <2>1. high - y <= m
      BY <1>3
    <2>2. x \in Int /\ y \in Int
      OBVIOUS
    <2> QED
      BY <1>4, <2>1, <2>2
  <1> QED
    BY <1>5 DEF Min

LEMMA GreaterOfTwo ==
    ASSUME NEW a \in Int, NEW b \in Int
    PROVE  Max({a, b}) = IF a >= b THEN a ELSE b
  BY DEF Max

LEMMA LesserOfTwo ==
    ASSUME NEW a \in Int, NEW b \in Int
    PROVE  Min({a, b}) = IF a <= b THEN a ELSE b
  BY DEF Min

LEMMA CheckpointsAfter ==
    ASSUME NEW anchor \in Nat, NEW k \in Checkpoints(anchor)
    PROVE  k \in Nat /\ k >= anchor /\ anchor # 0
  BY PurchasesAssumption DEF PurchasesAssumption, Checkpoints

LEMMA PurchaseInvInit ==
    PurchaseInit => PurchaseInv
  <1> SUFFICES ASSUME PurchaseInit PROVE PurchaseInv
    OBVIOUS
  <1>1. NoMark \in Int /\ NoMark < 0
    BY PurchasesAssumption DEF PurchasesAssumption, NoMark
  <1>2. PurchaseType
    BY <1>1 DEF PurchaseInit, PurchaseType
  <1>3. CopyInv
    BY <1>2 DEF PurchaseInit, PurchaseType, CopyInv
  <1>4. Bygone(started) /\ Bygone(watermark)
    BY <1>1, <1>2 DEF PurchaseInit, PurchaseType, Bygone
  <1>5. ASSUME NEW c \in Customers PROVE Settled(c, watermark)
    BY <1>1, <1>2, CheckpointsAfter
       DEF PurchaseInit, PurchaseType, Settled
  <1> QED
    BY <1>2, <1>3, <1>4, <1>5 DEF PurchaseInit, PurchaseInv, PassInv

LEMMA TickKeeps ==
    ASSUME PurchaseInv, Tick
    PROVE  PurchaseInv'
  <1> USE DEF Tick, PurchaseInv, service, tables, marks, run, options
  <1>1. PurchaseType'
    BY DEF PurchaseType
  <1>2. CopyInv'
    BY DEF CopyInv
  <1>3. ASSUME NEW x \in Int, Bygone(x) PROVE x <= now' /\ x # now'
    BY <1>3 DEF Bygone, PurchaseType
  <1>4. Bygone(started)' /\ Bygone(watermark)' /\ (pc' = "pass" => Bygone(next)')
    BY <1>3 DEF PassInv, PurchaseType, Bygone
  <1>5. ASSUME NEW c, NEW mark PROVE Settled(c, mark)' = Settled(c, mark)
    BY DEF Settled, Checkpoints
  <1> QED
    BY <1>1, <1>2, <1>4 DEF PassInv, Settled, Checkpoints

\* What happens now is after every mark that is bygone.
LEMMA HappensLater ==
    ASSUME PurchaseInv, Happening, NEW x \in Int, Bygone(x)
    PROVE  x < now
  BY DEF PurchaseInv, PurchaseType, Happening, Bygone

LEMMA SeeKeeps ==
    ASSUME PurchaseInv, NEW d \in Customers, See(d)
    PROVE  PurchaseInv'
  <1> USE DEF See, PurchaseInv, tables, marks, run, options
  <1>1. PurchaseType'
    BY DEF PurchaseType
  <1>2. started < now
    BY HappensLater DEF PassInv, PurchaseType
  <1>3. ASSUME NEW c \in Customers
        PROVE  copy[c] <= seenAt'[c] /\ (seenAt[c] > started => seenAt'[c] > started)
    BY <1>2, <1>3 DEF CopyInv, PurchaseType
  <1>4. CopyInv'
    <2>1. \E c \in Customers : seenAt'[c] # 0
      BY DEF PurchaseType
    <2>2. ASSUME NEW c \in Customers
          PROVE  seenAt'[c] = seenAt[c] \/ seenAt'[c] > started
      BY <1>2 DEF PurchaseType
    <2> QED
      BY <1>3, <2>1, <2>2 DEF CopyInv
  <1>5. ASSUME NEW c \in Customers, NEW mark \in Int, mark < now, Settled(c, mark)
        PROVE  Settled(c, mark)'
    <2>1. CASE c = d
      <3>1. seenAt'[c] = now /\ now \in Nat
        BY <2>1 DEF PurchaseType
      <3>2. ASSUME NEW k \in Checkpoints(now) PROVE ~ (k <= mark)
        <4>1. k \in Nat /\ k >= now
          BY <3>1, CheckpointsAfter
        <4> QED
          BY <1>5, <3>1, <4>1
      <3> QED
        BY <3>1, <3>2 DEF Settled, Checkpoints
    <2>2. CASE c # d
      BY <1>5, <2>2 DEF Settled, Checkpoints, PurchaseType
    <2> QED
      BY <2>1, <2>2
  <1>6. watermark < now /\ (pc = "pass" => next < now)
    BY HappensLater DEF PassInv, PurchaseType
  <1>7. PassInv'
    <2>1. Bygone(started)' /\ Bygone(watermark)' /\ (pc' = "pass" => Bygone(next)')
      BY DEF PassInv, Bygone
    <2>2. ASSUME NEW c \in Customers \ skipped PROVE Settled(c, watermark)'
      <3>1. Settled(c, watermark) /\ watermark \in Int
        BY DEF PassInv, PurchaseType
      <3> QED
        BY <1>5, <1>6, <3>1 DEF Settled
    <2>3. ASSUME pc = "pass", NEW c \in Customers \ (skipped \cup todo)
          PROVE  Settled(c, next)'
      <3>1. Settled(c, next) /\ next \in Int
        BY <2>3 DEF PassInv, PurchaseType
      <3> QED
        BY <1>5, <1>6, <2>3, <3>1 DEF Settled
    <2> QED
      BY <2>1, <2>2, <2>3 DEF PassInv
  <1> QED
    BY <1>1, <1>4, <1>7

LEMMA PayKeeps ==
    ASSUME PurchaseInv, NEW d \in Customers, NEW on \in BOOLEAN, Pay(d, on)
    PROVE  PurchaseInv'
  <1> USE DEF Pay, PurchaseInv, tables, marks, run, options
  <1>1. PurchaseType'
    BY DEF PurchaseType
  <1>2. CopyInv'
    BY DEF CopyInv
  <1>3. ASSUME NEW c \in Customers, NEW mark \in Int, mark < now, Settled(c, mark)
        PROVE  Settled(c, mark)'
    <2>1. CASE c = d
      <3>1. paid'[c] = now /\ now \in Nat /\ seenAt[c] \in Nat
        BY <2>1 DEF PurchaseType
      <3>2. ASSUME NEW k \in Checkpoints(seenAt[c]), k <= mark PROVE ~ (now <= k)
        <4>1. k \in Nat
          BY <3>1, <3>2, CheckpointsAfter
        <4> QED
          BY <1>3, <3>1, <3>2, <4>1
      <3> QED
        BY <3>1, <3>2 DEF Settled, Checkpoints
    <2>2. CASE c # d
      BY <1>3, <2>2 DEF Settled, Checkpoints, PurchaseType
    <2> QED
      BY <2>1, <2>2
  <1>4. watermark < now /\ (pc = "pass" => next < now)
    BY HappensLater DEF PassInv, PurchaseType
  <1>5. PassInv'
    <2>1. Bygone(started)' /\ Bygone(watermark)' /\ (pc' = "pass" => Bygone(next)')
      BY DEF PassInv, Bygone
    <2>2. ASSUME NEW c \in Customers \ skipped PROVE Settled(c, watermark)'
      <3>1. Settled(c, watermark) /\ watermark \in Int
        BY DEF PassInv, PurchaseType
      <3> QED
        BY <1>3, <1>4, <3>1 DEF Settled
    <2>3. ASSUME pc = "pass", NEW c \in Customers \ (skipped \cup todo)
          PROVE  Settled(c, next)'
      <3>1. Settled(c, next) /\ next \in Int
        BY <2>3 DEF PassInv, PurchaseType
      <3> QED
        BY <1>3, <1>4, <2>3, <3>1 DEF Settled
    <2> QED
      BY <2>1, <2>2, <2>3 DEF PassInv
  <1> QED
    BY <1>1, <1>2, <1>5

LEMMA WalkKeeps ==
    ASSUME PurchaseInv, BeginWalk \/ EndWalk \/ \E c \in Customers : ReadRow(c)
    PROVE  PurchaseInv'
  <1> USE DEF PurchaseInv, service, tables, marks, options
  <1>1. CASE BeginWalk
    <2> USE <1>1 DEF BeginWalk
    <2>1. PurchaseType' /\ started' # 0
      BY DEF PurchaseType
    <2>2. CopyInv'
      <3>1. ASSUME NEW c \in Customers \ todo' PROVE copy[c] = seenAt[c]
        BY DEF CopyInv, PurchaseType
      <3> QED
        BY <2>1, <3>1 DEF CopyInv
    <2>3. PassInv'
      BY DEF PurchaseType, PassInv, Bygone, Settled, Checkpoints
    <2> QED
      BY <2>1, <2>2, <2>3
  <1>2. CASE EndWalk
    <2> USE <1>2 DEF EndWalk
    <2>1. PurchaseType'
      BY DEF PurchaseType
    <2>2. CopyInv'
      BY DEF CopyInv
    <2>3. PassInv'
      BY DEF PassInv, Bygone, Settled, Checkpoints
    <2> QED
      BY <2>1, <2>2, <2>3
  <1>3. ASSUME NEW d \in Customers, ReadRow(d) PROVE PurchaseInv'
    <2> USE <1>3 DEF ReadRow
    <2>1. PurchaseType'
      BY DEF PurchaseType
    <2>2. CopyInv'
      <3>1. ASSUME NEW c \in Customers
            PROVE  /\ copy'[c] <= seenAt[c]
                   /\ copy'[c] = copy[c] \/ copy'[c] = seenAt[c]
                   /\ c = d => copy'[c] = seenAt[c]
        BY DEF CopyInv, PurchaseType
      <3> QED
        BY <3>1 DEF CopyInv
    <2>3. PassInv'
      BY DEF PassInv, Bygone, Settled, Checkpoints
    <2> QED
      BY <2>1, <2>2, <2>3
  <1> QED
    BY <1>1, <1>2, <1>3

LEMMA MarkIsPast ==
    ASSUME PurchaseInv
    PROVE  now \in Nat /\ Mark \in Int /\ Mark <= now
  BY PurchasesAssumption
     DEF PurchasesAssumption, PurchaseInv, PurchaseType, PassInv, Bygone, Mark

LEMMA DueIsEarliest ==
    ASSUME PurchaseInv, NEW d \in Due
    PROVE  /\ DueAt(d) \in Int /\ Mark < DueAt(d) /\ DueAt(d) <= now
           /\ \A q \in DueNow(d) : DueAt(d) <= q
  <1>1. now \in Nat /\ Mark \in Int
    BY MarkIsPast
  <1>2. DueNow(d) # {} /\ \A q \in DueNow(d) : q \in Mark + 1 .. now
    BY DEF Due, DueNow
  <1>3. \A q \in DueNow(d) : q \in Int /\ Mark < q /\ q <= now
    BY <1>1, <1>2
  <1>4. PICK low \in Int, high \in Int : low = Mark /\ high = now
    BY <1>1
  <1>5. \A q \in DueNow(d) : q \in Int /\ low <= q /\ q <= high
    BY <1>1, <1>3, <1>4
  <1>6. /\ Min(DueNow(d)) \in DueNow(d)
        /\ \A q \in DueNow(d) : Min(DueNow(d)) <= q
    BY <1>2, <1>5, LeastOfSome
  <1> QED
    BY <1>3, <1>6 DEF DueAt

\* Where the watermark goes: no further than the walk and the checkpoints that
\* are left out let it.
LEMMA WatermarkIsHeld ==
    ASSUME PurchaseInv, pc = "walked", NEW targets
    PROVE  /\ NewWatermark(targets) \in Int
           /\ NewWatermark(targets) <= now
           /\ Mark < NewWatermark(targets) =>
                  /\ NewWatermark(targets) <= started
                  /\ \A d \in Due \ targets : NewWatermark(targets) < DueAt(d)
  <1> DEFINE left == {DueAt(d) - 1 : d \in Due \ targets}
             least == Min(left \cup {Ceiling})
  <1>1. now \in Nat /\ Mark \in Int /\ Mark <= now
    BY MarkIsPast
  <1>2. Ceiling \in Int /\ Ceiling <= now /\ Ceiling <= started
    <2>1. snapshot = started /\ started # 0 /\ started \in Nat
      BY DEF PurchaseInv, CopyInv, PurchaseType
    <2>2. Ceiling = Min({now, started})
      BY <2>1 DEF Ceiling
    <2> QED
      BY <1>1, <2>1, <2>2, LesserOfTwo
  <1>3. least \in Int /\ \A x \in left \cup {Ceiling} : x \in Int /\ least <= x
    <2>1. PICK low \in Int : low <= Mark /\ low <= Ceiling
      <3>1. CASE Mark <= Ceiling
        BY <1>1, <3>1
      <3>2. CASE ~ (Mark <= Ceiling)
        BY <1>1, <1>2, <3>2
      <3> QED
        BY <3>1, <3>2
    <2>2. \A x \in left \cup {Ceiling} : x \in Int /\ low <= x /\ x <= now
      <3>1. ASSUME NEW d \in Due
            PROVE  DueAt(d) - 1 \in Int /\ low <= DueAt(d) - 1 /\ DueAt(d) - 1 <= now
        <4>1. DueAt(d) \in Int /\ Mark < DueAt(d) /\ DueAt(d) <= now
          BY DueIsEarliest
        <4> QED
          BY <1>1, <2>1, <4>1
      <3> QED
        BY <1>1, <1>2, <2>1, <3>1
    <2> HIDE DEF left
    <2>3. /\ Min(left \cup {Ceiling}) \in left \cup {Ceiling}
          /\ \A x \in left \cup {Ceiling} : Min(left \cup {Ceiling}) <= x
      BY <1>1, <2>2, LeastOfSome
    <2> QED
      BY <1>1, <2>1, <2>2, <2>3
  <1>4. NewWatermark(targets) = IF Mark >= least THEN Mark ELSE least
    <2>1. NewWatermark(targets) = Max({Mark, least})
      BY DEF NewWatermark
    <2> HIDE DEF least
    <2> QED
      BY <1>1, <1>3, <2>1, GreaterOfTwo
  <1>5. least <= Ceiling
    BY <1>3
  <1>6. ASSUME NEW d \in Due \ targets PROVE least <= DueAt(d) - 1 /\ DueAt(d) \in Int
    BY <1>3, DueIsEarliest
  <1> HIDE DEF least
  <1>7. ASSUME NEW d \in Due \ targets PROVE least < DueAt(d)
    BY <1>3, <1>6
  <1>8. least <= started /\ least <= now
    BY <1>1, <1>2, <1>3, <1>5 DEF PurchaseInv, PurchaseType
  <1> QED
    BY <1>1, <1>3, <1>4, <1>7, <1>8

\* A customer that the walk has come past, with a checkpoint that the new watermark
\* reaches, is asked for by this pass, or is one of the hot for whom there was no
\* room.
LEMMA ReachedIsTaken ==
    ASSUME PurchaseInv, pc = "walked", NEW targets,
           NEW c \in Customers \ skipped, NEW k \in Checkpoints(seenAt[c]),
           Mark < k, k <= NewWatermark(targets)
    PROVE  c \in targets \/ c \in Hot
  <1> SUFFICES ASSUME c \notin targets, c \notin Hot PROVE FALSE
    OBVIOUS
  <1> DEFINE new == NewWatermark(targets)
  <1>1. now \in Nat /\ Mark \in Int /\ k \in Nat /\ k >= seenAt[c]
    BY MarkIsPast, CheckpointsAfter DEF PurchaseInv, PurchaseType
  <1>2. new \in Int /\ new <= now /\ Mark < new
    BY <1>1, WatermarkIsHeld
  <1>3. k <= started /\ k <= now
    BY <1>1, <1>2, WatermarkIsHeld DEF PurchaseInv, PurchaseType
  <1>4. copy[c] = seenAt[c]
    <2>1. copy[c] = seenAt[c] \/ seenAt[c] > started
      BY DEF PurchaseInv, CopyInv
    <2> QED
      BY <1>1, <1>3, <2>1 DEF PurchaseInv, PurchaseType
  <1>5. k \in DueNow(c) /\ c \in Due
    BY <1>1, <1>3, <1>4 DEF DueNow, Due
  <1>6. DueAt(c) \in Int /\ DueAt(c) <= k
    BY <1>5, DueIsEarliest
  <1>7. new < DueAt(c)
    BY <1>2, <1>5, WatermarkIsHeld
  <1> HIDE DEF new
  <1>8. k <= new
    BY DEF new
  <1> QED
    BY <1>1, <1>2, <1>6, <1>7, <1>8

LEMMA BeginPassKeeps ==
    ASSUME PurchaseInv, NEW hints \in SUBSET Customers, NEW heals \in SUBSET Customers,
           BeginPass(hints, heals)
    PROVE  PurchaseInv'
  <1> USE DEF BeginPass, service, tables, options
  <1>1. pc = "walked" /\ now % 2 = 0 /\ next' = NewWatermark(todo')
    OBVIOUS
  <1>2. now \in Nat /\ Mark \in Int /\ Mark <= now
    BY MarkIsPast
  <1>3. next' \in Int /\ next' <= now
    BY <1>1, WatermarkIsHeld
  <1>4. PurchaseType'
    BY <1>2, <1>3 DEF PurchaseInv, PurchaseType
  <1>5. CopyInv'
    BY DEF PurchaseInv, CopyInv
  <1>6. NoMark < 0 /\ NoMark \in Int
    BY PurchasesAssumption DEF PurchasesAssumption, NoMark
  <1>7. Bygone(started)' /\ Bygone(watermark)' /\ Bygone(next)'
    BY <1>1, <1>2, <1>3 DEF PurchaseInv, PurchaseType, PassInv, Bygone
  <1>8. ASSUME NEW c \in Customers \ skipped PROVE Settled(c, watermark)'
    <2>1. CASE watermark = NoMark
      <3>1. ASSUME NEW k \in Checkpoints(seenAt[c]) PROVE ~ (k <= NoMark)
        <4>1. k \in Nat
          BY CheckpointsAfter DEF PurchaseInv, PurchaseType
        <4> QED
          BY <1>6, <4>1
      <3> QED
        BY <2>1, <3>1 DEF Settled, Checkpoints
    <2>2. CASE watermark # NoMark
      BY <2>2 DEF PurchaseInv, PassInv, Settled, Checkpoints
    <2> QED
      BY <2>1, <2>2
  <1>9. ASSUME NEW c \in Customers \ (skipped' \cup todo'),
               NEW k \in Checkpoints(seenAt[c]),
               origin' < k, k <= next', paid[c] <= k
        PROVE  landed[c] = paid[c]
    <2>1. c \notin skipped /\ c \notin Hot /\ c \notin todo'
      BY <1>9
    <2>2. k \in Nat
      BY CheckpointsAfter DEF PurchaseInv, PurchaseType
    <2>3. ~ (Mark < k)
      BY <1>1, <1>9, <2>1, ReachedIsTaken
    <2>4. watermark # NoMark /\ Mark = watermark /\ origin' = origin
      BY <1>2, <1>9, <2>2, <2>3 DEF Mark
    <2>5. Settled(c, watermark) /\ k <= watermark
      BY <1>2, <2>1, <2>2, <2>3, <2>4 DEF PurchaseInv, PassInv
    <2> QED
      BY <1>9, <2>4, <2>5 DEF Settled
  <1>10. ASSUME NEW c \in Customers \ (skipped' \cup todo') PROVE Settled(c, next)'
    BY <1>9 DEF Settled, Checkpoints
  <1>11. skipped \subseteq skipped'
    OBVIOUS
  <1> QED
    BY <1>4, <1>5, <1>7, <1>8, <1>10, <1>11 DEF PurchaseInv, PassInv

LEMMA PassKeeps ==
    ASSUME PurchaseInv, EndPass \/ Kill \/ \E c \in Customers : Ask(c)
    PROVE  PurchaseInv'
  <1> USE DEF PurchaseInv, service, tables, marks, options
  <1>1. NoMark \in Int
    BY PurchasesAssumption DEF PurchasesAssumption, NoMark
  <1>2. CASE EndPass \/ Kill
    <2> USE <1>2 DEF EndPass, Kill
    <2>1. PurchaseType'
      BY <1>1 DEF PurchaseType
    <2>2. CopyInv'
      BY DEF CopyInv
    <2>3. PassInv'
      BY DEF PassInv, Bygone, Settled, Checkpoints
    <2> QED
      BY <2>1, <2>2, <2>3
  <1>3. ASSUME NEW d \in Customers, Ask(d) PROVE PurchaseInv'
    <2> USE <1>3 DEF Ask
    <2>1. PurchaseType'
      BY DEF PurchaseType
    <2>2. CopyInv'
      BY DEF CopyInv
    <2>3. ASSUME NEW c \in Customers, NEW mark, c = d \/ Settled(c, mark)
          PROVE  Settled(c, mark)'
      BY <2>3 DEF PurchaseType, Settled, Checkpoints
    <2>4. PassInv'
      <3>1. Bygone(started)' /\ Bygone(watermark)' /\ Bygone(next)'
        BY DEF PassInv, Bygone
      <3>2. ASSUME NEW c \in Customers \ skipped' PROVE Settled(c, watermark)'
        <4>1. c = d \/ Settled(c, watermark)
          BY DEF PassInv
        <4> QED
          BY <2>3, <4>1 DEF Settled
      <3>3. ASSUME NEW c \in Customers \ (skipped' \cup todo') PROVE Settled(c, next)'
        <4>1. c = d \/ Settled(c, next)
          BY DEF PassInv
        <4> QED
          BY <2>3, <4>1 DEF Settled
      <3> QED
        BY <3>1, <3>2, <3>3 DEF PassInv
    <2> QED
      BY <2>1, <2>2, <2>4
  <1> QED
    BY <1>2, <1>3

LEMMA PurchaseInvStep ==
    PurchaseInv /\ [PurchaseNext]_purchaseVars => PurchaseInv'
  <1> SUFFICES ASSUME PurchaseInv, [PurchaseNext]_purchaseVars PROVE PurchaseInv'
    OBVIOUS
  <1>1. CASE Tick
    BY <1>1, TickKeeps
  <1>2. ASSUME NEW c \in Customers, See(c) \/ ReadRow(c) PROVE PurchaseInv'
    BY <1>2, SeeKeeps, WalkKeeps
  <1>3. ASSUME NEW c \in Customers, NEW on \in BOOLEAN, Pay(c, on) PROVE PurchaseInv'
    BY <1>3, PayKeeps
  <1>4. CASE Run
    BY <1>4, WalkKeeps, BeginPassKeeps, PassKeeps DEF Run
  <1>5. CASE Kill
    BY <1>5, PassKeeps
  <1>6. CASE UNCHANGED purchaseVars
    <2> USE <1>6 DEF purchaseVars, options, service, tables, marks, run
    <2>1. PurchaseType' /\ CopyInv'
      BY DEF PurchaseInv, PurchaseType, CopyInv
    <2>2. PassInv'
      BY DEF PurchaseInv, PassInv, Bygone, Settled, Checkpoints
    <2> QED
      BY <2>1, <2>2 DEF PurchaseInv
  <1> QED
    BY <1>1, <1>2, <1>3, <1>4, <1>5, <1>6 DEF PurchaseNext

\* Whatever is seen and bought between a walk, the plan and the answers, however
\* the caps are set, whatever the queries hint at and wherever runs die: the
\* persisted watermark passes no checkpoint of a customer who has bought before it
\* and has not been asked for since.  The exceptions are those the property names:
\* checkpoints before the first watermark, hot customers the cap had no room for,
\* and customers whose rows a walk cut short by customers_max_pages left unread.
THEOREM CheckpointsAreKept ==
    PurchaseSpec => []NoCheckpointIsPassed
  <1>1. PurchaseInv => NoCheckpointIsPassed
    BY DEF PurchaseInv, PassInv, Settled, NoCheckpointIsPassed
  <1> QED
    BY <1>1, PurchaseInvInit, PurchaseInvStep, PTL DEF PurchaseSpec
=============================================================================
