-------------------------------- MODULE Fetch --------------------------------
(***************************************************************************)
(* How a connector fetches one collection from its service: page by page,  *)
(* each page a request that is tried again after some answers and not      *)
(* after others, with a token that ages, and for three services behind a   *)
(* report that has to be ordered and waited for.                           *)
(*                                                                         *)
(* Every client under dtex/sources has a loop of its own, and so has the   *)
(* Klaviyo destination, which fetches nothing but sends a batch request by *)
(* request.  They differ in what is tried again, in how often, in what a   *)
(* refresh of the token costs, in how pages follow each other and in what  *)
(* makes a page the last one.  `api` says which client the behaviour is    *)
(* about; the collection changes while it is read.                         *)
(*                                                                         *)
(* Waiting (back-off, Retry-After, rate limiters) is left out but for the  *)
(* headers that end the call.                                              *)
(***************************************************************************)
EXTENDS Integers, FiniteSets

CONSTANTS
    Rows,           \* rows the collection may have, in the service's order
    PageSize,       \* rows per page
    MaxRetries,     \* max_retries
    Apis,           \* the clients looked at
    MaxChanges,     \* bound: rows inserted or removed, pages cut short
    MaxRevoked      \* bound: tokens voided before their time

ASSUME FetchAssumption ==
    /\ IsFiniteSet(Rows) /\ Rows \subseteq Nat \ {0}
    /\ PageSize \in Nat \ {0} /\ MaxRetries \in Nat \ {0}
    /\ MaxChanges \in Nat /\ MaxRevoked \in Nat

VARIABLES
    api,        \* the client, fixed for a behaviour
    present,    \* rows of the collection
    stayed,     \* those that have been there since the walk began
    shifts,     \* how the collection has changed: rows "in", rows "out"
    stage,      \* what is asked for: the report, its status, a page
    sent,       \* a request is under way
    minting,    \* it is one for a token
    tries,      \* requests for this page (report, status) that failed
    mintTries,  \* requests for a token that failed
    troubles,   \* troubles met since an answer brought the walk forward
    token,      \* the token the client holds, as the service sees it
    used,       \* what it was when the request under way was sent
    reminted,   \* the token was renewed for this request already
    rounds,     \* reports that failed
    late,       \* the deadline for the report has passed
    number,     \* number of the page asked for
    after,      \* the last row given, which a page token stands for
    given,      \* rows yielded (accepted by the service, for deliveries)
    twice,      \* those yielded (accepted) more than once
    misled,     \* an answer was taken for the last page that was not
    changes,    \* the budget used so far (MaxChanges)
    revoked,    \* the budget used so far (MaxRevoked)
    outcome     \* how the walk ended

collectionVars == <<present, stayed, shifts, changes>>
tokenVars == <<token, used, reminted, minting, mintTries>>
walkVars == <<number, after, given, twice, misled>>
jobVars == <<stage, rounds, late>>
vars == <<api, collectionVars, tokenVars, walkVars, jobVars, sent, tries,
          troubles, revoked, outcome>>

-----------------------------------------------------------------------------
(* What the service may do with a request other than what was asked.       *)

\* The connection fails, no answer comes in time, the body breaks off.
NoAnswer == {"dropped", "silent", "torn"}

\* 429, a rate limit in another guise (status 403, an error code), status 500,
\* 502, 503 or 504, another status above 500.  All may carry Retry-After.
Busy == {"limited", "quota", "down", "strange"}

\* 200 with a body that is not in the format, without one, or without the
\* fields of an answer; 200 with an error in the body; another status above 400.
Odd == {"garbled", "empty", "bare", "refused", "rejected"}

Troubles == NoAnswer \cup Busy \cup Odd

\* Retry-After: absent or a whole number up to a minute, a longer one, one with
\* a fraction, below zero, inf, a date within the minute, anything else.
Waits == {"short", "long", "fraction", "negative", "endless", "date", "text"}

\* float() in front of time.sleep(), int(), and float() of what may be a date.
NoFloat == {"negative", "endless", "date", "text"}
NoInt == {"fraction", "negative", "endless", "date", "text"}
NoSleep == {"negative", "endless"}

-----------------------------------------------------------------------------
(* What each client makes of them: what it tries again, and how often; at  *)
(* which Retry-After the call ends at once, because the header cannot be   *)
(* read or slept for, or is refused; which answers of 200 are taken for a  *)
(* last page without rows.                                                 *)

Chargebacks911 ==
    [tries |-> MaxRetries + 1, again |-> NoAnswer \cup {"limited", "down"},
     chokes |-> {"limited"} \X NoInt, last |-> {"bare"}]

Konnektive ==
    [tries |-> MaxRetries + 1,
     again |-> (Troubles \ {"quota", "bare", "rejected"}),
     chokes |-> {}, last |-> {"bare"}]

\* An empty body counts as {}.
Intercom ==
    [tries |-> MaxRetries + 1,
     again |-> NoAnswer \cup {"limited", "down", "strange"},
     chokes |-> {}, last |-> {"empty", "bare"}]

Klaviyo ==
    [tries |-> MaxRetries + 1,
     again |-> NoAnswer \cup {"limited", "down", "strange"},
     chokes |-> {}, last |-> {"bare"}]

\* Anything that is not JSON counts as {}.
Meta ==
    [tries |-> MaxRetries + 1, again |-> NoAnswer \cup Busy,
     chokes |-> {"limited", "quota"} \X {"endless", "date", "text"},
     last |-> {"garbled", "empty", "bare"}]

Stripe ==
    [tries |-> MaxRetries + 1,
     again |-> NoAnswer \cup {"limited", "down", "strange"},
     chokes |-> {"limited"} \X NoSleep, last |-> {"bare"}]

Sigma ==
    [tries |-> MaxRetries + 1,
     again |-> NoAnswer \cup {"limited", "down", "strange"},
     chokes |-> {"limited", "down", "strange"} \X NoSleep, last |-> {}]

\* The file of a Sigma report is downloaded whole before a row of it is read.
\* A broken connection is tried again, an answer that does not come is not.
SigmaDownload ==
    [tries |-> MaxRetries + 1, again |-> {"dropped", "torn"}, chokes |-> {},
     last |-> {"garbled", "empty"}]

Singular ==
    [tries |-> MaxRetries + 1, again |-> NoAnswer \cup {"limited", "down"},
     chokes |-> {"limited"} \X NoInt, last |-> {}]

RevenueCat ==
    [tries |-> MaxRetries + 1, again |-> NoAnswer \cup {"limited", "down"},
     chokes |-> {"limited"} \X NoInt, last |-> {"bare"}]

\* range(max_retries): one less than the others.
ShipHero ==
    [tries |-> MaxRetries, again |-> NoAnswer \cup Busy,
     chokes |-> {"limited", "down", "strange"} \X NoSleep, last |-> {"bare"}]

\* A refresh of the token is asked for once.
ShipHeroToken == [tries |-> 1, again |-> {}, chokes |-> {}, last |-> {}]

GoogleAds ==
    [tries |-> MaxRetries + 1, again |-> NoAnswer \cup {"limited", "down"},
     chokes |-> {"limited"} \X NoFloat, last |-> {}]

\* An answer that is not JSON is left to the loop of the request (TokenGarbled).
GoogleAdsToken ==
    [tries |-> MaxRetries + 1, again |-> NoAnswer \cup {"limited", "down"},
     chokes |-> {}, last |-> {}]

\* Drive and Sheets.
Google ==
    [tries |-> MaxRetries + 1, again |-> {"limited", "quota", "down"},
     chokes |-> {"limited", "quota", "down"} \X {"negative"},
     last |-> {"bare"}]

\* urllib3's Retry, as build_client configures it, which ends before the body is
\* read.
Rest ==
    [tries |-> MaxRetries + 1,
     again |-> {"dropped", "silent", "limited", "down"},
     chokes |-> {"limited", "down"} \X (NoInt \ {"date"}), last |-> {}]

\* The Klaviyo destination; max_attempts counts the first try.
Delivery ==
    [tries |-> MaxRetries,
     again |-> NoAnswer \cup {"limited", "down", "strange"},
     chokes |-> {"limited", "down", "strange"} \X {"long", "endless", "text"},
     last |-> {}]

Policy ==
    [chargebacks911 |-> Chargebacks911, konnektive |-> Konnektive,
     intercom_search |-> Intercom, intercom_list |-> Intercom,
     intercom_pages |-> Intercom, intercom_scroll |-> Intercom,
     klaviyo |-> Klaviyo, meta |-> Meta, stripe |-> Stripe, sigma |-> Sigma,
     singular |-> Singular, revenuecat |-> RevenueCat, shiphero |-> ShipHero,
     gads |-> GoogleAds, google |-> Google, rest_cursor |-> Rest,
     rest_link |-> Rest, rest_offset |-> Rest, rest_page |-> Rest,
     delivery |-> Delivery]

ASSUME ApisAssumption == Apis \subseteq DOMAIN Policy

\* The loop the request under way is in.
Loop ==
    CASE minting /\ api = "shiphero" -> ShipHeroToken
      [] minting /\ api = "gads" -> GoogleAdsToken
      [] api = "sigma" /\ stage = "page" -> SigmaDownload
      [] OTHER -> Policy[api]

\* Mutant of Tried: the first try counts as a retry.
TriedEarly == 1 + IF minting THEN mintTries ELSE tries

Tried == IF minting THEN mintTries ELSE tries

\* The request goes out once more, if tries are left.
Again(a, wait) == a \in Loop.again /\ <<a, wait>> \notin Loop.chokes

Reported == {"meta", "singular", "sigma"}   \* behind a report
Tokened == {"chargebacks911", "shiphero", "gads"}
-----------------------------------------------------------------------------
(* How pages follow each other, and which is the last.                     *)

\* Pages with a number: the rows move up when one before them goes.
Counted == {"chargebacks911", "konnektive", "intercom_pages", "rest_offset",
            "rest_page"}

Whole == {"singular", "sigma", "gads"}      \* one answer with all the rows

Rank(r) == Cardinality({q \in present : q <= r})

Beyond == {r \in present : r > after}

\* `page` is what the service answers to the request for the next page.
\* Behind a token it may hold fewer rows than asked for (`thin`).
IsPage(page, thin) ==
    \/ api \in Whole /\ page = present /\ ~thin
    \/ /\ api \in Counted \cup {"delivery"}
       /\ page = {r \in present : (Rank(r) - 1) \div PageSize = number - 1}
       /\ ~thin
    \/ /\ api \notin Whole \cup Counted \cup {"delivery"}
       /\ page \subseteq Beyond /\ Cardinality(page) <= PageSize
       /\ \A r \in page, q \in Beyond \ page : r < q
       /\ thin <=> Cardinality(page) < PageSize /\ page # Beyond
       /\ page = {} /\ thin => api \in
              {"klaviyo", "meta", "revenuecat", "shiphero", "google",
               "rest_cursor", "rest_link"}

\* The service's token for a further page (has_more, next, hasNextPage).
HasNext(page) ==
    IF api \in Counted THEN number * PageSize < Cardinality(present)
                       ELSE Beyond \ page # {}

\* chargebacks911, and the offset strategy of rest.
ShortPage(page) == Cardinality(page) < PageSize

\* The page strategy of rest.
RestPageEnds(page) == Cardinality(page) < PageSize

\* No rows, too few, or the total is reached.
KonnektiveEnds(page) ==
    \/ Cardinality(page) < PageSize
    \/ number * PageSize >= Cardinality(present)

IntercomSearchEnds(page) == ~HasNext(page) \/ page = {}

IntercomListEnds(page) == ~HasNext(page) \/ page = {}

IntercomPagesEnd(page) == page = {} \/ ~HasNext(page)

\* The scroll gives out its parameter with every page.
IntercomScrollEnds(page) == page = {}

\* Mutant of KlaviyoEnds: an empty page ends the walk.
KlaviyoEndsOnEmpty(page) == page = {} \/ ~HasNext(page)

KlaviyoEnds(page) == ~HasNext(page)

StripeEnds(page) == page = {} \/ ~HasNext(page)

MetaEnds(page) == ~HasNext(page)

RevenueCatEnds(page) == ~HasNext(page)

ShipHeroEnds(page) == ~HasNext(page)

DriveEnds(page) == ~HasNext(page)

RestCursorEnds(page) == ~HasNext(page)

RestLinkEnds(page) == ~HasNext(page)

\* The last of the payloads prepare_requests cut the batch into.
DeliveryEnds == number * PageSize >= Cardinality(present)

Ends(page) ==
    \/ api \in Whole
    \/ api \in {"chargebacks911", "rest_offset"} /\ ShortPage(page)
    \/ api = "rest_page" /\ RestPageEnds(page)
    \/ api = "konnektive" /\ KonnektiveEnds(page)
    \/ api = "intercom_search" /\ IntercomSearchEnds(page)
    \/ api = "intercom_list" /\ IntercomListEnds(page)
    \/ api = "intercom_pages" /\ IntercomPagesEnd(page)
    \/ api = "intercom_scroll" /\ IntercomScrollEnds(page)
    \/ api = "klaviyo" /\ KlaviyoEnds(page)
    \/ api = "stripe" /\ StripeEnds(page)
    \/ api = "meta" /\ MetaEnds(page)
    \/ api = "revenuecat" /\ RevenueCatEnds(page)
    \/ api = "shiphero" /\ ShipHeroEnds(page)
    \/ api = "google" /\ DriveEnds(page)
    \/ api = "rest_cursor" /\ RestCursorEnds(page)
    \/ api = "rest_link" /\ RestLinkEnds(page)
    \/ api = "delivery" /\ DeliveryEnds
\* Where a next page the service has is not gone to: the last row has no id
\* (stripe), the cursor is missing from what announces it (meta, shiphero,
\* Intercom), repeats (rest_cursor), or leads to another host (rest_link).
Unfollowed ==
    {"stripe", "meta", "shiphero", "intercom_search", "intercom_list",
     "intercom_pages", "intercom_scroll", "rest_cursor", "rest_link"}

\* The status of a report that cannot be read counts as not there yet.
StatusMisread(a) ==
    a = "bare" \/ (api = "meta" /\ a \in {"garbled", "empty"})

\* An answer of 200 that the client goes on from although it says nothing.
Misreads(a) ==
    /\ ~minting
    /\ \/ stage = "poll" /\ StatusMisread(a)
       \/ stage = "page" /\ a \in Loop.last
-----------------------------------------------------------------------------
Init ==
    /\ api \in Apis
    /\ present \in SUBSET Rows
    /\ api = "delivery" => present # {}     \* no request for an empty batch
    /\ stayed = present
    /\ shifts = {} /\ changes = 0
    /\ stage = IF api \in Reported THEN "submit" ELSE "page"
    /\ sent = FALSE /\ minting = FALSE
    /\ tries = 0 /\ mintTries = 0 /\ troubles = 0
    /\ token = "none" /\ used = "none" /\ reminted = FALSE
    /\ rounds = 0 /\ late = FALSE
    /\ number = 1 /\ after = 0
    /\ given = {} /\ twice = {} /\ misled = FALSE
    /\ revoked = 0
    /\ outcome = "running"

\* A row appears in the collection or leaves it.  A report is a snapshot, and
\* so is the batch the destination was given.
Change(r) ==
    /\ outcome = "running"
    /\ api \notin Reported \cup {"delivery"}
    /\ changes < MaxChanges
    /\ changes' = changes + 1
    /\ present' = IF r \in present THEN present \ {r} ELSE present \cup {r}
    /\ stayed' = stayed \ {r}
    /\ shifts' = shifts \cup {IF r \in present THEN "out" ELSE "in"}
    /\ UNCHANGED <<api, tokenVars, walkVars, jobVars, sent, tries, troubles,
                   revoked, outcome>>

\* The token nears its end ("old": gads and chargebacks911 would not use it
\* for a new request), and passes it.  A request is shorter than the time in
\* between (_TOKEN_REFRESH_SKEW_SECONDS), and a new token, which lasts an hour,
\* outlasts the tries of the request it was renewed for.
Age ==
    /\ outcome = "running"
    /\ \/ token = "young" /\ token' = "old"
       \/ /\ token = "old" /\ ~(sent /\ used = "young") /\ ~reminted
          /\ token' = "over"
    /\ UNCHANGED <<api, collectionVars, used, reminted, minting, mintTries,
                   walkVars, jobVars, sent, tries, troubles, revoked, outcome>>

\* The service voids the token before its time: it was revoked, or another
\* process minted one for the same chargebacks911 account.
Revoke ==
    /\ outcome = "running"
    /\ api \in Tokened /\ token \in {"young", "old"}
    /\ revoked < MaxRevoked
    /\ revoked' = revoked + 1
    /\ token' = "void"
    /\ UNCHANGED <<api, collectionVars, used, reminted, minting, mintTries,
                   walkVars, jobVars, sent, tries, troubles, outcome>>

\* _ensure_token, before the first try only.
Chargebacks911NeedsToken ==
    api = "chargebacks911" /\ tries = 0 /\ ~reminted
        /\ token \in {"none", "old", "over"}

\* The access_token property.
ShipHeroNeedsToken == api = "shiphero" /\ token = "none"

\* Mutant of GoogleAdsNeedsToken: a token is used to its last second.
GoogleAdsNeedsTokenLate == api = "gads" /\ token \in {"none", "over"}

\* _headers, before every try.
GoogleAdsNeedsToken == api = "gads" /\ token \in {"none", "old", "over"}

NeedsToken ==
    Chargebacks911NeedsToken \/ ShipHeroNeedsToken \/ GoogleAdsNeedsToken

\* A request goes out, after one for a token when there is none to use.
Send ==
    /\ outcome = "running" /\ ~sent
    /\ sent' = TRUE /\ used' = token
    /\ minting' = (minting \/ NeedsToken)
    /\ mintTries' = IF minting THEN mintTries ELSE 0
    /\ UNCHANGED <<api, collectionVars, token, reminted, walkVars, jobVars,
                   tries, troubles, revoked, outcome>>

Refused == ~minting /\ api \in Tokened /\ token \in {"over", "void"}

\* An answer that did not help: the loop goes round, or the call fails.  A
\* destination's request may have been accepted although no good answer came.
Trouble(a, wait, accepted, page) ==
    /\ sent /\ sent' = FALSE
    /\ wait # "short" => a \in Busy
    /\ ~Misreads(a)
    /\ ~(api = "gads" /\ minting /\ a \in {"garbled", "empty"})
    /\ a = "refused" =>
           api \in {"chargebacks911", "konnektive", "meta", "shiphero"}
    /\ accepted => a \in NoAnswer \cup {"down"} /\ api = "delivery"
    /\ IF accepted
       THEN IsPage(page, FALSE) /\ given' = given \cup page
                                /\ twice' = twice \cup (given \cap page)
       ELSE page = {} /\ UNCHANGED <<given, twice>>
    /\ troubles' = troubles + 1
    /\ IF Again(a, wait) /\ Tried + 1 < Loop.tries
       THEN /\ tries' = IF minting THEN tries ELSE tries + 1
            /\ mintTries' = IF minting THEN mintTries + 1 ELSE mintTries
            /\ UNCHANGED outcome
       ELSE /\ outcome' = IF Again(a, wait) THEN "spent" ELSE "failed"
            /\ UNCHANGED <<tries, mintTries>>
    /\ UNCHANGED <<api, collectionVars, token, used, reminted, minting, number,
                   after, misled, jobVars, revoked>>

\* What requests raises for a token's answer that is not JSON is one of the
\* exceptions for which Google Ads tries the request itself again.
TokenGarbled ==
    /\ api = "gads" /\ sent /\ minting
    /\ sent' = FALSE /\ minting' = FALSE /\ mintTries' = 0
    /\ troubles' = troubles + 1
    /\ IF tries + 1 < GoogleAds.tries
       THEN tries' = tries + 1 /\ UNCHANGED outcome
       ELSE outcome' = "spent" /\ UNCHANGED tries
    /\ UNCHANGED <<api, collectionVars, token, used, reminted, walkVars, jobVars,
                   revoked>>

\* A token comes back and the request it is for goes out at once.  ShipHero
\* has used up a try of the request with the answer 401.
Minted ==
    /\ sent /\ minting
    /\ minting' = FALSE
    /\ token' = "young" /\ used' = "young"
    /\ IF api = "shiphero" /\ tries >= ShipHero.tries
       THEN sent' = FALSE /\ outcome' = "spent"
       ELSE UNCHANGED <<sent, outcome>>
    /\ troubles' = IF api = "chargebacks911" THEN 0 ELSE troubles - mintTries
    /\ UNCHANGED <<api, collectionVars, reminted, mintTries, walkVars, jobVars,
                   tries, revoked>>

\* _bearer_get: a token is minted and the request starts over, once.
Chargebacks911Unauthorized ==
    /\ api = "chargebacks911"
    /\ IF reminted
       THEN /\ outcome' = "unauthorized" /\ sent' = FALSE
            /\ UNCHANGED <<minting, reminted, tries>>
       ELSE /\ minting' = TRUE /\ reminted' = TRUE /\ tries' = 0
            /\ UNCHANGED <<outcome, sent>>

\* The token is refreshed once; the next try is the loop's next.
ShipHeroUnauthorized ==
    /\ api = "shiphero"
    /\ IF reminted
       THEN /\ outcome' = "unauthorized" /\ sent' = FALSE
            /\ UNCHANGED <<minting, reminted, tries>>
       ELSE /\ minting' = TRUE /\ reminted' = TRUE /\ tries' = tries + 1
            /\ UNCHANGED <<outcome, sent>>

\* Any status but 200 ends the call.
GoogleAdsUnauthorized ==
    /\ api = "gads"
    /\ outcome' = "unauthorized" /\ sent' = FALSE
    /\ UNCHANGED <<minting, reminted, tries>>

\* The service answers 401 to a token that is over or void.
Unauthorized ==
    /\ sent /\ Refused
    /\ \/ Chargebacks911Unauthorized
       \/ ShipHeroUnauthorized
       \/ GoogleAdsUnauthorized
    /\ mintTries' = 0
    /\ UNCHANGED <<api, collectionVars, token, used, walkVars, jobVars,
                   troubles, revoked>>
-----------------------------------------------------------------------------
(* The request succeeded.                                                  *)
Forward == sent /\ ~minting /\ ~Refused
           /\ sent' = FALSE /\ tries' = 0 /\ troubles' = 0 /\ reminted' = FALSE

\* The report is ordered.
Submit ==
    /\ stage = "submit" /\ Forward
    /\ stage' = "poll" /\ late' = FALSE
    /\ UNCHANGED <<api, collectionVars, token, used, minting, mintTries,
                   walkVars, rounds, revoked, outcome>>

Deadline ==
    /\ outcome = "running" /\ stage = "poll" /\ ~late
    /\ late' = TRUE
    /\ UNCHANGED <<api, collectionVars, tokenVars, walkVars, stage, rounds,
                   sent, tries, troubles, revoked, outcome>>

\* A report that failed or was skipped is ordered again, up to max_retries
\* times; AsyncJobFailed then has the window bisected.
MetaPoll(status) ==
    /\ api = "meta"
    /\ CASE status = "done" -> stage' = "page" /\ UNCHANGED <<rounds, outcome>>
         [] status = "failed" ->
                /\ rounds' = rounds + 1
                /\ IF rounds < MaxRetries
                   THEN stage' = "submit" /\ UNCHANGED outcome
                   ELSE outcome' = "jobFailed" /\ UNCHANGED stage
         [] status = "pending" ->
                /\ outcome' = IF late THEN "late" ELSE outcome
                /\ UNCHANGED <<stage, rounds>>

\* Mutant of SingularPoll: the deadline is not looked at.
SingularPollsOn(status) ==
    /\ api = "singular"
    /\ stage' = IF status = "done" THEN "page" ELSE stage
    /\ outcome' = IF status = "failed" THEN "jobFailed" ELSE outcome
    /\ UNCHANGED rounds

SingularPoll(status) ==
    /\ api = "singular"
    /\ stage' = IF status = "done" THEN "page" ELSE stage
    /\ outcome' = CASE status = "failed" -> "jobFailed"
                    [] status = "pending" /\ late -> "late"
                    [] OTHER -> outcome
    /\ UNCHANGED rounds

SigmaPoll(status) ==
    /\ api = "sigma"
    /\ stage' = IF status = "done" THEN "page" ELSE stage
    /\ outcome' = CASE status = "failed" -> "jobFailed"
                    [] status = "pending" /\ late -> "late"
                    [] OTHER -> outcome
    /\ UNCHANGED rounds

\* The status of the report.
Poll(status) ==
    /\ stage = "poll" /\ Forward
    /\ MetaPoll(status) \/ SingularPoll(status) \/ SigmaPoll(status)
    /\ UNCHANGED <<api, collectionVars, token, used, minting, mintTries,
                   walkVars, late, revoked>>

\* An answer that says nothing: no status yet, or a page without rows and
\* without a next one.
Misread(a) ==
    /\ Misreads(a) /\ Forward
    /\ IF stage = "poll"
       THEN outcome' = (IF late THEN "late" ELSE outcome) /\ UNCHANGED misled
       ELSE outcome' = "complete" /\ misled' = TRUE
    /\ UNCHANGED <<api, collectionVars, token, used, minting, mintTries,
                   number, after, given, twice, jobVars, revoked>>

\* starting_after: the last row of the page.
LastOf(page) == CHOOSE r \in page : \A q \in page : q <= r

\* A page comes back and its rows are yielded.  It may announce a next one in a
\* way the client does not follow (`stray`).
Page(page, thin, stray) ==
    /\ stage = "page" /\ Forward
    /\ stray => api \in Unfollowed
    /\ IsPage(page, thin)
    /\ stray => HasNext(page)
    /\ changes + (IF thin THEN 1 ELSE 0) <= MaxChanges
    /\ changes' = IF thin THEN changes + 1 ELSE changes
    /\ given' = given \cup page
    /\ twice' = twice \cup (given \cap page)
    /\ after' = IF page = {} THEN after ELSE LastOf(page)
    /\ number' = number + 1
    /\ outcome' = IF Ends(page) \/ stray THEN "complete" ELSE outcome
    /\ misled' = (misled \/ stray)
    /\ UNCHANGED <<api, present, stayed, shifts, token, used, minting,
                   mintTries, jobVars, revoked>>

Answer ==
    \/ \E a \in Troubles, wait \in Waits, accepted \in BOOLEAN :
           \E page \in IF accepted THEN SUBSET present ELSE {{}} :
               Trouble(a, wait, accepted, page)
    \/ TokenGarbled
    \/ Minted
    \/ Unauthorized
    \/ Submit
    \/ \E status \in {"done", "failed", "pending"} : Poll(status)
    \/ \E a \in Odd : Misread(a)
    \/ \E page \in SUBSET present, thin \in BOOLEAN, stray \in BOOLEAN :
           Page(page, thin, stray)

Next ==
    \/ \E r \in Rows : Change(r)
    \/ Age
    \/ Revoke
    \/ Send
    \/ Deadline
    \/ Answer

Spec == Init /\ [][Next]_vars

\* Every request has a timeout, so it is answered or dropped, and the clock
\* goes on.
FairSpec == Spec /\ WF_vars(Send) /\ WF_vars(Answer) /\ WF_vars(Deadline)
-----------------------------------------------------------------------------
\* A walk that ends well has yielded every row that was there all along: no
\* retry, renewed token, resubmitted report or page cut short makes it end
\* early.  Two things the code does not guard against: pages with a number
\* move up when a row before them goes, and a service that breaks its own
\* protocol is believed: most clients take a body without the fields of a page
\* for the last one, Intercom and Meta one without a body, Meta and the file of
\* a Sigma report one that is not in the format (`last`), and several do not
\* tell a next page they cannot go to from none (Unfollowed).
StayersAreGiven ==
    outcome = "complete" =>
        \/ stayed \subseteq given
        \/ api \in Counted /\ "out" \in shifts
        \/ misled

\* No row is yielded twice by one walk, whatever is tried again, unless the
\* pages have numbers and a row came in before them.  A delivery may repeat a
\* payload whose answer was lost; Klaviyo tells them by unique_id.
NothingTwice ==
    twice # {} => api = "delivery" \/ (api \in Counted /\ "in" \in shifts)

\* A walk gives what is there, and gives it once.
WalkIsExact == StayersAreGiven /\ NothingTwice

\* An expired token never ends a walk: only one that was voided before its time
\* can, by another process that mints for the same account for instance
\* (chargebacks911/client.py, _bearer_get).
OnlyRevocationLocksOut == outcome = "unauthorized" => revoked > 0

\* A loop that gives up for want of tries has met max_retries + 1 troubles in a
\* row that it tries again (max_retries for ShipHero and deliveries), for
\* ShipHero with a refresh counted as one: no progress made in between, no
\* renewed token and no nested loop uses up its tries.  What a client does not
\* try again at all ends the call at once (`again`), and so does a Retry-After
\* it cannot read, cannot sleep for or refuses (`chokes`).
TroubleIsOutlasted ==
    outcome = "spent" =>
        troubles + (IF api = "shiphero" /\ reminted /\ ~minting THEN 1 ELSE 0)
            >= Loop.tries

\* Every walk ends, whatever the service answers: tries are bounded, a token
\* is renewed once per request and a report is waited for until a deadline.
EveryWalkEnds == <>(outcome # "running")
=============================================================================
