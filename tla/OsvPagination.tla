---------------------------- MODULE OsvPagination ----------------------------
(***************************************************************************)
(* The pagination pass of match_components (src/src/vuln/osv.cpp): every   *)
(* purl whose first page carries a next_page_token is asked for its next   *)
(* page, all purls in one request per round, until no token is left or the *)
(* round bound is reached; the pages are then merged and stored.           *)
(*                                                                         *)
(* A payload is the set of pages whose advisories it holds and the token   *)
(* it carries: a token, of whatever type, is what makes                    *)
(* extract_advisory_revisions report the list as truncated, but only one   *)
(* that is a string is followed. The OSV server is external and may answer *)
(* anything: a field of a page may have any type, or be absent.            *)
(***************************************************************************)
EXTENDS Integers, FiniteSets

CONSTANTS
    Purls,          \* the purls freshly fetched by this run
    Tokens,         \* continuation tokens the server may send
    NoToken,        \* a page without a next_page_token
    Unreadable,     \* a next_page_token that is not a string
    MaxRounds       \* kMaxOsvPaginationRounds

ASSUME MaxRoundsAssumption == MaxRounds \in Nat
ASSUME NoTokenAssumption == NoToken \notin Tokens
ASSUME UnreadableAssumption == Unreadable \notin Tokens \cup {NoToken}

VARIABLES
    payload,        \* payload_by_purl of this run
    cached,         \* the detection entry of each purl in the cache file
    waiting,        \* next_page_token_by_purl, NoToken for a purl not in it
    extra,          \* extra_vulns_by_purl: the follow-up pages accumulated
    hasExtra,       \* the purls that are keys of extra_vulns_by_purl
    incomplete,     \* incomplete_pagination_purls
    round,          \* page_round
    merged,         \* the purls the merge loop has passed
    pc,             \* "rounds", "merge", "done", or "crashed"
    \* What the server said, for the properties: never read by the code.
    ended,          \* the purls whose last page carried no token
    pages,          \* the pages that carried advisories, or a garbled field
    asked,          \* the token last sent for each purl
    misread         \* the fields of each purl's pages that had another type

run == <<payload, waiting, extra, hasExtra, incomplete, round, merged>>
said == <<ended, pages, asked, misread>>
vars == <<run, said, cached, pc>>

PageNumbers == 0 .. MaxRounds
VulnsFields == {"array", "absent", "garbled"}
TokenFields == Tokens \cup {NoToken, Unreadable}
Payload == [pages : SUBSET PageNumbers, token : TokenFields, garbled : BOOLEAN]

\* Page 0 of each purl has been fetched and stored, whatever it looks like: a
\* `vulns` field that is not an array is kept in the payload verbatim.
FirstPage(field, token) ==
    [pages |-> IF field = "array" THEN {0} ELSE {}, token |-> token,
     garbled |-> field = "garbled"]

Init ==
    /\ payload \in [Purls -> {FirstPage(f, t) : f \in VulnsFields, t \in TokenFields}]
    /\ cached = payload
    /\ waiting = [p \in Purls |-> IF payload[p].token \in Tokens THEN payload[p].token ELSE NoToken]
    /\ extra = [p \in Purls |-> {}]
    /\ hasExtra = {} /\ incomplete = {} /\ merged = {}
    /\ round = 0
    /\ pc = "rounds"
    /\ ended = {p \in Purls : payload[p].token = NoToken}
    /\ pages = [p \in Purls |-> IF payload[p].pages = {} /\ ~payload[p].garbled THEN {} ELSE {0}]
    /\ asked = [p \in Purls |-> NoToken]
    /\ misread = [p \in Purls |-> IF payload[p].garbled THEN {"vulns"} ELSE {}]

Asking == {p \in Purls : waiting[p] # NoToken}

------------------------------------------------------------------------------
\* The response of a round is not HTTP 200, not JSON, or answers another number
\* of queries: every purl still waiting stays truncated.
RoundUnusable ==
    /\ pc = "rounds" /\ round < MaxRounds /\ Asking # {}
    /\ asked' = [p \in Purls |-> IF p \in Asking THEN waiting[p] ELSE asked[p]]
    /\ incomplete' = incomplete \cup Asking
    /\ pc' = "merge"
    /\ UNCHANGED <<payload, waiting, extra, hasExtra, round, merged, ended, pages, misread, cached>>

\* The results a server may give for one query: not an object, or a page.
Results ==
    [object : {TRUE}, vulns : VulnsFields, token : TokenFields]
    \cup {[object |-> FALSE, vulns |-> "absent", token |-> NoToken]}

\* Its fields that are there and have another type than the code looks for.
Misread(result) ==
    (IF result.vulns = "garbled" THEN {"vulns"} ELSE {})
    \cup (IF result.token = Unreadable THEN {"next_page_token"} ELSE {})

\* What the loop over follow_up_results does with an answer for each asking
\* purl; the tokens of the purls in `followed` are followed, other tokens are not.
\* A token that is no string is taken for none: the page counts as the last one.
ApplyResults(results, followed) ==
    /\ extra' = [p \in Purls |->
          IF p \in Asking /\ results[p].object /\ results[p].vulns = "array"
          THEN extra[p] \cup {round + 1} ELSE extra[p]]
    /\ hasExtra' = hasExtra \cup
          {p \in Asking : results[p].object /\ results[p].vulns = "array"}
    /\ waiting' = [p \in Purls |->
          IF p \in Asking /\ results[p].object /\ p \in followed THEN results[p].token ELSE NoToken]
    /\ incomplete' = incomplete \cup
          {p \in Asking : \/ ~results[p].object
                          \/ results[p].token \in Tokens /\ p \notin followed}
    /\ round' = round + 1
    /\ ended' = ended \cup {p \in Asking : results[p].object /\ results[p].token = NoToken}
    /\ pages' = [p \in Purls |->
          IF p \in Asking /\ results[p].object /\ results[p].vulns # "absent"
          THEN pages[p] \cup {round + 1} ELSE pages[p]]
    /\ asked' = [p \in Purls |-> IF p \in Asking THEN waiting[p] ELSE asked[p]]
    /\ misread' = [p \in Purls |-> IF p \in Asking THEN misread[p] \cup Misread(results[p]) ELSE misread[p]]
    /\ UNCHANGED <<payload, merged, cached, pc>>

\* Variant for mutation: a token the server echoes back is followed again.
RoundFollowsEcho ==
    /\ pc = "rounds" /\ round < MaxRounds /\ Asking # {}
    /\ \E results \in [Asking -> Results] :
          ApplyResults(results, {p \in Asking : results[p].token \in Tokens})

\* Variant for mutation: the rounds are not counted.
RoundUncounted ==
    /\ pc = "rounds" /\ Asking # {}
    /\ \E results \in [Asking -> Results] :
          waiting' = [p \in Purls |-> IF p \in Asking /\ results[p].token \in Tokens
                                      THEN results[p].token ELSE NoToken]
    /\ UNCHANGED <<payload, extra, hasExtra, incomplete, round, merged, said, cached, pc>>

\* A follow-up request and its usable response: one page for every asking purl.
\* A token equal to the one just sent makes no progress and is not followed.
Round ==
    /\ pc = "rounds" /\ round < MaxRounds /\ Asking # {}
    /\ \E results \in [Asking -> Results] :
          ApplyResults(results, {p \in Asking : results[p].token \in Tokens \ {waiting[p]}})

\* Variant for mutation: a purl left over at the round bound is not recorded.
RoundsEndForgetsLeftOver ==
    /\ pc = "rounds"
    /\ round = MaxRounds \/ Asking = {}
    /\ pc' = "merge"
    /\ UNCHANGED <<run, said, cached>>

\* No token is left, or the round bound is exhausted with some left over.
RoundsEnd ==
    /\ pc = "rounds"
    /\ round = MaxRounds \/ Asking = {}
    /\ incomplete' = incomplete \cup Asking
    /\ pc' = "merge"
    /\ UNCHANGED <<payload, waiting, extra, hasExtra, round, merged, said, cached>>

\* Variant for mutation: the token is erased from every merged payload.
MergeErasesToken(p) ==
    [pages |-> payload[p].pages \cup extra[p], token |-> NoToken, garbled |-> FALSE]

\* The payload with the accumulated pages appended; a `vulns` of page 0 that is
\* not an array gives way to a fresh array.
Merge(p) ==
    [pages |-> payload[p].pages \cup extra[p],
     token |-> IF p \in incomplete THEN payload[p].token ELSE NoToken,
     garbled |-> FALSE]

\* The merge of one purl with follow-up pages, and its store, which may fail.
MergePurl(p) ==
    /\ pc = "merge" /\ p \in hasExtra \ merged
    /\ payload' = [payload EXCEPT ![p] = Merge(p)]
    /\ cached' \in {cached, [cached EXCEPT ![p] = Merge(p)]}
    /\ merged' = merged \cup {p}
    /\ UNCHANGED <<waiting, extra, hasExtra, incomplete, round, said, pc>>

\* Every purl with follow-up pages has been merged.
PassEnds ==
    /\ pc = "merge" /\ hasExtra \subseteq merged
    /\ pc' = "done"
    /\ UNCHANGED <<run, said, cached>>

\* bomwerk is killed: only the cache file survives.
Crash ==
    /\ pc \in {"rounds", "merge"}
    /\ pc' = "crashed"
    /\ UNCHANGED <<run, said, cached>>

Step == RoundUnusable \/ Round \/ RoundsEnd \/ (\E p \in Purls : MergePurl(p)) \/ PassEnds

Next == Step \/ Crash

Spec == Init /\ [][Next]_vars

\* One thread; a request ends by answer, error or transport timeout.
FairSpec == Spec /\ WF_vars(Step)

------------------------------------------------------------------------------
TypeOK ==
    /\ payload \in [Purls -> Payload] /\ cached \in [Purls -> Payload]
    /\ waiting \in [Purls -> Tokens \cup {NoToken}]
    /\ asked \in [Purls -> Tokens \cup {NoToken}]
    /\ misread \in [Purls -> SUBSET {"vulns", "next_page_token"}]
    /\ extra \in [Purls -> SUBSET PageNumbers] /\ pages \in [Purls -> SUBSET PageNumbers]
    /\ hasExtra \subseteq Purls /\ incomplete \subseteq Purls
    /\ merged \subseteq Purls /\ ended \subseteq Purls
    /\ round \in 0 .. MaxRounds
    /\ pc \in {"rounds", "merge", "done", "crashed"}

\* A list that carries no token is taken downstream, and by every later run
\* that reads the cache, for the full list.
IsWhole(p, entry) == p \in ended /\ entry.pages = pages[p]

\* No partial list is ever presented as complete: an entry of the cache file
\* without a token, at any moment, even one a killed run left behind, holds
\* every page of a list whose last page was reached (osv.cpp:749-754). Not so
\* for a purl with a page whose `vulns` was no array, which the merge drops, or
\* a follow-up page whose token was no string, which ends the list there.
NeverPartialAsComplete ==
    \A p \in Purls : misread[p] = {} =>
        /\ cached[p].token = NoToken => IsWhole(p, cached[p])
        /\ pc = "done" /\ payload[p].token = NoToken => IsWhole(p, payload[p])

\* A run that gave up on a purl's pages says so: the purl counts among the
\* incomplete ones (the first kVulnCoverageIncomplete warning), or its payload
\* keeps the token of page 0 that is no string (the second one). And a purl
\* counted as incomplete never had a last page. The follow-up page whose token
\* was no string is excepted: the code takes it for the last.
GivingUpIsReported ==
    pc = "done" => \A p \in Purls :
        /\ p \in incomplete => p \notin ended
        /\ p \notin ended =>
              \/ p \in incomplete \/ payload[p].token = Unreadable
              \/ "next_page_token" \in misread[p]

\* "A server echoing back the EXACT token it was just sent cannot be making
\* progress" (osv.cpp:785): no request repeats the token of the one before.
NeverResendsToken ==
    [][round' # round => \A p \in Asking : asked'[p] # asked[p]]_vars

\* A server that always has one more page cannot keep the run from ending.
PassTerminates == <>(pc \in {"done", "crashed"})
==============================================================================
