------------------------ MODULE OsvAdvisories_proofs ------------------------
(***************************************************************************)
(* The advisories of a purl, from the feed's pages to what changed since   *)
(* the last run: the proofs about OsvPagination and AdvisoryDelta. The two *)
(* share no state: the first hands a complete list over, the second reads  *)
(* it beside the stored one.                                               *)
(*                                                                         *)
(* The pagination pass of match_components for any number of purls, of     *)
(* tokens and of rounds, whatever the server answers: what it gave up on   *)
(* is what it reports, and no payload and no cache entry without a token   *)
(* is a partial list, but for what the code misreads in a page.            *)
(*                                                                         *)
(* The single pass of diff_advisory_revisions for lists of any length. The *)
(* loop invariant: every id before one cursor is smaller than every id     *)
(* from the other cursor on, so an id that was passed over cannot turn up  *)
(* later in the other list, and the outputs are the differences of what    *)
(* has been passed.                                                        *)
(***************************************************************************)
EXTENDS OsvPagination, AdvisoryDelta, SequenceTheorems, TLAPS

\* What a run reports of a purl whose last page it never reached, or fails to.
IsLost(p) ==
    \/ p \in incomplete \/ payload[p].token = Unreadable
    \/ "next_page_token" \in misread[p]

\* What a waiting token, or none, says of a purl.
TokenInv ==
    \A p \in Purls :
        /\ p \in ended => waiting[p] = NoToken
        /\ p \notin ended /\ waiting[p] = NoToken => IsLost(p)
        /\ pc = "rounds" /\ p \in incomplete => waiting[p] = NoToken
        /\ p \in incomplete => p \notin ended
        /\ pc \in {"merge", "done"} /\ p \notin ended => IsLost(p)
        /\ payload[p].token = Unreadable => waiting[p] = NoToken /\ p \notin hasExtra

\* Where the pages of a purl, none of them misread, are before and after its merge.
PageInv ==
    /\ pc = "rounds" => merged = {}
    /\ \A p \in Purls : misread[p] = {} =>
          /\ p \notin merged => payload[p].pages \cup extra[p] = pages[p]
          /\ p \notin merged /\ payload[p].token = NoToken =>
                p \in ended /\ p \notin incomplete /\ extra[p] = {}
          /\ p \in merged /\ payload[p].token = NoToken => IsWhole(p, payload[p])
          /\ cached[p].token = NoToken => IsWhole(p, cached[p])

------------------------------------------------------------------------------
\* A first page is a payload, whatever shape its `vulns` field has.
LEMMA FirstPageType ==
    \A f \in VulnsFields, t \in TokenFields : FirstPage(f, t) \in Payload
BY MaxRoundsAssumption DEF FirstPage, Payload, PageNumbers

\* The state before the first round is well-typed.
LEMMA TypeInit == Init => TypeOK
<1> SUFFICES ASSUME Init PROVE TypeOK
  OBVIOUS
<1>1. payload \in [Purls -> Payload]
  <2>1. {FirstPage(f, t) : f \in VulnsFields, t \in TokenFields} \subseteq Payload
    BY FirstPageType
  <2> QED BY <2>1 DEF Init
<1>2. misread \in [Purls -> SUBSET {"vulns", "next_page_token"}]
  BY DEF Init
<1>3. waiting \in [Purls -> Tokens \cup {NoToken}]
  BY DEF Init
<1>4. pages \in [Purls -> SUBSET PageNumbers]
  BY MaxRoundsAssumption DEF Init, PageNumbers
<1> QED BY <1>1, <1>2, <1>3, <1>4, MaxRoundsAssumption DEF Init, TypeOK, PageNumbers

\* A round with any usable response keeps the state well-typed.
LEMMA RoundType ==
    ASSUME TypeOK, pc = "rounds", round < MaxRounds,
           NEW results \in [Asking -> Results],
           ApplyResults(results, {q \in Asking : results[q].token \in Tokens \ {waiting[q]}})
    PROVE  TypeOK'
<1>1. round + 1 \in PageNumbers
  BY MaxRoundsAssumption DEF TypeOK, PageNumbers
<1>2. misread' \in [Purls -> SUBSET {"vulns", "next_page_token"}]
  <2>1. \A result : Misread(result) \in SUBSET {"vulns", "next_page_token"}
    BY DEF Misread
  <2> QED BY <2>1 DEF ApplyResults, TypeOK
<1>3. extra' \in [Purls -> SUBSET PageNumbers]
  BY <1>1 DEF ApplyResults, TypeOK
<1>4. pages' \in [Purls -> SUBSET PageNumbers]
  BY <1>1 DEF ApplyResults, TypeOK
<1>5. waiting' \in [Purls -> Tokens \cup {NoToken}]
  <2> DEFINE followed == {q \in Asking : results[q].token \in Tokens \ {waiting[q]}}
  <2>1. waiting' = [p \in Purls |-> IF p \in Asking /\ results[p].object /\ p \in followed
                                   THEN results[p].token ELSE NoToken]
    BY DEF ApplyResults
  <2>2. \A p \in followed : results[p].token \in Tokens
    OBVIOUS
  <2> HIDE DEF followed
  <2> QED BY <2>1, <2>2
<1>6. asked' \in [Purls -> Tokens \cup {NoToken}]
  BY DEF ApplyResults, TypeOK
<1>7. hasExtra' \subseteq Purls /\ incomplete' \subseteq Purls /\ ended' \subseteq Purls
  BY DEF ApplyResults, TypeOK, Asking
<1>8. round' \in 0 .. MaxRounds
  BY <1>1 DEF ApplyResults, PageNumbers
<1> QED BY <1>2, <1>3, <1>4, <1>5, <1>6, <1>7, <1>8 DEF ApplyResults, TypeOK

\* A merged payload is a payload.
LEMMA MergeType ==
    ASSUME TypeOK, NEW p \in Purls
    PROVE  Merge(p) \in Payload
<1>1. payload[p] \in Payload /\ extra[p] \in SUBSET PageNumbers
  BY DEF TypeOK
<1> QED BY <1>1 DEF Merge, Payload, TokenFields

\* Every step of the pass keeps its state well-typed.
LEMMA TypeNext == TypeOK /\ [Next]_vars => TypeOK'
<1> SUFFICES ASSUME TypeOK, [Next]_vars PROVE TypeOK'
  OBVIOUS
<1>1. CASE RoundUnusable
  BY <1>1 DEF RoundUnusable, TypeOK, Asking
<1>2. CASE Round
  BY <1>2, RoundType DEF Round
<1>3. CASE RoundsEnd
  BY <1>3 DEF RoundsEnd, TypeOK, Asking, said
<1>4. ASSUME NEW p \in Purls, MergePurl(p) PROVE TypeOK'
  <2>1. payload' \in [Purls -> Payload] /\ cached' \in [Purls -> Payload]
    BY <1>4, MergeType DEF MergePurl, TypeOK
  <2> QED BY <1>4, <2>1 DEF MergePurl, TypeOK, said
<1>5. CASE PassEnds
  BY <1>5 DEF PassEnds, TypeOK, run, said
<1>6. CASE Crash
  BY <1>6 DEF Crash, TypeOK, run, said
<1>7. CASE UNCHANGED vars
  BY <1>7 DEF vars, run, said, TypeOK
<1> QED BY <1>1, <1>2, <1>3, <1>4, <1>5, <1>6, <1>7 DEF Next, Step

\* Type correctness of the pagination pass, whatever the server answers.
THEOREM TypeCorrect == Spec => []TypeOK
<1> QED BY TypeInit, TypeNext, PTL DEF Spec

------------------------------------------------------------------------------
\* Before the first round a purl waits exactly when its page 0 has a token.
LEMMA TokenInit == Init => TokenInv
<1> SUFFICES ASSUME Init, NEW p \in Purls
             PROVE  /\ p \in ended => waiting[p] = NoToken
                    /\ p \notin ended /\ waiting[p] = NoToken => payload[p].token = Unreadable
                    /\ payload[p].token = Unreadable => waiting[p] = NoToken
                    /\ hasExtra = {} /\ incomplete = {} /\ pc = "rounds"
  BY DEF TokenInv, IsLost
<1>1. PICK f \in VulnsFields, t \in TokenFields : payload[p] = FirstPage(f, t)
  BY DEF Init
<1>2. payload[p].token \in TokenFields
  BY <1>1 DEF FirstPage
<1>3. /\ waiting[p] = IF payload[p].token \in Tokens THEN payload[p].token ELSE NoToken
      /\ p \in ended <=> payload[p].token = NoToken
      /\ hasExtra = {} /\ incomplete = {} /\ pc = "rounds"
  BY DEF Init
<1> QED BY <1>2, <1>3, NoTokenAssumption, UnreadableAssumption DEF TokenFields

\* A usable round leaves each purl waiting, ended or recorded as incomplete.
LEMMA TokenRound ==
    ASSUME TypeOK, TokenInv, Round
    PROVE  TokenInv'
<1>1. PICK results \in [Asking -> Results] :
         ApplyResults(results, {q \in Asking : results[q].token \in Tokens \ {waiting[q]}})
  BY DEF Round
<1> SUFFICES ASSUME NEW p \in Purls
             PROVE  /\ p \in ended' => waiting'[p] = NoToken
                    /\ p \notin ended' /\ waiting'[p] = NoToken => IsLost(p)'
                    /\ p \in incomplete' => waiting'[p] = NoToken
                    /\ p \in incomplete' => p \notin ended'
                    /\ payload'[p].token = Unreadable => waiting'[p] = NoToken /\ p \notin hasExtra'
                    /\ pc' = "rounds"
  BY DEF TokenInv
<1>2. pc = "rounds" /\ pc' = "rounds" /\ payload' = payload
  BY <1>1 DEF Round, ApplyResults
<1>3. CASE p \notin Asking
  <2>1. waiting[p] = NoToken
    BY <1>3 DEF Asking
  <2>2. waiting'[p] = NoToken /\ misread'[p] = misread[p]
    BY <1>1, <1>3 DEF ApplyResults
  <2>3. /\ (p \in ended' <=> p \in ended) /\ (p \in incomplete' <=> p \in incomplete)
        /\ (p \in hasExtra' <=> p \in hasExtra)
    BY <1>1, <1>3 DEF ApplyResults
  <2> QED BY <1>2, <2>1, <2>2, <2>3 DEF TokenInv, IsLost
<1>4. CASE p \in Asking
  <2>1. waiting[p] # NoToken /\ p \notin ended /\ p \notin incomplete /\ payload[p].token # Unreadable
    BY <1>2, <1>4 DEF Asking, TokenInv
  <2>2. p \in ended' <=> results[p].object /\ results[p].token = NoToken
    BY <1>1, <1>4, <2>1 DEF ApplyResults
  <2>3. p \in incomplete' <=> ~results[p].object \/
                              (results[p].token \in Tokens /\ results[p].token = waiting[p])
    BY <1>1, <1>4, <2>1 DEF ApplyResults
  <2>4. waiting'[p] = IF results[p].object /\ results[p].token \in Tokens \ {waiting[p]}
                      THEN results[p].token ELSE NoToken
    BY <1>1, <1>4 DEF ApplyResults
  <2>5. results[p].token = Unreadable => "next_page_token" \in misread'[p]
    BY <1>1, <1>4 DEF ApplyResults, Misread
  <2>6. results[p].object => results[p].token \in TokenFields
    <3>1. results[p] \in Results
      BY <1>4
    <3>2. CASE results[p] \in [object : {TRUE}, vulns : VulnsFields, token : TokenFields]
      BY <3>2
    <3>3. CASE results[p] = [object |-> FALSE, vulns |-> "absent", token |-> NoToken]
      BY <3>3
    <3> QED BY <3>1, <3>2, <3>3 DEF Results
  <2>7. CASE ~results[p].object
    BY <1>2, <2>1, <2>2, <2>3, <2>4, <2>7 DEF IsLost
  <2>8. CASE results[p].object /\ results[p].token \in Tokens
    BY <1>2, <2>1, <2>2, <2>3, <2>4, <2>8, NoTokenAssumption DEF IsLost
  <2>9. CASE results[p].object /\ results[p].token \in {NoToken, Unreadable}
    BY <1>2, <2>1, <2>2, <2>3, <2>4, <2>5, <2>9, NoTokenAssumption, UnreadableAssumption DEF IsLost
  <2> QED BY <2>6, <2>7, <2>8, <2>9 DEF TokenFields
<1> QED BY <1>3, <1>4

\* The other steps record every purl that is left over, or change none of this.
LEMMA TokenNext == TypeOK /\ TokenInv /\ [Next]_vars => TokenInv'
<1> SUFFICES ASSUME TypeOK, TokenInv, [Next]_vars PROVE TokenInv'
  OBVIOUS
<1>1. CASE RoundUnusable
  BY <1>1 DEF RoundUnusable, TokenInv, IsLost, Asking
<1>2. CASE Round
  BY <1>2, TokenRound
<1>3. CASE RoundsEnd
  BY <1>3 DEF RoundsEnd, TokenInv, IsLost, Asking, said
<1>4. ASSUME NEW p \in Purls, MergePurl(p) PROVE TokenInv'
  <2>1. UNCHANGED <<waiting, incomplete, hasExtra, ended, misread, pc>> /\ p \in hasExtra
    BY <1>4 DEF MergePurl, said
  <2>2. \A q \in Purls : payload'[q].token = Unreadable <=> payload[q].token = Unreadable
    <3>1. payload' = [payload EXCEPT ![p] = Merge(p)]
      BY <1>4 DEF MergePurl
    <3>2. payload[p].token # Unreadable
      BY <2>1 DEF TokenInv
    <3>3. Merge(p).token # Unreadable
      BY <3>2, UnreadableAssumption DEF Merge
    <3> QED BY <3>1, <3>2, <3>3 DEF TypeOK
  <2> QED BY <2>1, <2>2 DEF TokenInv, IsLost
<1>5. CASE PassEnds
  BY <1>5 DEF PassEnds, TokenInv, IsLost, run, said
<1>6. CASE Crash
  BY <1>6 DEF Crash, TokenInv, IsLost, run, said
<1>7. CASE UNCHANGED vars
  BY <1>7 DEF vars, run, said, TokenInv, IsLost
<1> QED BY <1>1, <1>2, <1>3, <1>4, <1>5, <1>6, <1>7 DEF Next, Step

\* When the pass is over, a purl whose last page was never reached is reported,
\* by its name among the incomplete ones or by the token its payload keeps, but for
\* one whose follow-up page had a token that is no string; and none is reported
\* incomplete whose last page was reached.
THEOREM GivesUpAloud == Spec => []GivingUpIsReported
<1>1. TokenInv => GivingUpIsReported
  BY DEF TokenInv, IsLost, GivingUpIsReported
<1> QED BY <1>1, TypeInit, TypeNext, TokenInit, TokenNext, PTL DEF Spec

------------------------------------------------------------------------------
\* Page 0 is all there is of a purl before the first round.
LEMMA PageInit == Init => PageInv
<1> SUFFICES ASSUME Init PROVE PageInv
  OBVIOUS
<1>1. merged = {} /\ cached = payload
  BY DEF Init
<1>2. ASSUME NEW p \in Purls, misread[p] = {}
      PROVE  /\ payload[p].pages = pages[p] /\ extra[p] = {}
             /\ payload[p].token = NoToken => p \in ended
             /\ p \notin incomplete
  <2>1. PICK f \in VulnsFields, t \in TokenFields : payload[p] = FirstPage(f, t)
    BY DEF Init
  <2>2. ~payload[p].garbled
    BY <1>2 DEF Init
  <2>3. payload[p].pages \in {{}, {0}}
    BY <2>1 DEF FirstPage
  <2>4. pages[p] = IF payload[p].pages = {} /\ ~payload[p].garbled THEN {} ELSE {0}
    BY DEF Init
  <2>5. extra[p] = {} /\ incomplete = {} /\ (payload[p].token = NoToken => p \in ended)
    BY DEF Init
  <2> QED BY <2>2, <2>3, <2>4, <2>5
<1> QED BY <1>1, <1>2 DEF PageInv, IsWhole

\* A usable round adds the same page to what is accumulated and to what was said.
LEMMA PageRound ==
    ASSUME TypeOK, TokenInv, PageInv, Round
    PROVE  PageInv'
<1>1. PICK results \in [Asking -> Results] :
         ApplyResults(results, {q \in Asking : results[q].token \in Tokens \ {waiting[q]}})
  BY DEF Round
<1>2. pc = "rounds" /\ merged = {} /\ merged' = {}
  BY <1>1 DEF Round, ApplyResults, PageInv
<1>3. payload' = payload /\ cached' = cached
  BY <1>1 DEF ApplyResults
<1>4. ASSUME NEW p \in Purls, p \notin Asking
      PROVE  /\ extra'[p] = extra[p] /\ pages'[p] = pages[p] /\ misread'[p] = misread[p]
             /\ (p \in ended' <=> p \in ended) /\ (p \in incomplete' <=> p \in incomplete)
  BY <1>1, <1>4 DEF ApplyResults
<1>5. ASSUME NEW p \in Asking, misread'[p] = {}
      PROVE  p \in Purls /\ misread[p] = {} /\ results[p].vulns # "garbled"
  BY <1>1, <1>5 DEF ApplyResults, Asking, Misread
<1>6. ASSUME NEW p \in Asking, misread'[p] = {}
      PROVE  payload[p].token # NoToken /\ cached[p].token # NoToken
  <2>1. p \in Purls /\ p \notin ended
    BY <1>6 DEF Asking, TokenInv
  <2> QED BY <1>2, <1>5, <1>6, <2>1 DEF PageInv, IsWhole
<1>7. ASSUME NEW p \in Asking, misread'[p] = {}
      PROVE  payload[p].pages \cup extra'[p] = pages'[p]
  <2>1. p \in Purls /\ misread[p] = {} /\ results[p].vulns # "garbled"
    BY <1>5, <1>7
  <2>2. results[p].object => results[p].vulns \in {"array", "absent"}
    <3>1. results[p] \in Results
      OBVIOUS
    <3>2. CASE results[p] \in [object : {TRUE}, vulns : VulnsFields, token : TokenFields]
      BY <2>1, <3>2 DEF VulnsFields
    <3>3. CASE results[p] = [object |-> FALSE, vulns |-> "absent", token |-> NoToken]
      BY <3>3
    <3> QED BY <3>1, <3>2, <3>3 DEF Results
  <2>3. payload[p].pages \cup extra[p] = pages[p]
    BY <1>2, <2>1 DEF PageInv
  <2>4. extra'[p] = IF results[p].object /\ results[p].vulns = "array"
                    THEN extra[p] \cup {round + 1} ELSE extra[p]
    BY <1>1, <2>1 DEF ApplyResults
  <2>5. pages'[p] = IF results[p].object /\ results[p].vulns # "absent"
                    THEN pages[p] \cup {round + 1} ELSE pages[p]
    BY <1>1, <2>1 DEF ApplyResults
  <2> QED BY <2>2, <2>3, <2>4, <2>5
<1>8. ASSUME NEW p \in Purls, misread'[p] = {}
      PROVE  /\ payload[p].pages \cup extra'[p] = pages'[p]
             /\ payload[p].token = NoToken =>
                   p \in ended' /\ p \notin incomplete' /\ extra'[p] = {}
             /\ cached[p].token = NoToken => p \in ended' /\ cached[p].pages = pages'[p]
  <2>1. CASE p \in Asking
    BY <1>6, <1>7, <1>8, <2>1
  <2>2. CASE p \notin Asking
    BY <1>2, <1>4, <1>8, <2>2 DEF PageInv, IsWhole
  <2> QED BY <2>1, <2>2
<1> QED BY <1>2, <1>3, <1>8 DEF PageInv, IsWhole

\* A payload merged without a token is whole: its purl is not incomplete, hence
\* its last page was reached.
LEMMA PageMerge ==
    ASSUME TypeOK, TokenInv, PageInv, NEW p \in Purls, MergePurl(p)
    PROVE  PageInv'
<1>1. pc = "merge" /\ pc' = "merge" /\ p \notin merged /\ merged' = merged \cup {p}
  BY DEF MergePurl
<1>2. UNCHANGED <<extra, incomplete, ended, pages, misread>> /\ p \in hasExtra
  BY DEF MergePurl, said
<1>3. ASSUME misread[p] = {}
      PROVE  Merge(p).pages = pages[p] /\ (Merge(p).token = NoToken => p \in ended)
  <2>1. payload[p].pages \cup extra[p] = pages[p]
    BY <1>1, <1>3 DEF PageInv
  <2>2. p \notin incomplete => p \in ended
    BY <1>1, <1>2, <1>3 DEF TokenInv, IsLost
  <2>3. payload[p].token = NoToken => p \in ended
    BY <1>1, <1>3 DEF PageInv
  <2> QED BY <2>1, <2>2, <2>3 DEF Merge
<1>4. payload' = [payload EXCEPT ![p] = Merge(p)]
      /\ cached' \in {cached, [cached EXCEPT ![p] = Merge(p)]}
  BY DEF MergePurl
<1>5. ASSUME NEW q \in Purls, misread[q] = {}
      PROVE  /\ q \notin merged' => payload'[q].pages \cup extra[q] = pages[q]
             /\ q \notin merged' /\ payload'[q].token = NoToken =>
                   q \in ended /\ q \notin incomplete /\ extra[q] = {}
             /\ q \in merged' /\ payload'[q].token = NoToken =>
                   q \in ended /\ payload'[q].pages = pages[q]
             /\ cached'[q].token = NoToken => q \in ended /\ cached'[q].pages = pages[q]
  <2>1. CASE q = p
    <3>1. payload'[p] = Merge(p) /\ cached'[p] \in {cached[p], Merge(p)}
      BY <1>4 DEF TypeOK
    <3> QED BY <1>1, <1>3, <1>5, <2>1, <3>1 DEF PageInv, IsWhole
  <2>2. CASE q # p
    <3>1. payload'[q] = payload[q] /\ cached'[q] = cached[q]
      BY <1>4, <2>2 DEF TypeOK
    <3> QED BY <1>1, <1>5, <2>2, <3>1 DEF PageInv, IsWhole
  <2> QED BY <2>1, <2>2
<1> QED BY <1>1, <1>2, <1>5 DEF PageInv, IsWhole

\* The remaining steps touch no page.
LEMMA PageNext == TypeOK /\ TokenInv /\ PageInv /\ [Next]_vars => PageInv'
<1> SUFFICES ASSUME TypeOK, TokenInv, PageInv, [Next]_vars PROVE PageInv'
  OBVIOUS
<1>1. CASE RoundUnusable
  BY <1>1 DEF RoundUnusable, PageInv, TokenInv, Asking, IsWhole
<1>2. CASE Round
  BY <1>2, PageRound
<1>3. CASE RoundsEnd
  BY <1>3 DEF RoundsEnd, PageInv, TokenInv, Asking, IsWhole, said
<1>4. ASSUME NEW p \in Purls, MergePurl(p) PROVE PageInv'
  BY <1>4, PageMerge
<1>5. CASE PassEnds
  BY <1>5 DEF PassEnds, PageInv, IsWhole, run, said
<1>6. CASE Crash
  BY <1>6 DEF Crash, PageInv, IsWhole, run, said
<1>7. CASE UNCHANGED vars
  BY <1>7 DEF vars, run, said, PageInv, IsWhole
<1> QED BY <1>1, <1>2, <1>3, <1>4, <1>5, <1>6, <1>7 DEF Next, Step

\* An entry of the cache or a payload of the finished pass that carries no token
\* holds every page, unless a field of one had another type than the code looks for.
THEOREM PartialKeepsItsToken == Spec => []NeverPartialAsComplete
<1>1. PageInv => NeverPartialAsComplete
  <2> SUFFICES ASSUME PageInv, NEW p \in Purls, misread[p] = {}, payload[p].token = NoToken
               PROVE  IsWhole(p, payload[p])
    BY DEF PageInv, NeverPartialAsComplete
  <2>1. CASE p \in merged
    BY <2>1 DEF PageInv
  <2>2. CASE p \notin merged
    <3>1. p \in ended /\ extra[p] = {} /\ payload[p].pages \cup extra[p] = pages[p]
      BY <2>2 DEF PageInv
    <3> QED BY <3>1 DEF IsWhole
  <2> QED BY <2>1, <2>2
<1>2. Init => TypeOK /\ TokenInv /\ PageInv
  BY TypeInit, TokenInit, PageInit
<1>3. TypeOK /\ TokenInv /\ PageInv /\ [Next]_vars => TypeOK' /\ TokenInv' /\ PageInv'
  BY TypeNext, TokenNext, PageNext
<1> QED BY <1>1, <1>2, <1>3, PTL DEF Spec

------------------------------------------------------------------------------
\* While the rounds go on, no token that waits is the one that was sent last.
FreshInv == pc = "rounds" => \A p \in Asking : asked[p] # waiting[p]

\* Before the first round no token has been sent.
LEMMA FreshInit == Init => FreshInv
BY NoTokenAssumption DEF Init, FreshInv, Asking

\* A round follows the tokens that differ from those it sent, and no others.
LEMMA FreshNext == FreshInv /\ [Next]_vars => FreshInv'
<1> SUFFICES ASSUME FreshInv, [Next]_vars PROVE FreshInv'
  OBVIOUS
<1>1. CASE Round
  <2>1. PICK results \in [Asking -> Results] :
            ApplyResults(results, {p \in Asking : results[p].token \in Tokens \ {waiting[p]}})
    BY <1>1 DEF Round
  <2>2. ASSUME NEW p \in Purls, waiting'[p] # NoToken
        PROVE  asked'[p] # waiting'[p]
    BY <2>1, <2>2 DEF ApplyResults
  <2>3. QED BY <2>2 DEF FreshInv, Asking
<1>2. CASE RoundUnusable \/ RoundsEnd \/ PassEnds \/ Crash
  BY <1>2 DEF RoundUnusable, RoundsEnd, PassEnds, Crash, FreshInv
<1>3. ASSUME NEW p \in Purls, MergePurl(p) PROVE FreshInv'
  BY <1>3 DEF MergePurl, FreshInv
<1>4. CASE UNCHANGED vars
  BY <1>4 DEF vars, run, said, FreshInv, Asking
<1> QED BY <1>1, <1>2, <1>3, <1>4 DEF Next, Step

\* The echo check of the pagination loop: no request repeats the token that the one
\* before it sent for the same purl.
THEOREM AsksAnew == Spec => NeverResendsToken
<1>1. FreshInv /\ [Next]_vars => [round' # round => \A p \in Asking : asked'[p] # asked[p]]_vars
  <2> SUFFICES ASSUME FreshInv, [Next]_vars, round' # round, NEW p \in Asking
               PROVE  asked'[p] # asked[p]
    BY DEF vars
  <2>1. Round
    BY DEF Next, Step, RoundUnusable, RoundsEnd, MergePurl, PassEnds, Crash, vars, run
  <2>2. asked'[p] = waiting[p] /\ pc = "rounds"
    BY <2>1 DEF Round, ApplyResults, Asking
  <2>3. QED BY <2>2 DEF FreshInv
<1>2. QED BY <1>1, FreshInit, FreshNext, PTL DEF Spec, NeverResendsToken

------------------------------------------------------------------------------
\* Neither cursor has passed an id the other has still to reach.
Frontier ==
    /\ \A i \in 1 .. previous_index - 1, j \in current_index .. Len(current) :
          previous[i].id < current[j].id
    /\ \A j \in 1 .. current_index - 1, i \in previous_index .. Len(previous) :
          current[j].id < previous[i].id

SeenPrevious(id) == \E i \in 1 .. previous_index - 1 : previous[i].id = id
SeenCurrent(id) == \E j \in 1 .. current_index - 1 : current[j].id = id
InPrevious(id) == \E i \in 1 .. Len(previous) : previous[i].id = id
InCurrent(id) == \E j \in 1 .. Len(current) : current[j].id = id
SeenMoved(id) ==
    \E i \in 1 .. previous_index - 1, j \in 1 .. current_index - 1 :
        /\ previous[i].id = id /\ current[j].id = id
        /\ previous[i].modified # current[j].modified

RemovedSoFar == \A id : id \in Entries(removed) <=> SeenPrevious(id) /\ ~InCurrent(id)
AddedSoFar == \A id : id \in Entries(added) <=> SeenCurrent(id) /\ ~InPrevious(id)
ModifiedSoFar == \A id : id \in Entries(modified) <=> SeenMoved(id)

LoopInv ==
    ContractHolds => /\ Frontier
                     /\ RemovedSoFar /\ AddedSoFar /\ ModifiedSoFar
                     /\ Ascending(removed) /\ Ascending(added) /\ Ascending(modified)

------------------------------------------------------------------------------
\* Appending an id adds it to the entries.
LEMMA AppendEntries ==
    ASSUME NEW s \in Seq(Ids), NEW e \in Ids
    PROVE  \A x : x \in Entries(Append(s, e)) <=> x \in Entries(s) \/ x = e
<1> DEFINE t == Append(s, e)
<1>1. /\ DOMAIN t = 1 .. Len(s) + 1 /\ DOMAIN s = 1 .. Len(s) /\ Len(s) \in Nat
      /\ \A i \in 1 .. Len(s) : t[i] = s[i]
      /\ t[Len(s) + 1] = e
  OBVIOUS
<1> HIDE DEF t
<1>2. \A x : x \in Entries(t) => x \in Entries(s) \/ x = e
  BY <1>1 DEF Entries
<1>3. \A x \in Entries(s) : x \in Entries(t)
  BY <1>1 DEF Entries
<1>4. e \in Entries(t)
  BY <1>1 DEF Entries
<1> QED
  BY <1>2, <1>3, <1>4 DEF t

\* Appending an id larger than all others keeps a list ascending.
LEMMA AppendAscending ==
    ASSUME NEW s \in Seq(Ids), NEW e \in Ids, Ascending(s), \A x \in Entries(s) : x < e
    PROVE  Ascending(Append(s, e))
BY IdsAssumption DEF Entries, Ascending

\* The state of the pass is well-typed, for lists of any length.
LEMMA DeltaTypeInit == DeltaInit => DeltaTypeOK
BY DEF DeltaInit, DeltaTypeOK, Lists

\* Every iteration of the merge keeps it well-typed: neither index passes an end.
LEMMA DeltaTypeNext == DeltaTypeOK /\ [DeltaNext]_delta_vars => DeltaTypeOK'
<1> SUFFICES ASSUME DeltaTypeOK, [DeltaNext]_delta_vars PROVE DeltaTypeOK'
  OBVIOUS
<1>1. CASE SameAdvisory
  <2>1. current[current_index] \in AdvisoryRevision
    BY <1>1 DEF SameAdvisory, MoreCurrent, DeltaTypeOK
  <2> QED
    BY <1>1, <2>1 DEF SameAdvisory, DeltaTypeOK, inputs, MorePrevious, MoreCurrent, AdvisoryRevision
<1>2. CASE AdvisoryGone
  <2>1. previous[previous_index] \in AdvisoryRevision
    BY <1>2 DEF AdvisoryGone, MorePrevious, DeltaTypeOK
  <2> QED
    BY <1>2, <2>1 DEF AdvisoryGone, DeltaTypeOK, inputs, MorePrevious, AdvisoryRevision
<1>3. CASE AdvisoryNew
  <2>1. current[current_index] \in AdvisoryRevision
    BY <1>3 DEF AdvisoryNew, MoreCurrent, DeltaTypeOK
  <2> QED
    BY <1>3, <2>1 DEF AdvisoryNew, DeltaTypeOK, inputs, MoreCurrent, AdvisoryRevision
<1>4. CASE UNCHANGED delta_vars
  BY <1>4 DEF delta_vars, inputs, DeltaTypeOK
<1> QED
  BY <1>1, <1>2, <1>3, <1>4 DEF DeltaNext

\* Neither cursor ever leaves its list.
THEOREM DeltaTypeCorrect == DeltaSpec => []DeltaTypeOK
BY DeltaTypeInit, DeltaTypeNext, PTL DEF DeltaSpec

------------------------------------------------------------------------------
\* The loop invariant holds before the first iteration.
LEMMA LoopInit == DeltaInit => LoopInv
BY DEF DeltaInit, LoopInv, Frontier, RemovedSoFar, AddedSoFar, ModifiedSoFar, Entries, Ascending,
       SeenPrevious, SeenCurrent, SeenMoved, Lists

\* Every iteration keeps it.
LEMMA LoopNext == DeltaTypeOK /\ LoopInv /\ [DeltaNext]_delta_vars => LoopInv'
<1> SUFFICES ASSUME DeltaTypeOK, LoopInv, [DeltaNext]_delta_vars, ContractHolds' PROVE LoopInv'
  BY DEF LoopInv
<1>0. ContractHolds /\ previous' = previous /\ current' = current
  BY DEF DeltaNext, SameAdvisory, AdvisoryGone, AdvisoryNew, inputs, delta_vars, ContractHolds, SortedUnique
<1>1. /\ Frontier /\ RemovedSoFar /\ AddedSoFar /\ ModifiedSoFar
      /\ Ascending(removed) /\ Ascending(added) /\ Ascending(modified)
  BY <1>0 DEF LoopInv
<1>2. /\ previous_index \in Nat \ {0} /\ current_index \in Nat \ {0}
      /\ previous_index <= Len(previous) + 1 /\ current_index <= Len(current) + 1
      /\ Len(previous) \in Nat /\ Len(current) \in Nat
  BY DEF DeltaTypeOK
<1>9. /\ \A i \in 1 .. Len(previous) : previous[i].id \in Ids
      /\ \A j \in 1 .. Len(current) : current[j].id \in Ids
      /\ removed \in Seq(Ids) /\ added \in Seq(Ids) /\ modified \in Seq(Ids)
  <2>1. /\ \A i \in 1 .. Len(previous) : previous[i] \in AdvisoryRevision
        /\ \A j \in 1 .. Len(current) : current[j] \in AdvisoryRevision
    BY DEF DeltaTypeOK
  <2>2. \A r \in AdvisoryRevision : r.id \in Ids
    BY DEF AdvisoryRevision
  <2> QED
    BY <2>1, <2>2 DEF DeltaTypeOK
<1>3. /\ \A i, k \in 1 .. Len(previous) : i < k => previous[i].id < previous[k].id
      /\ \A i, k \in 1 .. Len(current) : i < k => current[i].id < current[k].id
  <2>1. DOMAIN previous = 1 .. Len(previous) /\ DOMAIN current = 1 .. Len(current)
    BY DEF DeltaTypeOK
  <2> QED
    BY <1>0, <2>1 DEF ContractHolds, SortedUnique
<1>8. /\ \A i \in 1 .. Len(previous) : previous[i].id \in Int
      /\ \A j \in 1 .. Len(current) : current[j].id \in Int
  <2>1. \A id \in Ids : id \in Int
    BY IdsAssumption
  <2> QED
    BY <1>9, <2>1
<1>4. CASE SameAdvisory
  <2>1. /\ previous_index <= Len(previous) /\ current_index <= Len(current) /\ previous[previous_index].id = current[current_index].id
        /\ previous_index' = previous_index + 1 /\ current_index' = current_index + 1 /\ removed' = removed /\ added' = added
    BY <1>4 DEF SameAdvisory, MorePrevious, MoreCurrent
  <2>2. Frontier'
    BY SMTT(60), <1>0, <1>1, <1>2, <1>3, <2>1 DEF Frontier
  <2>3. RemovedSoFar'
    BY <1>0, <1>1, <1>2, <2>1 DEF RemovedSoFar, SeenPrevious, InCurrent
  <2>4. AddedSoFar'
    BY <1>0, <1>1, <1>2, <2>1 DEF AddedSoFar, SeenCurrent, InPrevious
  <2>5. \A id : SeenMoved(id)' <=> \/ SeenMoved(id)
                                   \/ /\ id = current[current_index].id
                                      /\ previous[previous_index].modified # current[current_index].modified
    <3>0. previous_index \in 1 .. Len(previous) /\ current_index \in 1 .. Len(current)
      BY <1>2, <2>1
    <3>1. \A i \in 1 .. previous_index - 1 : previous[i].id # current[current_index].id
      <4>1. \A i \in 1 .. previous_index - 1 :
               i \in 1 .. Len(previous) /\ previous[i].id < previous[previous_index].id
        BY <1>3, <1>2, <3>0
      <4> QED
        BY <1>8, <2>1, <3>0, <4>1
    <3>2. \A j \in 1 .. current_index - 1 : current[j].id # previous[previous_index].id
      <4>1. \A j \in 1 .. current_index - 1 :
               j \in 1 .. Len(current) /\ current[j].id < current[current_index].id
        BY <1>3, <1>2, <3>0
      <4> QED
        BY <1>8, <2>1, <3>0, <4>1
    <3>3. \A k : /\ k \in 1 .. previous_index' - 1 <=> k \in 1 .. previous_index - 1 \/ k = previous_index
                 /\ k \in 1 .. current_index' - 1 <=> k \in 1 .. current_index - 1 \/ k = current_index
      BY <1>2, <2>1
    <3>4. ASSUME NEW id, SeenMoved(id)'
          PROVE  \/ SeenMoved(id)
                 \/ /\ id = current[current_index].id
                    /\ previous[previous_index].modified # current[current_index].modified
      <4>1. PICK i \in 1 .. previous_index' - 1, j \in 1 .. current_index' - 1 :
               /\ previous[i].id = id /\ current[j].id = id
               /\ previous[i].modified # current[j].modified
        BY <1>0, <3>4 DEF SeenMoved
      <4>2. CASE i = previous_index
        BY <2>1, <3>2, <3>3, <4>1, <4>2 DEF SeenMoved
      <4>3. CASE j = current_index
        BY <2>1, <3>1, <3>3, <4>1, <4>3 DEF SeenMoved
      <4>4. CASE i # previous_index /\ j # current_index
        BY <3>3, <4>1, <4>4 DEF SeenMoved
      <4> QED
        BY <4>2, <4>3, <4>4
    <3>5. ASSUME NEW id, SeenMoved(id) PROVE SeenMoved(id)'
      BY <1>0, <3>3, <3>5 DEF SeenMoved
    <3>6. ASSUME NEW id, id = current[current_index].id,
                 previous[previous_index].modified # current[current_index].modified
          PROVE  SeenMoved(id)'
      <4>1. previous_index \in 1 .. previous_index' - 1 /\ current_index \in 1 .. current_index' - 1
        BY <3>3
      <4> QED
        BY <1>0, <2>1, <3>6, <4>1 DEF SeenMoved
    <3> QED
      BY <1>0, <2>1, <3>4, <3>5, <3>6
  <2>6. CASE previous[previous_index].modified = current[current_index].modified
    BY <1>1, <1>4, <2>1, <2>2, <2>3, <2>4, <2>5, <2>6
       DEF SameAdvisory, LoopInv, ModifiedSoFar
  <2>7. CASE previous[previous_index].modified # current[current_index].modified
    <3>1. modified' = Append(modified, current[current_index].id) /\ current[current_index].id \in Ids
      BY <1>2, <1>9, <1>4, <2>1, <2>7 DEF SameAdvisory
    <3>2. \A x : x \in Entries(modified') <=> x \in Entries(modified) \/ x = current[current_index].id
      BY <1>9, <3>1, AppendEntries
    <3>3. ModifiedSoFar'
      BY <1>1, <2>5, <2>7, <3>2 DEF ModifiedSoFar
    <3>4. \A x \in Entries(modified) : x < current[current_index].id
      BY <1>1, <1>2, <1>3, <2>1 DEF ModifiedSoFar, SeenMoved
    <3>5. Ascending(modified')
      BY <1>1, <1>9, <3>1, <3>4, AppendAscending
    <3> QED
      BY <1>1, <2>1, <2>2, <2>3, <2>4, <3>3, <3>5 DEF LoopInv
  <2> QED
    BY <2>6, <2>7
<1>5. CASE AdvisoryGone
  <2>1. /\ previous_index <= Len(previous) /\ (current_index <= Len(current) => previous[previous_index].id < current[current_index].id)
        /\ removed' = Append(removed, previous[previous_index].id) /\ previous[previous_index].id \in Ids
        /\ previous_index' = previous_index + 1 /\ current_index' = current_index /\ added' = added /\ modified' = modified
    BY <1>2, <1>9, <1>5 DEF AdvisoryGone, MorePrevious, MoreCurrent
  <2>13. \A j \in current_index .. Len(current) : previous[previous_index].id < current[j].id
    <3> SUFFICES ASSUME NEW j \in current_index .. Len(current)
                 PROVE  previous[previous_index].id < current[j].id
      OBVIOUS
    <3>1. /\ current_index \in 1 .. Len(current) /\ j \in 1 .. Len(current)
          /\ previous_index \in 1 .. Len(previous)
      BY <1>2, <2>1
    <3>2. current[current_index].id <= current[j].id
      BY <1>3, <1>8, <3>1
    <3> QED
      BY <1>8, <2>1, <3>1, <3>2
  <2>2. Frontier'
    <3>1. \A i \in 1 .. previous_index' - 1, j \in current_index' .. Len(current') :
             previous'[i].id < current'[j].id
      BY <1>0, <1>1, <1>2, <2>1, <2>13 DEF Frontier
    <3>2. \A j \in 1 .. current_index' - 1, i \in previous_index' .. Len(previous') :
             current'[j].id < previous'[i].id
      BY <1>0, <1>1, <1>2, <2>1 DEF Frontier
    <3> QED
      BY <3>1, <3>2 DEF Frontier
  <2>3. ~InCurrent(previous[previous_index].id)
    <3>1. \A j \in 1 .. current_index - 1 : current[j].id < previous[previous_index].id
      BY <1>1, <1>2, <2>1 DEF Frontier
    <3>2. ASSUME NEW j \in 1 .. Len(current) PROVE current[j].id # previous[previous_index].id
      <4>1. previous_index \in 1 .. Len(previous) /\ (j < current_index \/ j >= current_index)
        BY <1>2, <2>1
      <4>2. current[j].id \in Int /\ previous[previous_index].id \in Int
        BY <1>8, <4>1
      <4> QED
        BY <1>2, <2>13, <3>1, <4>1, <4>2
    <3> QED
      BY <3>2 DEF InCurrent
  <2>4. \A x : x \in Entries(removed') <=> x \in Entries(removed) \/ x = previous[previous_index].id
    BY <1>9, <2>1, AppendEntries
  <2>5. \A id : /\ SeenPrevious(id)' <=> SeenPrevious(id) \/ id = previous[previous_index].id
                /\ InCurrent(id)' <=> InCurrent(id)
    <3>1. \A k : k \in 1 .. previous_index' - 1 <=> k \in 1 .. previous_index - 1 \/ k = previous_index
      BY <1>2, <2>1
    <3> QED
      BY <1>0, <3>1 DEF SeenPrevious, InCurrent
  <2>6. RemovedSoFar'
    BY <1>1, <2>3, <2>4, <2>5 DEF RemovedSoFar
  <2>7. AddedSoFar'
    BY <1>0, <1>1, <2>1 DEF AddedSoFar, SeenCurrent, InPrevious
  <2>8. ~SeenCurrent(previous[previous_index].id)
    BY <1>1, <1>2, <1>8, <2>1 DEF Frontier, SeenCurrent
  <2>9. \A id : SeenMoved(id)' <=> SeenMoved(id)
    <3>1. \A k : k \in 1 .. previous_index' - 1 <=> k \in 1 .. previous_index - 1 \/ k = previous_index
      BY <1>2, <2>1
    <3>2. ASSUME NEW id, SeenMoved(id) PROVE SeenMoved(id)'
      BY <1>0, <2>1, <3>1, <3>2 DEF SeenMoved
    <3>3. ASSUME NEW id, SeenMoved(id)' PROVE SeenMoved(id)
      <4>1. PICK i \in 1 .. previous_index' - 1, j \in 1 .. current_index' - 1 :
               /\ previous[i].id = id /\ current[j].id = id
               /\ previous[i].modified # current[j].modified
        BY <1>0, <3>3 DEF SeenMoved
      <4>2. i \in 1 .. previous_index - 1 /\ j \in 1 .. current_index - 1
        BY <2>1, <2>8, <3>1, <4>1 DEF SeenCurrent
      <4> QED
        BY <4>1, <4>2 DEF SeenMoved
    <3> QED
      BY <3>2, <3>3
  <2>10. ModifiedSoFar'
    BY <1>1, <2>1, <2>9 DEF ModifiedSoFar
  <2>11. \A x \in Entries(removed) : x < previous[previous_index].id
    <3> SUFFICES ASSUME NEW x \in Entries(removed)
                 PROVE  x < previous[previous_index].id
      OBVIOUS
    <3>1. PICK i \in 1 .. previous_index - 1 : previous[i].id = x
      BY <1>1 DEF RemovedSoFar, SeenPrevious
    <3>2. /\ i \in 1 .. Len(previous) /\ previous_index \in 1 .. Len(previous)
          /\ i < previous_index
      BY <1>2, <2>1
    <3> QED
      BY <1>3, <3>1, <3>2
  <2>12. Ascending(removed')
    BY <1>1, <1>9, <2>1, <2>11, AppendAscending
  <2> QED
    BY <1>1, <2>1, <2>2, <2>6, <2>7, <2>10, <2>12 DEF LoopInv
<1>6. CASE AdvisoryNew
  <2>1. /\ current_index <= Len(current) /\ (previous_index <= Len(previous) => current[current_index].id < previous[previous_index].id)
        /\ added' = Append(added, current[current_index].id) /\ current[current_index].id \in Ids
        /\ current_index' = current_index + 1 /\ previous_index' = previous_index /\ removed' = removed /\ modified' = modified
    BY <1>2, <1>9, <1>6 DEF AdvisoryNew, MorePrevious, MoreCurrent
  <2>13. \A i \in previous_index .. Len(previous) : current[current_index].id < previous[i].id
    <3> SUFFICES ASSUME NEW i \in previous_index .. Len(previous)
                 PROVE  current[current_index].id < previous[i].id
      OBVIOUS
    <3>1. /\ previous_index \in 1 .. Len(previous) /\ i \in 1 .. Len(previous)
          /\ current_index \in 1 .. Len(current)
      BY <1>2, <2>1
    <3>2. previous[previous_index].id <= previous[i].id
      BY <1>3, <1>8, <3>1
    <3> QED
      BY <1>8, <2>1, <3>1, <3>2
  <2>2. Frontier'
    <3>1. \A i \in 1 .. previous_index' - 1, j \in current_index' .. Len(current') :
             previous'[i].id < current'[j].id
      BY <1>0, <1>1, <1>2, <2>1 DEF Frontier
    <3>2. \A j \in 1 .. current_index' - 1, i \in previous_index' .. Len(previous') :
             current'[j].id < previous'[i].id
      BY <1>0, <1>1, <1>2, <2>1, <2>13 DEF Frontier
    <3> QED
      BY <3>1, <3>2 DEF Frontier
  <2>3. ~InPrevious(current[current_index].id)
    <3>1. \A i \in 1 .. previous_index - 1 : previous[i].id < current[current_index].id
      BY SMTT(60), <1>1, <1>2, <2>1 DEF Frontier
    <3>2. ASSUME NEW i \in 1 .. Len(previous) PROVE previous[i].id # current[current_index].id
      <4>1. current_index \in 1 .. Len(current) /\ (i < previous_index \/ i >= previous_index)
        BY <1>2, <2>1
      <4>2. previous[i].id \in Int /\ current[current_index].id \in Int
        BY <1>8, <4>1
      <4> QED
        BY <1>2, <2>13, <3>1, <4>1, <4>2
    <3> QED
      BY <3>2 DEF InPrevious
  <2>4. \A x : x \in Entries(added') <=> x \in Entries(added) \/ x = current[current_index].id
    BY <1>9, <2>1, AppendEntries
  <2>5. \A id : /\ SeenCurrent(id)' <=> SeenCurrent(id) \/ id = current[current_index].id
                /\ InPrevious(id)' <=> InPrevious(id)
    <3>1. \A k : k \in 1 .. current_index' - 1 <=> k \in 1 .. current_index - 1 \/ k = current_index
      BY <1>2, <2>1
    <3> QED
      BY <1>0, <3>1 DEF SeenCurrent, InPrevious
  <2>6. AddedSoFar'
    BY <1>1, <2>3, <2>4, <2>5 DEF AddedSoFar
  <2>7. RemovedSoFar'
    BY <1>0, <1>1, <2>1 DEF RemovedSoFar, SeenPrevious, InCurrent
  <2>8. ~SeenPrevious(current[current_index].id)
    BY <1>1, <1>2, <1>8, <2>1 DEF Frontier, SeenPrevious
  <2>9. \A id : SeenMoved(id)' <=> SeenMoved(id)
    <3>1. \A k : k \in 1 .. current_index' - 1 <=> k \in 1 .. current_index - 1 \/ k = current_index
      BY <1>2, <2>1
    <3>2. ASSUME NEW id, SeenMoved(id) PROVE SeenMoved(id)'
      BY <1>0, <2>1, <3>1, <3>2 DEF SeenMoved
    <3>3. ASSUME NEW id, SeenMoved(id)' PROVE SeenMoved(id)
      <4>1. PICK i \in 1 .. previous_index' - 1, j \in 1 .. current_index' - 1 :
               /\ previous[i].id = id /\ current[j].id = id
               /\ previous[i].modified # current[j].modified
        BY <1>0, <3>3 DEF SeenMoved
      <4>2. i \in 1 .. previous_index - 1 /\ j \in 1 .. current_index - 1
        BY <2>1, <2>8, <3>1, <4>1 DEF SeenPrevious
      <4> QED
        BY <4>1, <4>2 DEF SeenMoved
    <3> QED
      BY <3>2, <3>3
  <2>10. ModifiedSoFar'
    BY <1>1, <2>1, <2>9 DEF ModifiedSoFar
  <2>11. \A x \in Entries(added) : x < current[current_index].id
    <3> SUFFICES ASSUME NEW x \in Entries(added)
                 PROVE  x < current[current_index].id
      OBVIOUS
    <3>1. PICK j \in 1 .. current_index - 1 : current[j].id = x
      BY <1>1 DEF AddedSoFar, SeenCurrent
    <3>2. /\ j \in 1 .. Len(current) /\ current_index \in 1 .. Len(current)
          /\ j < current_index
      BY <1>2, <2>1
    <3> QED
      BY <1>3, <3>1, <3>2
  <2>12. Ascending(added')
    BY <1>1, <1>9, <2>1, <2>11, AppendAscending
  <2> QED
    BY <1>1, <2>1, <2>2, <2>6, <2>7, <2>10, <2>12 DEF LoopInv
<1>7. CASE UNCHANGED delta_vars
  BY <1>1, <1>7 DEF delta_vars, inputs, LoopInv, Frontier, RemovedSoFar, AddedSoFar, ModifiedSoFar,
     SeenPrevious, SeenCurrent, SeenMoved, InPrevious, InCurrent, Entries, Ascending
<1> QED
  BY <1>4, <1>5, <1>6, <1>7 DEF DeltaNext

\* The loop invariant holds throughout.
THEOREM DeltaInvariance == DeltaSpec => [](DeltaTypeOK /\ LoopInv)
BY DeltaTypeInit, DeltaTypeNext, LoopInit, LoopNext, PTL DEF DeltaSpec

\* The single pass computes the differences of any two lists that keep the
\* contract, of any length, over any ids.
THEOREM DeltaCorrect == DeltaSpec => []DeltaIsExact
<1>1. DeltaTypeOK /\ LoopInv => DeltaIsExact
  <2> SUFFICES ASSUME DeltaTypeOK, LoopInv, Returned, ContractHolds
               PROVE  /\ Entries(removed) = IdsOf(previous) \ IdsOf(current)
                      /\ Entries(added) = IdsOf(current) \ IdsOf(previous)
                      /\ Entries(modified) = SameIdOtherStamp
    BY DEF DeltaIsExact
  <2>1. /\ previous_index - 1 = Len(previous) /\ current_index - 1 = Len(current)
        /\ DOMAIN previous = 1 .. Len(previous) /\ DOMAIN current = 1 .. Len(current)
    BY DEF DeltaTypeOK, Returned, MorePrevious, MoreCurrent
  <2>2. \A id : /\ id \in IdsOf(previous) <=> SeenPrevious(id)
                /\ id \in IdsOf(current) <=> SeenCurrent(id)
                /\ SeenPrevious(id) <=> InPrevious(id)
                /\ SeenCurrent(id) <=> InCurrent(id)
    BY <2>1 DEF IdsOf, SeenPrevious, SeenCurrent, InPrevious, InCurrent
  <2>3. \A id : id \in SameIdOtherStamp <=> SeenMoved(id)
    BY <2>1 DEF SameIdOtherStamp, SeenMoved, IdsOf
  <2>4. RemovedSoFar /\ AddedSoFar /\ ModifiedSoFar
    BY DEF LoopInv
  <2>5. Entries(removed) = IdsOf(previous) \ IdsOf(current)
    BY <2>2, <2>4 DEF RemovedSoFar
  <2>6. Entries(added) = IdsOf(current) \ IdsOf(previous)
    BY <2>2, <2>4 DEF AddedSoFar
  <2>7. Entries(modified) = SameIdOtherStamp
    BY <2>3, <2>4 DEF ModifiedSoFar
  <2> QED
    BY <2>5, <2>6, <2>7
<1> QED
  BY <1>1, DeltaInvariance, PTL

\* Each list of ids comes out ascending, hence without duplicates.
THEOREM OutputsAscend == DeltaSpec => []OutputsSorted
<1>1. LoopInv => OutputsSorted
  BY DEF LoopInv, OutputsSorted
<1> QED
  BY <1>1, DeltaInvariance, PTL
==============================================================================
