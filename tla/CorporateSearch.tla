---------------------------- MODULE CorporateSearch ----------------------------
(***************************************************************************)
(* run_houjin_bangou_search: variants of a company's name are tried in     *)
(* turn, under a lock of the process, until one of them finds the name     *)
(* itself; one of the responses is kept and interpreted.                   *)
(***************************************************************************)
EXTENDS NetworkToolCalls

CONSTANTS
  Query,     \* what the digest of the search id tells apart
  Variants   \* how many variants of its name each call tries

ASSUME SearchAssumption == Variants \in [Calls -> Nat \ {0}]

(* What a response is parsed to: the name itself among its rows; other rows; *)
(* other rows on a page that has the message of no data, or a count read as  *)
(* 0; the message or that count without rows; another count; neither.        *)
Responses == {"exact", "rows", "denied", "nodata", "counted", "unparsed"}

VARIABLES
  siteLock,  \* holder of HOUJIN_SEARCH_LOCK, or NoCall
  attempts,  \* the responses of each call
  selected,  \* position of the response it keeps, 0 before the first
  verdict,   \* interpretation
  stored     \* writers of result.json and response.html in each directory

searchVars == <<siteLock, attempts, selected, verdict, stored>>

SearchIds == (0 .. TimeBound \div PerSecond) \X {Query[c] : c \in Calls}

SearchInit ==
  /\ siteLock = NoCall /\ attempts = [c \in Calls |-> <<>>]
  /\ selected = [c \in Calls |-> 0] /\ verdict = [c \in Calls |-> None]
  /\ stored = [i \in SearchIds |-> [result |-> NoCall, html |-> NoCall]]

(* The query is refused, or robots.txt forbids one of the two pages.         *)
RefuseQuery(c) ==
  Returns(c, "idle", "error") /\ UNCHANGED <<now, before, searchVars>>

EnterSite(c) ==
  /\ siteLock = NoCall /\ Goes(c, "idle", "asking") /\ siteLock' = c
  /\ UNCHANGED <<now, answer, before, attempts, selected, verdict, stored>>

HasRows(response) == response \in {"exact", "rows", "denied"}

\* Mutant: the first response is kept unless a later one has the name itself.
KeepsFirst(c, response) == selected[c] = 0 \/ response = "exact"

(* Whether a response takes the place of the selected one.                   *)
Keeps(c, response) ==
  \/ selected[c] = 0 \/ response = "exact"
  \/ ~ HasRows(attempts[c][selected[c]]) /\ HasRows(response)

More(c) == Len(attempts[c]) < Variants[c] /\ "exact" \notin
             {attempts[c][k] : k \in DOMAIN attempts[c]}

(* fetch_home, post_search and parse_search_results for the next variant.    *)
TryVariant(c, response) ==
  /\ pc[c] = "asking" /\ More(c)
  /\ attempts' = [attempts EXCEPT ![c] = Append(@, response)]
  /\ selected' = [selected EXCEPT ![c] =
       IF Keeps(c, response) THEN Len(attempts[c]) + 1 ELSE @]
  /\ UNCHANGED <<now, pc, answer, before, siteLock, verdict, stored>>

(* A request fails or the site answers with an error message.                *)
SiteFails(c) ==
  /\ Returns(c, "asking", "error") /\ More(c) /\ siteLock' = NoCall
  /\ UNCHANGED <<now, before, attempts, selected, verdict, stored>>

(* The message and the count are looked at before the rows.                  *)
Interpretation(response) ==
  CASE response = "exact"                -> "exact_match_found"
    [] response \in {"denied", "nodata"} -> "no_result"
    [] response = "unparsed"             -> "unparsed_response"
    [] OTHER                             -> "candidate_rows_found_without_exact_match"

LeaveSite(c) ==
  /\ Goes(c, "asking", "storing") /\ ~ More(c) /\ siteLock' = NoCall
  /\ verdict' = [verdict EXCEPT ![c] = Interpretation(attempts[c][selected[c]])]
  /\ UNCHANGED <<now, answer, before, attempts, selected, stored>>

(* make_search_id *)
SearchId(c) == <<Second, Query[c]>>

(* write_search_artifacts, which may fail at any file.                       *)
StoreSearch(c) ==
  /\ \/ Returns(c, "storing", "ok")
        /\ stored' = [stored EXCEPT ![SearchId(c)] = [result |-> c, html |-> c]]
     \/ /\ Returns(c, "storing", "error")
        /\ stored' \in {stored, [stored EXCEPT ![SearchId(c)].result = c]}
  /\ UNCHANGED <<now, before, siteLock, attempts, selected, verdict>>

SearchStep(c) ==
  \/ RefuseQuery(c) \/ EnterSite(c) \/ SiteFails(c) \/ LeaveSite(c) \/ StoreSearch(c)
  \/ \E response \in Responses : TryVariant(c, response)

SearchNext == (\E c \in Calls : SearchStep(c)) \/ (Tick /\ UNCHANGED searchVars)

SearchSpec == CallsInit /\ SearchInit /\ [][SearchNext]_<<callVars, searchVars>>

-----------------------------------------------------------------------------
(* Properties *)

Seen(c) == {attempts[c][k] : k \in DOMAIN attempts[c]}

(* The answer sums up all attempts although it keeps one response: the name  *)
(* itself is reported if and only if some attempt found it; otherwise every  *)
(* variant was tried.  "Unparsed" means that none of them found rows, and so *)
(* does "no result", unless a page with rows said itself that it had none.   *)
VerdictSumsUp ==
  \A c \in Calls : verdict[c] # None =>
    /\ verdict[c] = "exact_match_found" <=> "exact" \in Seen(c)
    /\ verdict[c] # "exact_match_found" => Len(attempts[c]) = Variants[c]
    /\ verdict[c] = "unparsed_response" => \A response \in Seen(c) : ~ HasRows(response)
    /\ verdict[c] = "no_result" =>
         "denied" \in Seen(c) \/ \A response \in Seen(c) : ~ HasRows(response)
===============================================================================
