---------------------------- MODULE ReceiptReads ----------------------------
(***************************************************************************)
(* What operators read from the receipt ledger while gateways write it:    *)
(* postgres_query.py (search), and the control plane's receipt and fleet   *)
(* routes on top of it. Each query reads one committed snapshot; a client  *)
(* that pages through a search, and a summary made of two queries, read    *)
(* several, with appends in between.                                       *)
(*                                                                         *)
(* A filter is the set of calls whose receipts it selects: receipts never  *)
(* change, so neither does what selects them. The operator's               *)
(* authentication in front of every route changes nothing and is left out. *)
(***************************************************************************)
EXTENDS ReceiptChain

CONSTANTS
  Filters,    \* sets of calls a search may select
  Limits,     \* values of the `limit` parameter
  Verdict,    \* the receipt's fields the fleet counters use, by call
  MostCommon  \* how many entries a list of counts has at most: 20

ASSUME FilterAssumption == Filters \subseteq SUBSET Calls
ASSUME LimitAssumption == Limits \subseteq Nat
ASSUME VerdictAssumption ==
  /\ DOMAIN Verdict = Calls
  /\ \A c \in Calls :
       {"spiffe_id", "reason", "deny", "enforced"} = DOMAIN Verdict[c]
ASSUME MostCommonAssumption == MostCommon \in Nat \ {0}

\* One client: a walk through all pages of a search, or a fleet summary.
VARIABLE reader

allVars == <<vars, reader>>

Idle ==
  [doing |-> "nothing", filter |-> {}, limit |-> 0, offset |-> 0,
   atStart |-> {}, seen |-> {}, latest |-> 0]

ReadsInit == Init /\ reader = Idle

Matching(f) == {i \in DOMAIN rows : rows[i].sequence_id \in f}

\* Where a row of a set stands in ORDER BY id DESC.
Rank(ids, i) == Cardinality({j \in ids : j > i})

\* LIMIT limit OFFSET offset
Page(ids, limit, offset) ==
  {i \in ids : offset <= Rank(ids, i) /\ Rank(ids, i) < offset + limit}

\* Mutant of Search: the page is cut first and filtered afterwards.
SearchThenFilter(f, limit, offset) ==
  Matching(f) \cap Page(DOMAIN rows, limit, offset)

\* PostgresReceiptQuery.search
Search(f, limit, offset) == Page(Matching(f), limit, offset)

-----------------------------------------------------------------------------
(* GET /api/v1/receipts, page after page                                   *)

BeginWalk ==
  /\ reader.doing = "nothing"
  /\ \E f \in Filters, limit \in Limits \ {0} :
       reader' = [Idle EXCEPT !.doing = "walking", !.filter = f, !.limit = limit,
                              !.atStart = Matching(f)]
  /\ UNCHANGED vars

\* A page shorter than the limit is the last.
ReadPage ==
  LET page == Search(reader.filter, reader.limit, reader.offset) IN
  /\ reader.doing = "walking"
  /\ reader' = [reader EXCEPT
       !.doing = IF Cardinality(page) < reader.limit THEN "walked" ELSE "walking",
       !.offset = @ + Cardinality(page),
       !.seen = @ \cup page]
  /\ UNCHANGED vars

-----------------------------------------------------------------------------
(* GET /api/v1/fleet                                                       *)

Fields(i) == Verdict[rows[i].sequence_id]
Denials(receipts) == {i \in receipts : Fields(i).deny}

\* collections.Counter over one field: the values met, and how often.
Met(receipts, field) == {Fields(i)[field] : i \in receipts}
Having(receipts, field, v) == {i \in receipts : Fields(i)[field] = v}
Count(receipts, field, v) == Cardinality(Having(receipts, field, v))

\* Counter.most_common puts w before v: it was counted more often, or as often
\* and met earlier in the scan, which starts at the newest receipt.
Ahead(receipts, field, w, v) ==
  \/ Count(receipts, field, w) > Count(receipts, field, v)
  \/ /\ Count(receipts, field, w) = Count(receipts, field, v)
     /\ \E i \in Having(receipts, field, w) :
          \A j \in Having(receipts, field, v) : i > j

Listed(receipts, field) ==
  {v \in Met(receipts, field) :
     Cardinality({w \in Met(receipts, field) : Ahead(receipts, field, w, v)})
       < MostCommon}

MostCommonCounts(receipts, field) ==
  [v \in Listed(receipts, field) |-> Count(receipts, field, v)]

\* What one response counts. The filter stands for the window of the last hours.
ActivityOf(receipts, truncated) ==
  [total_calls |-> Cardinality(receipts),
   calls_by_agent |-> MostCommonCounts(receipts, "spiffe_id"),
   denials_by_agent |-> MostCommonCounts(Denials(receipts), "spiffe_id"),
   denials_by_reason |-> MostCommonCounts(Denials(receipts), "reason"),
   shadowed_denials |-> Cardinality({i \in Denials(receipts) : ~Fields(i).enforced}),
   truncated |-> truncated]

\* Mutant of FleetActivity: a scan that met its limit is not truncated.
FleetActivityOffByOne(f, limit) ==
  ActivityOf(Search(f, limit, 0), Cardinality(Search(f, limit, 0)) > limit)

FleetActivity(f, limit) ==
  ActivityOf(Search(f, limit, 0), Cardinality(Search(f, limit, 0)) >= limit)

\* fleet_summary counts the last 24 hours by decision, up to a limit, ...
SummaryCounts ==
  /\ reader.doing = "nothing"
  /\ \E f \in Filters, limit \in Limits \ {0} :
       reader' = [Idle EXCEPT !.doing = "summing", !.filter = f, !.limit = limit,
                              !.seen = Search(f, limit, 0)]
  /\ UNCHANGED vars

\* ... and then asks for the latest receipt of all, in a second query.
SummaryLatest ==
  LET page == Search(Calls, 1, 0) IN
  /\ reader.doing = "summing"
  /\ reader' = [reader EXCEPT !.doing = "summed",
                              !.latest = IF page = {} THEN 0 ELSE Max(page)]
  /\ UNCHANGED vars

-----------------------------------------------------------------------------

Reads == BeginWalk \/ ReadPage \/ SummaryCounts \/ SummaryLatest

ReadsNext == (Next /\ UNCHANGED reader) \/ Reads

ReadsSpec == ReadsInit /\ [][ReadsNext]_allVars /\ Fairness

-----------------------------------------------------------------------------
(* Properties                                                              *)

Walks == {"walking", "walked"}

\* However receipts are appended between two pages, a client that reads to the
\* last page misses no receipt that was there when it began, and sees a
\* receipt again at most once for every one that was appended meanwhile.
WalkMissesNothing ==
  /\ reader.doing = "walked" => reader.atStart \subseteq reader.seen
  /\ reader.doing \in Walks =>
       reader.offset <= Cardinality(reader.seen)
                          + Cardinality(Matching(reader.filter) \ reader.atStart)

\* No entry of a list of counts is above the truth.
AtMost(list, receipts, field) ==
  \A v \in DOMAIN list : list[v] <= Count(receipts, field, v)

\* Every entry is the truth, and a value that has receipts is left out only if
\* MostCommon others have as many at least, no listed one having fewer.
CutOff(list, receipts, field) ==
  /\ \A v \in DOMAIN list : list[v] = Count(receipts, field, v)
  /\ \A v \in Met(receipts, field) \ DOMAIN list :
       /\ \A w \in DOMAIN list :
            Count(receipts, field, v) <= Count(receipts, field, w)
       /\ MostCommon <=
            Cardinality({w \in Met(receipts, field) \ {v} :
               Count(receipts, field, v) <= Count(receipts, field, w)})

\* fleet_activity's docstring: the counters are the truth, or at most the
\* truth and flagged as truncated. The lists of the most common agents and
\* reasons are cut without a flag: unflagged, an entry is the truth, and an agent
\* or reason is missing only behind MostCommon that have no fewer. And the
\* summary's last receipt is never older than one it counts, though a newer one
\* may have come in between.
FleetCountsHonest ==
  /\ \A f \in Filters, limit \in Limits :
       LET told == FleetActivity(f, limit)
           all == Matching(f)
           denied == Denials(all)
           shadowed == {i \in denied : ~Fields(i).enforced}
       IN IF told.truncated
            THEN /\ told.total_calls <= Cardinality(all)
                 /\ told.shadowed_denials <= Cardinality(shadowed)
                 /\ AtMost(told.calls_by_agent, all, "spiffe_id")
                 /\ AtMost(told.denials_by_agent, denied, "spiffe_id")
                 /\ AtMost(told.denials_by_reason, denied, "reason")
            ELSE /\ told.total_calls = Cardinality(all)
                 /\ told.shadowed_denials = Cardinality(shadowed)
                 /\ CutOff(told.calls_by_agent, all, "spiffe_id")
                 /\ CutOff(told.denials_by_agent, denied, "spiffe_id")
                 /\ CutOff(told.denials_by_reason, denied, "reason")
  /\ reader.doing = "summed" => \A i \in reader.seen : i <= reader.latest

-----------------------------------------------------------------------------
(* The inductive invariant behind both, next to that of ReceiptChain: the  *)
(* rows of the first offset ranks that were there at the start were seen,  *)
(* and appends only push rows down the ranks.                              *)

ReaderType ==
  reader \in [doing: {"nothing", "walking", "walked", "summing", "summed"},
             filter: SUBSET Calls, limit: Nat, offset: Nat,
             atStart: SUBSET Nat, seen: SUBSET Nat, latest: Nat]

WalkInv ==
  LET matching == Matching(reader.filter) IN
  reader.doing \in Walks =>
    /\ reader.offset <= Cardinality(matching)
    /\ \A i \in reader.atStart : Rank(matching, i) < reader.offset => i \in reader.seen
    /\ reader.atStart \subseteq matching /\ reader.seen \subseteq matching
    /\ reader.doing = "walked" => reader.atStart \subseteq reader.seen

SummaryInv ==
  /\ reader.doing = "summing" => reader.seen \subseteq DOMAIN rows
  /\ reader.doing = "summed" => \A i \in reader.seen : i <= reader.latest

ReadsInv == ReaderType /\ WalkInv /\ SummaryInv
=============================================================================
