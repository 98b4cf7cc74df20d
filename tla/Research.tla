------------------------------ MODULE Research ------------------------------
(***************************************************************************)
(* One wave of research nodes: what a run may cite.                        *)
(*                                                                         *)
(* The nodes of a wave run side by side on one event loop.  Each has its   *)
(* own tool gate (toolkit/_budget_gate.py); they share the memory of       *)
(* sources and the article cache, which earlier runs filled, and the       *)
(* market cache behind one lock.  A tool call is suspended at its await:   *)
(* what it does before and what it does after are two actions, and other   *)
(* calls of the node and of its siblings come between.  A node's answer is *)
(* tidied, judged and perhaps sent back by the output validator            *)
(* (graph/agents.py); when every node has ended, the blackboard merges     *)
(* what they found into the evidence ledger, node by node.                 *)
(*                                                                         *)
(* A page is a URL; what a page says is left out.  A claim is an opaque    *)
(* value.  An answer carries evidence and the receipts of one candidate    *)
(* branch, positions in the evidence as in evidence_indices.               *)
(***************************************************************************)
EXTENDS Lists, SequencesExt

CONSTANTS
    Order,          \* the wave's nodes, in the order of their briefs
    Urls,           \* public pages
    Internal,       \* the source internal://get_results_and_fixtures
    Final,          \* where a page's address redirects to
    Past,           \* what earlier runs may have recorded of a page
    Budget,         \* settings.graph_research_tool_budget
    FetchFloor,     \* settings.graph_research_fetch_floor
    OutputRetries,  \* how often an answer may be sent back
    Drafts          \* the answers a model may write

Nodes == ToSet(Order)

(* A record of the source memory: who saw the page last, and what came of  *)
(* it.  A run that replays a past day does not see what is dated later.    *)
Unseen == [run |-> "none", disposition |-> "none"]
Records == {Unseen} \cup [run : {"earlier", "later", "this"},
                          disposition : {"ranked", "fetched", "empty"}]

Items == [claim : STRING, source_url : Urls \cup {Internal},
          confirmed : BOOLEAN, unplayed : BOOLEAN]

Answers == [evidence : Seq(Items), evidence_indices : SUBSET Nat, sound : BOOLEAN]

ASSUME ResearchAssumption ==
    /\ Order \in Seq(Nodes)
    /\ Internal \notin Urls
    /\ Final \in [Urls -> Urls]
    /\ \A u \in Urls : Final[Final[u]] = Final[u]
    /\ Past \subseteq {r \in Records : r.run # "this"}
    /\ Budget \in Nat /\ FetchFloor \in Nat /\ FetchFloor < Budget
    /\ OutputRetries \in Nat
    /\ Drafts \subseteq Answers

VARIABLES
    status,     \* running, ok or failed
    searched,   \* slots of the gate a node has spent on searches
    fetched,    \* and on fetches
    fetching,   \* pages a node is waiting for
    odds,       \* where a node's get_odds call is
    priced,     \* the market cache holds the odds
    paid,       \* ghost: sets of odds the run has bought and has not lost
    seen,       \* the source memory: the latest record of each page
    cached,     \* pages the article cache can serve from an earlier run
    read,       \* pages whose text some node of this run was given
    sentBack,   \* how many of a node's answers the validator returned
    written,    \* the answer a node wrote, once accepted
    artifact,   \* and what the run keeps of it
    ledger,     \* the evidence ledger
    sources,    \* ledger positions in source_ids of a node's branch
    merged      \* how many nodes the blackboard has merged

desk == <<status, sentBack, written, artifact>>
gate == <<searched, fetched>>
market == <<odds, priced, paid>>
memory == <<seen, cached, read>>
board == <<ledger, sources, merged>>
vars == <<desk, gate, fetching, market, memory, board>>

(* A call waits for the lock, for the bookmakers, and then for Polymarket, *)
(* with the bookmakers' odds in hand or without; it holds the lock as soon *)
(* as it has it.                                                           *)
Holding == {"buying", "pricing", "degraded"}
Locked == \E n \in Nodes : odds[n] \in Holding

NoAnswer == [evidence |-> <<>>, evidence_indices |-> {}, sound |-> TRUE]

Init ==
    /\ status = [n \in Nodes |-> "running"]
    /\ searched = [n \in Nodes |-> 0]
    /\ fetched = [n \in Nodes |-> 0]
    /\ fetching = [n \in Nodes |-> {}]
    /\ odds = [n \in Nodes |-> "idle"]
    /\ priced = FALSE
    /\ paid = 0
    /\ seen \in [Urls -> Past]
    /\ cached \in SUBSET {u \in Urls : seen[u] # Unseen}
    /\ \A u \in cached : Final[u] \in cached
    /\ read = {}
    /\ sentBack = [n \in Nodes |-> 0]
    /\ written = [n \in Nodes |-> NoAnswer]
    /\ artifact = [n \in Nodes |-> NoAnswer]
    /\ ledger = <<>>
    /\ sources = [n \in Nodes |-> {}]
    /\ merged = 0

----------------------------------------------------------------------------
(* The gate. *)

Used(n) == searched[n] + fetched[n]
Reserves(n, keepFree) == Used(n) + keepFree < Budget
Exhausted(n) == Used(n) >= Budget

(* The source memory. *)

\* Mutant of MergedDisposition: another run's fetch counts as this run's.
MergedAcrossRuns(existing, disposition) ==
    IF disposition = "ranked" /\ existing.disposition \in {"empty", "fetched"}
    THEN existing.disposition
    ELSE disposition

\* Mutant of MergedDisposition: the latest word wins.
MergedLatest(existing, disposition) == disposition

MergedDisposition(existing, disposition) ==
    CASE disposition = "ranked" /\ existing.disposition = "empty" -> "empty"
      [] disposition = "ranked" /\ existing.disposition = "fetched"
                                /\ existing.run = "this" -> "fetched"
      [] OTHER -> disposition

Recorded(pages, disposition) ==
    [u \in Urls |-> IF u \in pages
                    THEN [run |-> "this",
                          disposition |-> MergedDisposition(seen[u], disposition)]
                    ELSE seen[u]]

Visible(u) == IF seen[u].run = "later" THEN Unseen ELSE seen[u]
FetchedThisRun(u) == seen[u] = [run |-> "this", disposition |-> "fetched"]
Addresses(u) == {u, Final[u]}

----------------------------------------------------------------------------
(* Tool calls. *)

Search(n) ==
    /\ status[n] = "running"
    /\ Reserves(n, FetchFloor)
    /\ searched' = [searched EXCEPT ![n] = @ + 1]
    /\ UNCHANGED <<desk, fetched, fetching, market, memory, board>>

(* The ranker scored these of the candidates; it costs no slot. *)
Rank(n, pages) ==
    /\ status[n] = "running"
    /\ seen' = Recorded(pages, "ranked")
    /\ UNCHANGED <<desk, gate, fetching, market, cached, read, board>>

Fetch(n, u, refresh) ==
    /\ status[n] = "running"
    /\ u \notin fetching[n]
    /\ Reserves(n, 0)
    /\ fetched' = [fetched EXCEPT ![n] = @ + 1]
    /\ \/ /\ \/ Visible(u).disposition = "empty"
             \/ FetchedThisRun(u)
          /\ UNCHANGED <<fetching, memory>>
       \/ /\ Visible(u).disposition # "empty"
          /\ ~FetchedThisRun(u)
          /\ ~refresh /\ u \in cached
          /\ seen' = Recorded(Addresses(u), "fetched")
          /\ read' = read \cup Addresses(u)
          /\ UNCHANGED <<fetching, cached>>
       \/ /\ Visible(u).disposition # "empty"
          /\ ~FetchedThisRun(u)
          /\ refresh \/ u \notin cached
          /\ fetching' = [fetching EXCEPT ![n] = @ \cup {u}]
          /\ UNCHANGED memory
    /\ UNCHANGED <<desk, searched, market, board>>

(* The page arrives, is blank, or the call raises: a timeout, an HTTP      *)
(* error, or the run's own cap.                                            *)
PageArrives(n, u) ==
    /\ u \in fetching[n]
    /\ fetching' = [fetching EXCEPT ![n] = @ \ {u}]
    /\ \/ /\ seen' = Recorded(Addresses(u), "fetched")
          /\ cached' = cached \ Addresses(u)
          /\ read' = read \cup Addresses(u)
       \/ /\ seen' = Recorded(Addresses(u), "empty")
          /\ UNCHANGED <<cached, read>>
       \/ UNCHANGED memory
    /\ UNCHANGED <<desk, gate, market, board>>

AskOdds(n) ==
    /\ status[n] = "running"
    /\ odds[n] = "idle"
    /\ ~priced
    /\ odds' = [odds EXCEPT ![n] = "queued"]
    /\ UNCHANGED <<desk, gate, fetching, priced, paid, memory, board>>

\* Mutant of LockMarket: the cache is not looked up again.
LockMarketBlindly(n) ==
    /\ odds[n] = "queued" /\ ~Locked
    /\ \E next \in {"buying", "idle"} : odds' = [odds EXCEPT ![n] = next]
    /\ UNCHANGED <<desk, gate, fetching, priced, paid, memory, board>>

(* The lock is taken; the cache is looked up again, and the purchase may   *)
(* be refused by the run's cap.                                            *)
LockMarket(n) ==
    /\ odds[n] = "queued" /\ ~Locked
    /\ \E next \in IF priced THEN {"idle"} ELSE {"buying", "idle"} :
          odds' = [odds EXCEPT ![n] = next]
    /\ UNCHANGED <<desk, gate, fetching, priced, paid, memory, board>>

(* The bookmakers answer; time out or fail, and the odds are to be         *)
(* Polymarket's alone; or the call raises.                                 *)
OddsArrive(n) ==
    /\ odds[n] = "buying"
    /\ \/ odds' = [odds EXCEPT ![n] = "pricing"] /\ paid' = paid + 1
       \/ \E next \in {"degraded", "idle"} : odds' = [odds EXCEPT ![n] = next] /\ paid' = paid
    /\ UNCHANGED <<desk, gate, fetching, priced, memory, board>>

(* What a call loses that ends before it has filled the cache.             *)
Lost(n) == IF odds[n] = "pricing" THEN 1 ELSE 0

(* Polymarket answers and what there is is cached, or the call raises.     *)
PricesArrive(n) ==
    /\ odds[n] \in {"pricing", "degraded"}
    /\ odds' = [odds EXCEPT ![n] = "idle"]
    /\ \/ priced' = TRUE /\ paid' = paid
       \/ priced' = priced /\ paid' = paid - Lost(n)
    /\ UNCHANGED <<desk, gate, fetching, memory, board>>

----------------------------------------------------------------------------
(* Answers. *)

\* Mutant of Without: receipts keep their positions.
WithoutRenumbering(answer, gone) ==
    LET kept == DOMAIN answer.evidence \ gone
    IN  [evidence |-> Kept(answer.evidence, kept),
         evidence_indices |-> answer.evidence_indices \cap kept, sound |-> answer.sound]

(* The answer without the evidence at these positions: receipts follow     *)
(* what stays.  Nothing is renumbered when nothing goes.                   *)
Without(answer, gone) ==
    LET kept == DOMAIN answer.evidence \ gone
    IN  IF gone = {} THEN answer
        ELSE [evidence |-> Kept(answer.evidence, kept),
              evidence_indices |-> {Place(kept, i) : i \in answer.evidence_indices \cap kept},
              sound |-> answer.sound]

(* Snippets a node had no slot left to fetch; a branch's are never moved.  *)
Demotable(n, answer) ==
    {i \in DOMAIN answer.evidence :
        /\ Exhausted(n)
        /\ answer.evidence[i].source_url \in Urls
        /\ ~FetchedThisRun(answer.evidence[i].source_url)
        /\ i \notin answer.evidence_indices}

(* Results asserted of fixtures the forecaster has not as played. *)
Unplayed(answer) == {i \in DOMAIN answer.evidence : answer.evidence[i].unplayed}

Tidied(n, answer) ==
    LET fetchable == Without(answer, Demotable(n, answer))
    IN  Without(fetchable, Unplayed(fetchable))

(* Whatever else the validator finds, of hosts, groups, deltas, line-ups   *)
(* and branches without receipts, is ~answer.sound.                        *)
HasIssues(answer) ==
    \/ ~answer.sound
    \/ \E i \in DOMAIN answer.evidence :
          /\ answer.evidence[i].source_url \in Urls
          /\ ~FetchedThisRun(answer.evidence[i].source_url)
    \/ ~(answer.evidence_indices \subseteq DOMAIN answer.evidence)
    \/ Unplayed(answer) # {}

Answer(n, draft) ==
    LET tidied == Tidied(n, draft)
    IN  /\ status[n] = "running"
        /\ fetching[n] = {} /\ odds[n] = "idle"
        /\ \/ /\ ~HasIssues(tidied)
              /\ status' = [status EXCEPT ![n] = "ok"]
              /\ written' = [written EXCEPT ![n] = draft]
              /\ artifact' = [artifact EXCEPT ![n] = tidied]
              /\ UNCHANGED sentBack
           \/ /\ HasIssues(tidied)
              /\ sentBack[n] < OutputRetries
              /\ sentBack' = [sentBack EXCEPT ![n] = @ + 1]
              /\ UNCHANGED <<status, written, artifact>>
           \/ /\ HasIssues(tidied)
              /\ sentBack[n] = OutputRetries
              /\ status' = [status EXCEPT ![n] = "failed"]
              /\ UNCHANGED <<sentBack, written, artifact>>
        /\ UNCHANGED <<gate, fetching, market, memory, board>>

(* Its wall clock or its requests run out, or its model raises; the calls  *)
(* it was waiting for are cancelled and the lock is released.              *)
NodeFails(n) ==
    /\ status[n] = "running"
    /\ status' = [status EXCEPT ![n] = "failed"]
    /\ fetching' = [fetching EXCEPT ![n] = {}]
    /\ odds' = [odds EXCEPT ![n] = "idle"]
    /\ paid' = paid - Lost(n)
    /\ UNCHANGED <<sentBack, written, artifact, gate, priced, memory, board>>

----------------------------------------------------------------------------
(* The merge. *)

Key(item) == <<item.claim, item.source_url>>
BackedBy(url) == url = Internal \/ FetchedThisRun(url)

(* The items that open an entry: those of a claim the ledger does not have *)
(* of that source, neither from before nor from earlier in the answer.     *)
Opening(items) ==
    {i \in DOMAIN items :
        /\ \A e \in DOMAIN ledger : Key(ledger[e]) # Key(items[i])
        /\ \A j \in 1 .. i - 1 : Key(items[j]) # Key(items[i])}

(* A confirmed claim whose page was not read is taken down to probable, in *)
(* the ledger and in the artifact.                                         *)
Demoted(item) ==
    [claim |-> item.claim, source_url |-> item.source_url,
     confirmed |-> item.confirmed /\ BackedBy(item.source_url), unplayed |-> item.unplayed]

Entered(items) ==
    [i \in DOMAIN items |-> IF i \in Opening(items) THEN Demoted(items[i]) ELSE items[i]]

EntryOf(entries, item) == CHOOSE e \in DOMAIN entries : Key(entries[e]) = Key(item)

Merge ==
    /\ \A n \in Nodes : status[n] # "running"
    /\ merged < Len(Order)
    /\ merged' = merged + 1
    /\ LET n == Order[merged + 1]
           items == artifact[n].evidence
       IN  /\ ledger' = ledger \o Kept(Entered(items), Opening(items))
           /\ sources' = [sources EXCEPT ![n] =
                             {EntryOf(ledger', items[i]) : i \in artifact[n].evidence_indices}]
           /\ artifact' = [artifact EXCEPT ![n].evidence = Entered(items)]
    /\ UNCHANGED <<status, sentBack, written, gate, fetching, market, memory>>

ToolCall(n) ==
    \/ Search(n)
    \/ \E pages \in SUBSET Urls \ {{}} : Rank(n, pages)
    \/ \E u \in Urls, refresh \in BOOLEAN : Fetch(n, u, refresh)
    \/ \E u \in Urls : PageArrives(n, u)
    \/ AskOdds(n)
    \/ LockMarket(n)
    \/ OddsArrive(n)
    \/ PricesArrive(n)

Next ==
    \/ \E n \in Nodes :
          \/ ToolCall(n)
          \/ \E draft \in Drafts : Answer(n, draft)
          \/ NodeFails(n)
    \/ Merge

Spec == Init /\ [][Next]_vars

----------------------------------------------------------------------------
(* Properties. *)

(* What the ledger holds as confirmed from a public page rests on text     *)
(* this run was given, whatever earlier runs recorded of the page, however *)
(* it was ranked since, and whoever fetched or cached it under which       *)
(* address.                                                                *)
ConfirmedWasRead ==
    \A i \in DOMAIN ledger :
        ledger[i].confirmed /\ ledger[i].source_url \in Urls
            => ledger[i].source_url \in read

(* A branch's receipts survive the tidying and the merge: the ledger       *)
(* entries its source_ids name are those of the items its author pointed   *)
(* at, all of them but results that were never played.                     *)
ReceiptsHold ==
    \A k \in 1 .. merged :
        LET n == Order[k]
            meant == {written[n].evidence[i] :
                         i \in written[n].evidence_indices \cap DOMAIN written[n].evidence}
        IN  {Key(ledger[i]) : i \in sources[n]} =
            {Key(item) : item \in {item \in meant : ~item.unplayed}}

(* While the run has odds that it paid for, in hand or in the cache, it    *)
(* pays for no others, however the nodes' calls overlap and whoever dies   *)
(* holding the lock.  (It may pay again: odds in hand are lost when the    *)
(* call that waits for Polymarket raises or is cancelled.)                 *)
OddsBoughtOnce == paid <= 1

(* A page this run has read stays citable, unless it came back blank when  *)
(* it was asked for again: neither a ranking nor a cached copy takes that  *)
(* away.                                                                   *)
ReadStaysCitable ==
    [][\A u \in Urls :
          FetchedThisRun(u) => FetchedThisRun(u)' \/ seen'[u].disposition = "empty"]_vars
======================================================================
