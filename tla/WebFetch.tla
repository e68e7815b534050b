------------------------------ MODULE WebFetch ------------------------------
(***************************************************************************)
(* One web_fetch (tools/definitions/webFetch.tool.ts): its batches of      *)
(* pages, the workers of a browser pool (PinchtabPool, BrowserPool) and    *)
(* the choice of the pool (PreferredBrowserPool).                          *)
(***************************************************************************)
EXTENDS Naturals, Sequences, FiniteSets, SequencesExt, Filters

CONSTANTS
    Urls,             \* the addresses that may be asked for, in their order
    Workers,          \* browseConcurrency
    MaxPages,         \* pages a fetch keeps
    PlaywrightWorks   \* whether Playwright is enabled and starts

FetchConstants ==
    /\ Urls \in Seq(ToSet(Urls)) /\ IsInjective(Urls)
    /\ IsFiniteSet(Workers) /\ MaxPages \in Nat \ {0} /\ PlaywrightWorks \in BOOLEAN

VARIABLES
    fetch,   \* the tool: its step, the backend, the candidates and the batch
    todo,    \* the queue of the batch
    worker,  \* what each worker does
    got      \* pages and failures of the batch and of the fetch, what is stored

fetchVars == <<fetch, todo, worker, got>>

Fetchable == ToSet(Urls)
Off == [at |-> "off"]
Page(u, usable) == [url |-> u, usable |-> usable]
UrlsOf(pages) == {pages[i].url : i \in DOMAIN pages}

\* The addresses of the call and of its search, deduplicated; a search that
\* fails gives none.
Init ==
    /\ \E n \in 0..Len(Urls) :
         LET urls == SubSeq(Urls, 1, n) IN
         fetch = [at |-> IF n = 0 THEN "ended" ELSE "choose", backend |-> "none",
                  urls |-> urls, batch |-> SubSeq(urls, 1, IF n < MaxPages THEN n ELSE MaxPages),
                  round |-> 1, late |-> FALSE]
    /\ todo = <<>>
    /\ worker = [w \in Workers |-> Off]
    /\ got = [pages |-> <<>>, failures |-> {}, kept |-> <<>>, stored |-> <<>>]

-----------------------------------------------------------------------------
(* The pool. *)

\* collectPages: as many workers as there are addresses, at most Workers.
Collect(backend) ==
    /\ fetch' = [fetch EXCEPT !.at = "collect", !.backend = backend]
    /\ todo' = fetch.batch
    /\ \E ws \in SUBSET Workers :
         /\ Cardinality(ws) = (IF Len(fetch.batch) < Cardinality(Workers)
                               THEN Len(fetch.batch) ELSE Cardinality(Workers))
         /\ worker' = [w \in Workers |-> IF w \in ws THEN [at |-> "free"] ELSE Off]
    /\ got' = [got EXCEPT !.pages = <<>>, !.failures = {}]

\* usePlaywright throws when Playwright is disabled or does not start: the tool
\* ends with nothing stored.
UsePlaywright ==
    IF PlaywrightWorks THEN Collect("playwright")
    ELSE fetch' = [fetch EXCEPT !.at = "failed"] /\ UNCHANGED <<todo, worker, got>>

\* selectInitialBackend: what was chosen stays.
ChooseBackend ==
    /\ fetch.at = "choose"
    /\ IF fetch.backend # "none" THEN Collect(fetch.backend)
       ELSE Collect("pinchtab") \/ UsePlaywright

\* The deadline of the run passes.
DeadlinePasses ==
    /\ ~fetch.late /\ fetch' = [fetch EXCEPT !.late = TRUE]
    /\ UNCHANGED <<todo, worker, got>>

AfterTaken(q) == Tail(q)

WorkerTakes(w) ==
    /\ worker[w].at = "free"
    /\ IF todo = <<>> \/ fetch.late
       THEN worker' = [worker EXCEPT ![w] = Off] /\ UNCHANGED todo
       ELSE /\ worker' = [worker EXCEPT ![w] = [at |-> "loading", url |-> Head(todo)]]
            /\ todo' = AfterTaken(todo)
    /\ UNCHANGED <<fetch, got>>

\* fetchPage, extractPagePayload: a page, of any quality, or a failure.
WorkerGets(w) ==
    /\ worker[w].at = "loading"
    /\ worker' = [worker EXCEPT ![w] = [at |-> "free"]]
    /\ \/ \E usable \in BOOLEAN : got' = [got EXCEPT !.pages = Append(@, Page(worker[w].url, usable))]
       \/ got' = [got EXCEPT !.failures = @ \cup {worker[w].url}]
    /\ UNCHANGED <<fetch, todo>>

-----------------------------------------------------------------------------
(* The tool. *)

Usable(pages) == Those(pages, {p \in ToSet(pages) : p.usable})
Degraded(pages) == Cardinality({i \in DOMAIN pages : ~pages[i].usable})
Few(s, n) == SubSeq(s, 1, IF Len(s) < n THEN Len(s) ELSE n)
Unread(f) == SubSeq(f.urls, Len(f.batch) + 1, Len(f.urls))

\* selectFetchedPagesForStorage.
Select(pages) == Few(IF Usable(pages) # <<>> THEN Usable(pages) ELSE pages, MaxPages)

Store(pages) ==
    /\ fetch' = [fetch EXCEPT !.at = "ended"]
    /\ got' = [got EXCEPT !.stored = Select(pages), !.kept = pages]

\* A batch is in: Pinchtab that got nothing makes way for Playwright; the
\* degraded pages of the first batch are made up for by as many further ones.
BatchDone ==
    /\ fetch.at = "collect" /\ \A w \in Workers : worker[w] = Off
    /\ IF fetch.backend = "pinchtab" /\ got.pages = <<>> /\ got.failures # {}
       THEN UsePlaywright
       ELSE /\ LET pages == got.kept \o got.pages
                   more == Few(Few(Unread(fetch), Degraded(got.pages)), MaxPages)
               IN IF fetch.round = 1 /\ more # <<>>
                  THEN /\ fetch' = [fetch EXCEPT !.at = "choose", !.round = 2, !.batch = more]
                       /\ got' = [got EXCEPT !.kept = pages]
                  ELSE Store(pages)
            /\ UNCHANGED <<todo, worker>>

FetchStep(w) == WorkerTakes(w) \/ WorkerGets(w)
ToolStep == ChooseBackend \/ BatchDone

Next == DeadlinePasses \/ ToolStep \/ \E w \in Workers : FetchStep(w)

-----------------------------------------------------------------------------
(* Properties. *)

\* The steps of the tool and its results are what the code can make of them.
TypeOK ==
    /\ fetch.at \in {"choose", "collect", "ended", "failed"}
    /\ UrlsOf(got.pages \o got.kept) \cup got.failures \subseteq Fetchable
    /\ Len(got.stored) <= MaxPages

\* Every address of a batch is read once: it is waiting, with one worker, or has
\* its page or its failure; only the deadline leaves one unread.
AddressesAreReadOnce ==
    fetch.at = "collect" =>
        LET busy == {w \in Workers : worker[w].at = "loading"}
            here == <<ToSet(todo), {worker[w].url : w \in busy}, UrlsOf(got.pages), got.failures>>
        IN /\ ToSet(fetch.batch) = UNION ToSet(here)
           /\ Len(fetch.batch) = Len(todo) + Cardinality(busy) + Len(got.pages) + Cardinality(got.failures)

\* A page that could be used is never crowded out by one that could not, and
\* something is stored if any page was read, whatever failed later: it does not
\* hold if Playwright is needed for the second batch and does not start.
ReadPagesAreStored ==
    fetch.at \in {"ended", "failed"} =>
        /\ got.kept # <<>> => got.stored # <<>>
        /\ Usable(got.kept) # <<>> => ToSet(got.stored) \subseteq ToSet(Usable(got.kept))

\* The tool ends.
FetchEnds == <>(fetch.at \in {"ended", "failed"})

Spec == Init /\ [][Next]_fetchVars

=============================================================================
