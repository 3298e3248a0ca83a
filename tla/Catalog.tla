------------------------------ MODULE Catalog ------------------------------
(***************************************************************************)
(* Live model catalogs: the JSON-RPC client of `codex app-server`, from    *)
(* its start to the end of its process (catalog.py), the catalog the       *)
(* controller keeps of it, and the Leader and the Workers selected from it *)
(* (fleet.py), all of this one provider.                                   *)
(* The server answers a request once, more than once or never, sends       *)
(* notifications in between, and may break off at any point.               *)
(***************************************************************************)
EXTENDS Naturals, Sequences, FiniteSets, SequencesExt

CONSTANTS Models,    \* models, by their ids
          Team,      \* how many are selected: the Leader and at least a Worker
          Listings,  \* what the server may list: pages of entries
          Hidden,    \* entries that are marked hidden
          Bad,       \* an entry without a usable id
          None,      \* no selection
          MaxPages, MaxModels, \* limits of the client
          MaxNoise,  \* bound: lines nobody asked for
          MaxFetches \* bound: fetches

ASSUME CatalogAssumption ==
    /\ Listings \subseteq Seq(Seq(Models \cup {Bad})) \ {<<>>}
    /\ Team \in Nat \ {0, 1}
    /\ MaxPages \in Nat \ {0} /\ MaxModels \in Nat \ {0}
    /\ MaxNoise \in Nat /\ MaxFetches \in Nat

VARIABLES
    listing,   \* what the server lists now
    child,     \* the server: none, running, deaf to SIGTERM, dead
    requests,  \* the cursor of every request it received; 0: initialize
    out,       \* the lines on its standard output
    noise,     \* lines sent unasked, in all
    pc,        \* the client: off, reading, stopping, killing
    got,       \* [models, size, pages, status, truncated] so far
    late,      \* has the deadline passed, the user cancelled?
    fetches,   \* fetches so far
    catalog,   \* catalogs[provider_id] of the controller
    chosen,    \* the selected models: the Leader's, then the Workers'
    request,   \* start_request: idle, checking, refreshing, asked
    loop       \* the selections its loop has still to check

server == <<listing, child, out, noise>>
client == <<pc, got, requests, late, fetches>>
controller == <<catalog, chosen, request, loop>>
vars == <<server, client, controller>>

\* The models of a page and how many entries name one; a model that several
\* entries name counts as often.
Entries(page) == ToSet(page) \ {Bad}
Count(page) == Cardinality({i \in DOMAIN page : page[i] # Bad})

\* All that is listed, on any page.
Listed(l) == UNION {Entries(l[n]) : n \in DOMAIN l}

Visible(models) == models \ Hidden
NothingYet == [models |-> {}, size |-> 0, pages |-> 0, status |-> "ok", truncated |-> FALSE]

\* What the controller keeps of a fetch, and before the first one.
CatalogOf(status, models, truncated) ==
    [status |-> status, models |-> models, truncated |-> truncated]
NoCatalog == CatalogOf("none", {}, FALSE)

\* The answer to the n-th request, and lines that answer nothing.
Answer(n) == [id |-> n, kind |-> "result", page |-> requests[n]]
Notification == [id |-> 0, kind |-> "result", page |-> 1]
Broken(n) == [id |-> n, kind |-> "error", page |-> 0]
Junk == [id |-> 0, kind |-> "junk", page |-> 0]
EndOfFile == [id |-> 0, kind |-> "eof", page |-> 0]
----------------------------------------------------------------------------
(* The server. What it writes when nobody reads any more is left out.      *)

\* The answer to the request under way, or one given once more.
ServerAnswers ==
    /\ child \in {"running", "deaf"} /\ pc = "reading"
    /\ \E n \in DOMAIN requests :
         LET fresh == n = Len(requests) /\ Answer(n) \notin ToSet(out)
         IN  /\ fresh \/ noise < MaxNoise
             /\ noise' = IF fresh THEN noise ELSE noise + 1
             /\ out' = Append(out, Answer(n))
    /\ UNCHANGED <<listing, child, client, controller>>

ServerDisturbs ==
    /\ child \in {"running", "deaf"} /\ pc = "reading" /\ noise < MaxNoise
    /\ noise' = noise + 1
    /\ \E line \in {Notification, Junk, Broken(Len(requests))} : out' = Append(out, line)
    /\ UNCHANGED <<listing, child, client, controller>>

ServerDies ==
    /\ child \in {"running", "deaf"}
    /\ child' = "dead" /\ out' = Append(out, EndOfFile)
    /\ UNCHANGED <<listing, noise, client, controller>>

\* Another account, another day: a fetch sees one listing.
ListingChanges ==
    /\ pc = "off" /\ request # "refreshing"
    /\ listing' \in Listings \ {listing}
    /\ UNCHANGED <<child, out, noise, client, controller>>
----------------------------------------------------------------------------
(* The client: CodexCatalogAdapter.fetch.                                  *)

\* start() and the first request, if there is something to start.
Begin ==
    /\ pc = "off" /\ fetches < MaxFetches
    /\ fetches' = fetches + 1
    /\ got' = NothingYet /\ late' = FALSE
    /\ UNCHANGED <<listing, chosen, loop>>
    /\ \/ /\ child' \in {"running", "deaf"} /\ pc' = "reading"
          /\ requests' = <<0>> /\ out' = <<>> /\ noise' = 0
          /\ UNCHANGED catalog
       \/ /\ catalog' = CatalogOf("error", {}, FALSE)
          /\ UNCHANGED <<child, pc, requests, out, noise>>

Ask(cursor) == requests' = Append(requests, cursor)

\* Whatever goes wrong, the server is shut down.
GiveUp(status) ==
    /\ got' = [got EXCEPT !.status = status]
    /\ pc' = "stopping"
    /\ UNCHANGED requests

\* Faulty variant: a list cut at a limit passes for the whole
PageUnflagged(k) ==
    IF k = 0 THEN Ask(1) /\ UNCHANGED <<pc, got>>
    ELSE LET size == got.size + Count(listing[k])
             more == k < Len(listing)
             full == more /\ (got.pages + 1 >= MaxPages \/ size >= MaxModels)
         IN  /\ got' = [got EXCEPT !.models = @ \cup Entries(listing[k]), !.size = size,
                                   !.pages = @ + 1]
             /\ IF more /\ ~full THEN Ask(k + 1) /\ UNCHANGED pc
                ELSE pc' = "stopping" /\ UNCHANGED requests

\* A page of model/list, or the answer to initialize.
Page(k) ==
    IF k = 0 THEN Ask(1) /\ UNCHANGED <<pc, got>>
    ELSE LET size == got.size + Count(listing[k])
             more == k < Len(listing)
             full == more /\ (got.pages + 1 >= MaxPages \/ size >= MaxModels)
         IN  /\ got' = [got EXCEPT !.models = @ \cup Entries(listing[k]), !.size = size,
                                   !.pages = @ + 1, !.truncated = full]
             /\ IF more /\ ~full THEN Ask(k + 1) /\ UNCHANGED pc
                ELSE pc' = "stopping" /\ UNCHANGED requests

\* request() reads until the line with its id; the end of the output and what
\* is no JSON end the fetch, and so does an error in answer to the request.
ReadLine ==
    /\ pc = "reading" /\ ~late /\ out # <<>>
    /\ LET line == Head(out) IN
       IF line.kind \in {"junk", "eof"} \/ line = Broken(Len(requests)) THEN GiveUp("error")
       ELSE IF line.id # Len(requests) THEN UNCHANGED <<pc, got, requests>>
       ELSE Page(line.page)
    /\ out' = Tail(out)
    /\ UNCHANGED <<listing, child, noise, late, fetches, controller>>

\* The deadline of the whole fetch passes, or the user cancels it.
Expire ==
    /\ pc = "reading" /\ ~late
    /\ late' = TRUE
    /\ UNCHANGED <<server, pc, got, requests, fetches, controller>>

TimesOut ==
    /\ pc = "reading" /\ late
    /\ GiveUp("error")
    /\ UNCHANGED <<server, late, fetches, controller>>

\* What the catalog says: OK only with a model to show.
Result ==
    CatalogOf(IF got.status = "ok" /\ Visible(got.models) = {} THEN "unavailable" ELSE got.status,
            got.models, got.truncated)

Return ==
    /\ pc' = "off"
    /\ catalog' = Result
    /\ requests' = <<>> /\ out' = <<>> /\ noise' = 0
    /\ got' = NothingYet /\ late' = FALSE
    /\ UNCHANGED <<listing, fetches, chosen, request, loop>>

\* Faulty variant: SIGTERM is all the server gets
StopOnce ==
    /\ pc = "stopping"
    /\ child' = IF child = "running" THEN "dead" ELSE child
    /\ Return

\* shutdown(): SIGTERM, which a deaf server survives for the five seconds ...
Stop ==
    /\ pc = "stopping"
    /\ IF child = "deaf"
       THEN pc' = "killing" /\ UNCHANGED <<server, got, requests, late, fetches, controller>>
       ELSE child' = "dead" /\ Return

\* ... and SIGKILL.
Kill ==
    /\ pc = "killing"
    /\ child' = "dead"
    /\ Return
----------------------------------------------------------------------------
(* The controller: fetch_catalog, _validate_model and start_request.       *)

Live == catalog.status = "ok"
NobodyChosen == [i \in 1..Team |-> None]

\* A catalog is fetched when a screen wants one, or again on request.
Refresh ==
    /\ request # "refreshing"
    /\ Begin
    /\ UNCHANGED request

\* _validate_model: a model is only selected from a live catalog.
Select ==
    /\ pc = "off" /\ Live
    /\ \E i \in 1..Team, m \in Visible(catalog.models) : chosen' = [chosen EXCEPT ![i] = m]
    /\ UNCHANGED <<server, client, catalog, request, loop>>

\* Selections that preferences hold from another day.
Restore ==
    /\ pc = "off" /\ catalog = NoCatalog /\ chosen = NobodyChosen
    /\ \E l \in Listings : chosen' \in [1..Team -> Visible(Listed(l))]
    /\ UNCHANGED <<server, client, catalog, request, loop>>

\* selection_available is False
Missing(model) == Live /\ model \notin Visible(catalog.models)

\* can_start_new_execution: a request is refused while a selection is known to
\* be missing.
StartRequest ==
    /\ request = "idle" /\ pc = "off"
    /\ \A i \in 1..Team : chosen[i] # None /\ ~Missing(chosen[i])
    /\ request' = "checking" /\ loop' = chosen
    /\ UNCHANGED <<server, client, catalog, chosen>>

\* The catalog is fetched anew for every selection ...
RefreshNext ==
    /\ request = "checking"
    /\ Begin
    /\ request' = "refreshing"

\* ... which must not be missing from it; after the last one the Leader is asked.
CheckNext ==
    /\ request = "refreshing" /\ pc = "off"
    /\ IF Missing(Head(loop)) THEN request' = "idle" /\ loop' = <<>>
       ELSE /\ request' = IF Len(loop) = 1 THEN "asked" ELSE "checking"
            /\ loop' = Tail(loop)
    /\ UNCHANGED <<server, client, catalog, chosen>>

\* The turn ends and the user goes on.
TurnEnds ==
    /\ request = "asked"
    /\ request' = "idle"
    /\ UNCHANGED <<server, client, catalog, chosen, loop>>

Init ==
    /\ listing \in Listings
    /\ child = "none" /\ requests = <<>> /\ out = <<>> /\ noise = 0
    /\ pc = "off" /\ got = NothingYet /\ late = FALSE /\ fetches = 0
    /\ catalog = NoCatalog /\ chosen = NobodyChosen /\ request = "idle" /\ loop = <<>>

Client == ReadLine \/ TimesOut \/ Stop \/ Kill
Next ==
    \/ ServerAnswers \/ ServerDisturbs \/ ServerDies \/ ListingChanges
    \/ Client \/ Expire
    \/ Refresh \/ Select \/ Restore \/ StartRequest \/ RefreshNext \/ CheckNext \/ TurnEnds

\* The event loop runs and time passes; the server owes nothing.
Spec == Init /\ [][Next]_vars /\ WF_vars(Client) /\ WF_vars(Expire)
----------------------------------------------------------------------------
(* Properties.                                                             *)

\* A request gets past a selection, the Leader's or a Worker's, only when the
\* list fetched for it shows the model, or no list could be read, or the part
\* read shows no model at all; and it is refused only when that list, read
\* whole, does not show it: "refresh catalog availability for the exact
\* selections before a paid call", through pages, unasked lines, repeated
\* answers, limits, and lists that change from one selection to the next.
ChecksEverySelection ==
    [][request = "refreshing" /\ request' # request =>
         LET listed == Head(loop) \in Visible(Listed(listing))
         IN  IF request' = "idle" THEN ~listed \/ catalog.truncated
             ELSE listed \/ catalog.status = "error" \/ Visible(catalog.models) = {}]_vars

\* Every fetch returns, whatever the server does, and leaves no server.
FetchEnds == pc # "off" ~> pc = "off" /\ child \in {"none", "dead"}
=============================================================================
