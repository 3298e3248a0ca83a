--------------------------- MODULE CatalogProofs ---------------------------
(***************************************************************************)
(* Theorems about model catalogs, for any listings, limits and bounds.     *)
(***************************************************************************)
EXTENDS Catalog, FiniteSetTheorems, SequenceTheorems, TLAPS

Names == Models \cup {Bad}
Gots == [models : SUBSET Models, size : Nat, pages : Nat, status : {"ok", "error"},
         truncated : BOOLEAN]
Catalogs == [models : SUBSET Models, status : {"none", "ok", "error", "unavailable"},
             truncated : BOOLEAN]
Lines == [id : Nat, kind : {"result", "error", "junk", "eof"}, page : Nat]

Fetching == pc \in {"reading", "stopping", "killing"}

\* The types of what the theorems speak of.
Types ==
    /\ listing \in Listings
    /\ child \in {"none", "running", "deaf", "dead"}
    /\ requests \in Seq(Nat) /\ out \in Seq(Lines)
    /\ pc \in {"off"} \cup {"reading", "stopping", "killing"}
    /\ got \in Gots
    /\ catalog \in Catalogs
    /\ request \in {"idle", "checking", "refreshing", "asked"}

\* A listing and its pages.
LEMMA ListingsTyped ==
    ASSUME NEW l \in Listings
    PROVE  /\ l \in Seq(Seq(Names)) /\ Len(l) \in Nat \ {0} /\ DOMAIN l = 1..Len(l)
           /\ \A n \in DOMAIN l : Entries(l[n]) \subseteq Models /\ Count(l[n]) \in Nat
<1>1. l \in Seq(Seq(Names)) /\ l # <<>>
  BY CatalogAssumption DEF Names
<1>2. Len(l) \in Nat \ {0} /\ DOMAIN l = 1..Len(l)
  BY <1>1
<1>3. ASSUME NEW n \in DOMAIN l PROVE Entries(l[n]) \subseteq Models /\ Count(l[n]) \in Nat
  <2>1. l[n] \in Seq(Names)
    BY <1>1
  <2>2. Entries(l[n]) \subseteq Models
    BY <2>1 DEF Entries, ToSet, Names
  <2>3. Len(l[n]) \in Nat /\ DOMAIN l[n] = 1..Len(l[n])
    BY <2>1, LenProperties
  <2>4. IsFiniteSet(DOMAIN l[n])
    BY <2>3, FS_Interval
  <2>5. Count(l[n]) \in Nat
    BY <2>4, FS_Subset, FS_CardinalityType DEF Count
  <2> QED BY <2>2, <2>5
<1> QED BY <1>1, <1>2, <1>3

With(g, m, n, p, b) == [g EXCEPT !.models = m, !.size = n, !.pages = p, !.truncated = b]

\* The client's updates keep the type of what it has got.
LEMMA GotUpdates ==
    ASSUME NEW g \in Gots, NEW m \in SUBSET Models, NEW n \in Nat, NEW p \in Nat, NEW b \in BOOLEAN
    PROVE  /\ With(g, m, n, p, b) \in Gots
           /\ With(g, m, n, p, b).models = m /\ With(g, m, n, p, b).pages = p
           /\ With(g, m, n, p, b).status = g.status /\ With(g, m, n, p, b).truncated = b
<1>1. With(g, m, n, p, b) \in Gots
  BY DEF Gots, With
<1>2. /\ With(g, m, n, p, b).models = m /\ With(g, m, n, p, b).pages = p
      /\ With(g, m, n, p, b).status = g.status /\ With(g, m, n, p, b).truncated = b
  BY DEF Gots, With
<1> QED BY <1>1, <1>2

LEMMA GotGivenUp ==
    ASSUME NEW g \in Gots
    PROVE  LET h == [g EXCEPT !.status = "error"]
           IN  /\ h \in Gots /\ h.status = "error"
               /\ h.models = g.models /\ h.pages = g.pages /\ h.truncated = g.truncated
BY DEF Gots

LEMMA NothingYetTyped ==
    /\ NothingYet \in Gots /\ NothingYet.models = {} /\ NothingYet.pages = 0
    /\ NothingYet.status = "ok" /\ ~NothingYet.truncated
BY DEF Gots, NothingYet

LEMMA CatalogFields ==
    ASSUME NEW st \in {"none", "ok", "error", "unavailable"}, NEW m \in SUBSET Models, NEW b \in BOOLEAN
    PROVE  /\ CatalogOf(st, m, b) \in Catalogs /\ CatalogOf(st, m, b).status = st
           /\ CatalogOf(st, m, b).models = m /\ CatalogOf(st, m, b).truncated = b
BY DEF Catalogs, CatalogOf

\* A page that is read: what is got of it, and where the client goes on.
PageRead(k) ==
    /\ got'.models = got.models \cup Entries(listing[k])
    /\ got'.pages = got.pages + 1
    /\ got'.status = got.status
    /\ \/ /\ k < Len(listing) /\ ~got'.truncated
          /\ pc' = pc /\ requests' = Append(requests, k + 1)
       \/ /\ pc' = "stopping" /\ requests' = requests
          /\ ~got'.truncated => k >= Len(listing)

LEMMA PageReads ==
    ASSUME Types, NEW k \in DOMAIN listing, Page(k)
    PROVE  PageRead(k) /\ got' \in Gots
<1> DEFINE size == got.size + Count(listing[k])
           more == k < Len(listing)
           full == more /\ (got.pages + 1 >= MaxPages \/ size >= MaxModels)
<1>1. k # 0 /\ Len(listing) \in Nat /\ k \in Nat /\ got \in Gots
      /\ Entries(listing[k]) \in SUBSET Models /\ Count(listing[k]) \in Nat
  BY ListingsTyped DEF Types
<1>2. got' = With(got, got.models \cup Entries(listing[k]), size, got.pages + 1, full)
  BY <1>1, Zenon DEF Page, With
<1>3. \/ more /\ ~full /\ requests' = Append(requests, k + 1) /\ pc' = pc
      \/ ~(more /\ ~full) /\ pc' = "stopping" /\ requests' = requests
  BY <1>1, Zenon DEF Page, Ask
<1>4. size \in Nat /\ full \in BOOLEAN /\ more \in BOOLEAN
  BY <1>1 DEF Gots
<1> HIDE DEF size, full
<1>5. got.models \cup Entries(listing[k]) \in SUBSET Models /\ got.pages + 1 \in Nat
  BY <1>1 DEF Gots
<1>6. /\ got' \in Gots
      /\ got'.models = got.models \cup Entries(listing[k]) /\ got'.pages = got.pages + 1
      /\ got'.status = got.status /\ got'.truncated = full
  BY <1>1, <1>2, <1>4, <1>5, GotUpdates
<1>7. ~(more /\ ~full) => (~full => k >= Len(listing))
  BY <1>1
<1> QED BY <1>3, <1>6, <1>7 DEF PageRead
-----------------------------------------------------------------------------
(* The exchange: requests go up page by page, and the lines of the server   *)
(* are for requests it was sent.                                            *)

FirstPages(n) == UNION {Entries(listing[i]) : i \in 1..n}

RequestsInv == \A n \in 1..Len(requests) : requests[n] = n - 1

\* A line that is an answer
AnswersIn(l, n) ==
    /\ l.kind = "result" /\ l.id # 0 => l.id \in 1..n /\ l.page = l.id - 1
    /\ l.kind = "error" => l.page = 0

LinesInv == \A i \in 1..Len(out) : AnswersIn(out[i], Len(requests))

\* The client has got the first pages, in order, and asked for the next one;
\* it stops with all of them, with an error, or says that the list is cut.
FetchInv ==
    Fetching =>
      /\ got.models = FirstPages(got.pages) /\ got.pages <= Len(listing)
      /\ pc = "reading" =>
           /\ got.status = "ok" /\ ~got.truncated /\ got.pages < Len(listing)
           /\ \/ Len(requests) = 1 /\ got.pages = 0
              \/ Len(requests) = got.pages + 2
      /\ pc # "reading" /\ got.status = "ok" /\ ~got.truncated => got.pages = Len(listing)

\* The catalog a selection is checked against is true to what is listed.
FreshInv ==
    request = "refreshing" /\ pc = "off" =>
      /\ catalog.status = "ok" =>
           /\ catalog.models \subseteq Listed(listing)
           /\ ~catalog.truncated => catalog.models = Listed(listing)
      /\ catalog.status = "unavailable" => Visible(catalog.models) = {}
      /\ catalog.status # "none"

NoServerLeft == pc = "off" => child \in {"none", "dead"}

CatalogInv == Types /\ RequestsInv /\ LinesInv /\ FetchInv /\ FreshInv /\ NoServerLeft

LEMMA CatalogInit == Init => CatalogInv
<1> SUFFICES ASSUME Init PROVE CatalogInv
  OBVIOUS
<1>1. NothingYet \in Gots /\ NoCatalog \in Catalogs
  BY NothingYetTyped, CatalogFields DEF NoCatalog
<1>2. Types
  BY <1>1 DEF Init, Types
<1> QED BY <1>2 DEF Init, CatalogInv, RequestsInv, LinesInv, FetchInv, Fetching, FreshInv, NoServerLeft

\* One more page, and all of them
LEMMA PagesAdd ==
    ASSUME listing \in Listings, NEW n \in Nat, n < Len(listing)
    PROVE  n + 1 \in DOMAIN listing /\ FirstPages(n + 1) = FirstPages(n) \cup Entries(listing[n + 1])
<1>1. DOMAIN listing = 1..Len(listing) /\ Len(listing) \in Nat
  BY ListingsTyped
<1>2. 1..n + 1 = 1..n \cup {n + 1} /\ n + 1 \in 1..Len(listing)
  BY <1>1
<1> QED BY <1>1, <1>2 DEF FirstPages

LEMMA PagesListed ==
    ASSUME listing \in Listings, NEW n \in Nat, n <= Len(listing)
    PROVE  FirstPages(n) \subseteq Listed(listing) /\ FirstPages(Len(listing)) = Listed(listing)
<1>1. DOMAIN listing = 1..Len(listing) /\ Len(listing) \in Nat
  BY ListingsTyped
<1>2. \A i \in 1..n : i \in 1..Len(listing)
  BY <1>1
<1> QED BY <1>1, <1>2 DEF FirstPages, Listed

\* A request more
LEMMA AskKeeps ==
    ASSUME RequestsInv, LinesInv, requests \in Seq(Nat), out \in Seq(Lines),
           NEW k \in Nat, k = Len(requests), requests' = Append(requests, k)
    PROVE  /\ RequestsInv' /\ requests' \in Seq(Nat) /\ Len(requests') = Len(requests) + 1
           /\ \A i \in 1..Len(out) : AnswersIn(out[i], Len(requests'))
<1>1. /\ requests' \in Seq(Nat) /\ Len(requests') = Len(requests) + 1 /\ Len(requests) \in Nat
      /\ \A n \in 1..Len(requests) : requests'[n] = requests[n]
      /\ requests'[Len(requests) + 1] = k
  OBVIOUS
<1>2. RequestsInv'
  BY <1>1 DEF RequestsInv
<1>3. \A n \in 1..Len(requests) : n \in 1..Len(requests')
  BY <1>1
<1> QED BY <1>1, <1>2, <1>3 DEF LinesInv, AnswersIn

\* Lines written and lines read
LEMMA LinesKept ==
    ASSUME NEW s \in Seq(Lines), NEW n \in Nat, \A i \in 1..Len(s) : AnswersIn(s[i], n)
    PROVE  /\ \A l \in Lines : AnswersIn(l, n) =>
                /\ Append(s, l) \in Seq(Lines)
                /\ \A i \in 1..Len(Append(s, l)) : AnswersIn(Append(s, l)[i], n)
           /\ s # <<>> =>
                /\ Head(s) \in Lines /\ AnswersIn(Head(s), n)
                /\ Tail(s) \in Seq(Lines) /\ \A i \in 1..Len(Tail(s)) : AnswersIn(Tail(s)[i], n)
<1> HIDE DEF Lines, AnswersIn
<1>1. ASSUME NEW l \in Lines, AnswersIn(l, n)
      PROVE  /\ Append(s, l) \in Seq(Lines)
             /\ \A i \in 1..Len(Append(s, l)) : AnswersIn(Append(s, l)[i], n)
  BY <1>1
<1>2. ASSUME s # <<>>
      PROVE  /\ Head(s) \in Lines /\ AnswersIn(Head(s), n)
             /\ Tail(s) \in Seq(Lines) /\ \A i \in 1..Len(Tail(s)) : AnswersIn(Tail(s)[i], n)
  <2>1. Len(s) \in Nat /\ Len(s) >= 1 /\ Head(s) = s[1] /\ s[1] \in Lines
    BY <1>2
  <2>2. Tail(s) \in Seq(Lines) /\ Len(Tail(s)) = Len(s) - 1
        /\ \A i \in 1..Len(Tail(s)) : Tail(s)[i] = s[i + 1] /\ i + 1 \in 1..Len(s)
    BY <1>2
  <2> QED BY <2>1, <2>2
<1> QED BY <1>1, <1>2

\* A line the server writes
LEMMA WriteKeeps ==
    ASSUME CatalogInv, NEW l \in Lines, AnswersIn(l, Len(requests)), out' = Append(out, l),
           UNCHANGED <<listing, client, controller>>, child' \in {child, "dead"}
    PROVE  CatalogInv'
<1>1. out' \in Seq(Lines) /\ LinesInv'
  <2>1. out \in Seq(Lines) /\ \A i \in 1..Len(out) : AnswersIn(out[i], Len(requests))
    BY DEF CatalogInv, Types, LinesInv
  <2>2. Len(requests) \in Nat /\ requests' = requests
    BY DEF CatalogInv, Types, client
  <2>3. out' \in Seq(Lines) /\ \A i \in 1..Len(out') : AnswersIn(out'[i], Len(requests))
    BY <2>1, <2>2, LinesKept
  <2> QED BY <2>2, <2>3 DEF LinesInv, AnswersIn
<1> QED BY <1>1 DEF CatalogInv, Types, RequestsInv, FetchInv, Fetching, FirstPages, FreshInv,
                    Live, NoServerLeft, client, controller

\* A fetch begins, or cannot.
LEMMA BeginKeeps ==
    ASSUME CatalogInv, request # "refreshing", Begin, request' \in {request, "refreshing"}
    PROVE  CatalogInv'
<1>1. NothingYet \in Gots /\ NothingYet.models = {} /\ NothingYet.pages = 0
      /\ NothingYet.status = "ok" /\ ~NothingYet.truncated
  BY NothingYetTyped
<1>2. pc = "off" /\ listing' = listing /\ got' = NothingYet /\ Types
      /\ request' \in {"idle", "checking", "refreshing", "asked"}
  BY DEF Begin, CatalogInv, Types
<1>3. CASE /\ child' \in {"running", "deaf"} /\ pc' = "reading"
           /\ requests' = <<0>> /\ out' = <<>> /\ noise' = 0
           /\ UNCHANGED catalog
  <2>1. Types'
    BY <1>1, <1>2, <1>3 DEF Types
  <2>2. FirstPages(0)' = {}
    BY DEF FirstPages
  <2>3. 0 < Len(listing) /\ Len(listing) \in Nat
    BY <1>2, ListingsTyped DEF Types
  <2>4. FetchInv'
    BY <1>1, <1>2, <1>3, <2>2, <2>3 DEF FetchInv, FirstPages
  <2>5. RequestsInv' /\ LinesInv' /\ FreshInv' /\ NoServerLeft'
    BY <1>3 DEF RequestsInv, LinesInv, FreshInv, NoServerLeft
  <2> QED BY <2>1, <2>4, <2>5 DEF CatalogInv
<1>4. CASE /\ catalog' = CatalogOf("error", {}, FALSE)
           /\ UNCHANGED <<child, pc, requests, out, noise>>
  <2>1. catalog' \in Catalogs /\ catalog'.status = "error"
    BY <1>4, CatalogFields
  <2>2. Types'
    BY <1>1, <1>2, <1>4, <2>1 DEF Types
  <2>3. FetchInv' /\ RequestsInv' /\ LinesInv' /\ NoServerLeft'
    BY <1>2, <1>4 DEF CatalogInv, FetchInv, Fetching, RequestsInv, LinesInv, NoServerLeft
  <2>4. FreshInv'
    BY <2>1 DEF FreshInv
  <2> QED BY <2>2, <2>3, <2>4 DEF CatalogInv
<1> QED BY <1>3, <1>4 DEF Begin

\* The end of a fetch, whose server is gone
LEMMA ReturnKeeps ==
    ASSUME CatalogInv, pc \in {"stopping", "killing"}, Return, child' = "dead"
    PROVE  CatalogInv'
<1>1. /\ pc' = "off" /\ catalog' = Result /\ got' = NothingYet
      /\ requests' = <<>> /\ out' = <<>>
      /\ UNCHANGED <<listing, request>>
  BY DEF Return
<1>2. /\ got \in Gots /\ catalog' \in Catalogs /\ catalog'.models = got.models
      /\ catalog'.truncated = got.truncated
      /\ catalog'.status \in {"ok", "error", "unavailable"}
      /\ catalog'.status = "ok" => got.status = "ok"
      /\ catalog'.status = "unavailable" => Visible(got.models) = {}
  <2>1. got \in Gots
    BY DEF CatalogInv, Types
  <2> DEFINE st == IF got.status = "ok" /\ Visible(got.models) = {} THEN "unavailable" ELSE got.status
  <2>2. st \in {"ok", "error", "unavailable"} /\ (st = "ok" => got.status = "ok")
        /\ (st = "unavailable" => Visible(got.models) = {})
        /\ got.models \in SUBSET Models /\ got.truncated \in BOOLEAN
    BY <2>1 DEF Gots
  <2>3. catalog' = CatalogOf(st, got.models, got.truncated)
    BY <1>1 DEF Result
  <2> HIDE DEF st
  <2>4. st \in {"none", "ok", "error", "unavailable"}
    BY <2>2
  <2> QED BY <2>1, <2>2, <2>3, <2>4, CatalogFields
<1>3. Types'
  BY <1>1, <1>2, NothingYetTyped DEF CatalogInv, Types
<1>4. FetchInv' /\ RequestsInv' /\ LinesInv' /\ NoServerLeft'
  BY <1>1 DEF CatalogInv, FetchInv, Fetching, RequestsInv, LinesInv, NoServerLeft
<1>5. FreshInv'
  <2>1. got.pages \in Nat /\ got.models = FirstPages(got.pages) /\ got.pages <= Len(listing)
        /\ (got.status = "ok" /\ ~got.truncated => got.pages = Len(listing))
    BY <1>2 DEF CatalogInv, FetchInv, Fetching, Gots
  <2>2. /\ FirstPages(got.pages) \subseteq Listed(listing)
        /\ FirstPages(Len(listing)) = Listed(listing)
    BY <2>1, PagesListed DEF CatalogInv, Types
  <2>3. Listed(listing)' = Listed(listing) /\ Visible(catalog.models)' = Visible(got.models)
    BY <1>1, <1>2 DEF Listed, Visible
  <2> QED BY <1>2, <2>1, <2>2, <2>3 DEF FreshInv
<1> QED BY <1>3, <1>4, <1>5 DEF CatalogInv

\* The fetch is given up.
LEMMA GiveUpKeeps ==
    ASSUME CatalogInv, pc = "reading", GiveUp("error"), out' \in {out, Tail(out)}, out # <<>> \/ out' = out,
           UNCHANGED <<listing, child, controller>>
    PROVE  CatalogInv'
<1>1. pc' = "stopping" /\ requests' = requests /\ got' = [got EXCEPT !.status = "error"] /\ got \in Gots
  BY DEF GiveUp, CatalogInv, Types
<1>2. got' \in Gots /\ got'.models = got.models /\ got'.pages = got.pages /\ got'.status = "error"
  BY <1>1, GotGivenUp
<1>3. out' \in Seq(Lines) /\ \A i \in 1..Len(out') : AnswersIn(out'[i], Len(requests))
  <2>1. out \in Seq(Lines) /\ \A i \in 1..Len(out) : AnswersIn(out[i], Len(requests))
    BY DEF CatalogInv, Types, LinesInv
  <2>2. Len(requests) \in Nat
    BY DEF CatalogInv, Types
  <2> QED BY <2>1, <2>2, LinesKept
<1>4. LinesInv'
  BY <1>1, <1>3 DEF LinesInv, AnswersIn
<1>5. FirstPages(got.pages)' = FirstPages(got.pages)
  BY <1>1, <1>2 DEF FirstPages
<1>6. FetchInv'
  BY <1>1, <1>2, <1>5 DEF CatalogInv, FetchInv, Fetching
<1> QED BY <1>1, <1>2, <1>3, <1>4, <1>6 DEF CatalogInv, Types, RequestsInv, FreshInv, NoServerLeft, controller

\* The answer to the request under way is its page of the listing.
LEMMA ReadLineKeeps ==
    ASSUME CatalogInv, ReadLine
    PROVE  CatalogInv'
<1> DEFINE line == Head(out)
           n == Len(requests)
<1>1. /\ pc = "reading" /\ out # <<>> /\ out' = Tail(out)
      /\ UNCHANGED <<listing, child, noise, late, fetches, controller>>
  BY DEF ReadLine
<1>2. \/ GiveUp("error")
      \/ line.id # n /\ UNCHANGED <<pc, got, requests>>
      \/ line.id = n /\ line.kind \notin {"junk", "eof"} /\ line # Broken(n) /\ Page(line.page)
  BY DEF ReadLine
<1>3. /\ line \in Lines /\ AnswersIn(line, n) /\ n \in Nat
      /\ out' \in Seq(Lines) /\ \A i \in 1..Len(out') : AnswersIn(out'[i], n)
  <2>1. out \in Seq(Lines) /\ \A i \in 1..Len(out) : AnswersIn(out[i], n)
    BY DEF CatalogInv, Types, LinesInv
  <2>2. n \in Nat
    BY DEF CatalogInv, Types
  <2> QED BY <1>1, <2>1, <2>2, LinesKept
<1>4. /\ got \in Gots /\ got.models = FirstPages(got.pages) /\ got.pages \in Nat
      /\ got.status = "ok" /\ ~got.truncated /\ got.pages < Len(listing)
      /\ (n = 1 /\ got.pages = 0) \/ n = got.pages + 2
      /\ listing \in Listings /\ requests \in Seq(Nat) /\ RequestsInv /\ NoServerLeft
  BY <1>1 DEF CatalogInv, Types, FetchInv, Fetching, Gots
<1> HIDE DEF line
<1>5. CASE GiveUp("error")
  BY <1>1, <1>5, GiveUpKeeps
<1>6. CASE line.id # n /\ UNCHANGED <<pc, got, requests>>
  BY <1>1, <1>3, <1>6
     DEF CatalogInv, Types, RequestsInv, LinesInv, FetchInv, Fetching, FirstPages, FreshInv, NoServerLeft,
         controller, AnswersIn
<1>7. CASE line.id = n /\ line.kind \notin {"junk", "eof"} /\ line # Broken(n) /\ Page(line.page)
  <2>1. line.kind = "result" /\ line.page = n - 1
    <3>1. line.kind # "error"
      BY <1>3, <1>7 DEF Lines, AnswersIn, Broken
    <3>2. line.kind = "result" /\ n # 0
      BY <1>3, <1>4, <1>7, <3>1 DEF Lines
    <3> QED BY <1>3, <1>7, <3>2 DEF AnswersIn
  <2>2. CASE n = 1
    <3>1. requests' = Append(requests, 1) /\ UNCHANGED <<pc, got>> /\ got.pages = 0
      BY <1>4, <1>7, <2>1, <2>2 DEF Page, Ask
    <3>2. /\ RequestsInv' /\ requests' \in Seq(Nat) /\ Len(requests') = 2
      BY <1>4, <2>2, <3>1, AskKeeps DEF CatalogInv, Types
    <3>3. \A i \in 1..Len(out') : AnswersIn(out'[i], 2)
      BY <1>3, <2>2 DEF AnswersIn
    <3> QED
      BY <1>1, <1>3, <1>4, <3>1, <3>2, <3>3
         DEF CatalogInv, Types, LinesInv, FetchInv, Fetching, FirstPages, FreshInv, NoServerLeft, controller,
             AnswersIn
  <2>3. CASE n # 1
    <3> DEFINE k == got.pages + 1
    <3>1. line.page = k /\ n = k + 1 /\ k \in Nat
      BY <1>4, <2>1, <2>3
    <3>2. k \in DOMAIN listing /\ FirstPages(k) = FirstPages(got.pages) \cup Entries(listing[k])
      BY <1>4, PagesAdd
    <3>3. PageRead(k) /\ got' \in Gots
      BY <1>7, <3>1, <3>2, PageReads DEF CatalogInv
    <3>4. got'.pages = k /\ got'.models = FirstPages(k) /\ got'.status = "ok"
      BY <1>4, <3>2, <3>3 DEF PageRead
    <3>5. FirstPages(got.pages)' = FirstPages(k)
      BY <1>1, <3>4 DEF FirstPages
    <3>6. k <= Len(listing) /\ Len(listing) \in Nat
      BY <1>4, <3>1, ListingsTyped
    <3> HIDE DEF k
    <3>7. CASE /\ k < Len(listing) /\ ~got'.truncated
               /\ pc' = pc /\ requests' = Append(requests, k + 1)
      <4>1. /\ RequestsInv' /\ requests' \in Seq(Nat) /\ Len(requests') = n + 1
        BY <1>4, <3>1, <3>7, AskKeeps DEF CatalogInv, Types
      <4>2. \A i \in 1..Len(out') : AnswersIn(out'[i], Len(requests'))
        BY <1>3, <4>1 DEF AnswersIn
      <4>3. FetchInv'
        BY <1>1, <3>1, <3>4, <3>5, <3>6, <3>7, <4>1 DEF FetchInv, Fetching
      <4>4. LinesInv'
        BY <4>2 DEF LinesInv, AnswersIn
      <4> QED BY <1>1, <1>3, <3>3, <3>7, <4>1, <4>3, <4>4
              DEF CatalogInv, Types, FreshInv, NoServerLeft, controller
    <3>8. CASE /\ pc' = "stopping" /\ requests' = requests
               /\ ~got'.truncated => k >= Len(listing)
      <4>1. FetchInv'
        BY <1>1, <3>1, <3>4, <3>5, <3>6, <3>8 DEF FetchInv, Fetching
      <4>2. LinesInv'
        BY <1>3, <3>8 DEF LinesInv, AnswersIn
      <4> QED BY <1>1, <1>3, <3>3, <3>8, <4>1, <4>2
              DEF CatalogInv, Types, FreshInv, NoServerLeft, controller, RequestsInv
    <3> QED BY <3>3, <3>7, <3>8 DEF PageRead
  <2> QED BY <2>2, <2>3
<1> QED BY <1>2, <1>5, <1>6, <1>7

LEMMA CatalogNext == CatalogInv /\ [Next]_vars => CatalogInv'
<1> SUFFICES ASSUME CatalogInv, [Next]_vars PROVE CatalogInv'
  OBVIOUS
<1>1. requests \in Seq(Nat) /\ Len(requests) \in Nat /\ RequestsInv
  BY DEF CatalogInv, Types
<1>2. CASE UNCHANGED <<listing, child, out, pc, got, requests, catalog>> /\ request' \in {"idle", "checking", "asked"}
  BY <1>2 DEF CatalogInv, Types, RequestsInv, LinesInv, FetchInv, Fetching, FirstPages, FreshInv, NoServerLeft
<1>3. CASE UNCHANGED <<listing, child, out, pc, got, requests, catalog, request>>
  BY <1>3 DEF CatalogInv, Types, RequestsInv, LinesInv, FetchInv, Fetching, FirstPages, FreshInv, NoServerLeft, Live
<1>4. CASE ServerAnswers
  <2>1. PICK n \in DOMAIN requests : out' = Append(out, Answer(n))
    BY <1>4 DEF ServerAnswers
  <2>2. Answer(n) \in Lines /\ AnswersIn(Answer(n), Len(requests))
    BY <1>1, <2>1 DEF Answer, Lines, AnswersIn, RequestsInv
  <2> QED BY <1>4, <2>1, <2>2, WriteKeeps DEF ServerAnswers
<1>5. CASE ServerDisturbs
  <2>1. PICK l \in {Notification, Junk, Broken(Len(requests))} : out' = Append(out, l)
    BY <1>5 DEF ServerDisturbs
  <2>2. l \in Lines /\ AnswersIn(l, Len(requests))
    BY <1>1, <2>1 DEF Notification, Junk, Broken, Lines, AnswersIn
  <2> QED BY <1>5, <2>1, <2>2, WriteKeeps DEF ServerDisturbs
<1>6. CASE ServerDies
  <2>1. EndOfFile \in Lines /\ AnswersIn(EndOfFile, Len(requests))
    BY DEF EndOfFile, Lines, AnswersIn
  <2> QED BY <1>6, <2>1, WriteKeeps DEF ServerDies
<1>7. CASE ListingChanges
  BY <1>7 DEF ListingChanges, CatalogInv, Types, RequestsInv, LinesInv, FetchInv, Fetching, FreshInv,
              NoServerLeft, client, controller
<1>8. CASE TimesOut
  BY <1>8, GiveUpKeeps DEF TimesOut, server, controller
<1>9. CASE Stop
  <2>1. CASE child = "deaf"
    BY <1>9, <2>1 DEF Stop, server, controller, CatalogInv, Types, RequestsInv, LinesInv, FetchInv,
                      Fetching, FirstPages, FreshInv, NoServerLeft
  <2>2. CASE child # "deaf"
    BY <1>9, <2>2, ReturnKeeps DEF Stop
  <2> QED BY <2>1, <2>2
<1>10. CASE Kill
  BY <1>10, ReturnKeeps DEF Kill
<1>11. CASE Refresh
  BY <1>11, BeginKeeps DEF Refresh
<1>12. CASE RefreshNext
  BY <1>12, BeginKeeps DEF RefreshNext
<1>13. CASE Expire \/ Select \/ Restore
  BY <1>3, <1>13 DEF Expire, Select, Restore, server, client, controller
<1>14. CASE StartRequest \/ CheckNext \/ TurnEnds
  BY <1>2, <1>14 DEF StartRequest, CheckNext, TurnEnds, server, client, controller
<1> QED
  BY <1>3, <1>4, <1>5, <1>6, <1>7, <1>8, <1>9, <1>10, <1>11, <1>12, <1>13, <1>14, ReadLineKeeps
     DEF Next, Client, vars, server, client, controller

\* What the client has got is the listing's first pages, whatever the server
\* repeats or adds, and a catalog that a request waited for is the listing's, up
\* to where it says it was cut.
THEOREM CatalogCorrect == Spec => []CatalogInv
<1> QED BY CatalogInit, CatalogNext, PTL DEF Spec

\* A request gets past a selection only when the list fetched for it shows the
\* model, or could not be read, or shows none, and is refused only when that
\* list, read whole, does not show it.
THEOREM EverySelectionIsChecked == Spec => ChecksEverySelection
<1>1. CatalogInv /\ [Next]_vars =>
        [request = "refreshing" /\ request' # request =>
          LET listed == Head(loop) \in Visible(Listed(listing))
          IN  IF request' = "idle" THEN ~listed \/ catalog.truncated
              ELSE listed \/ catalog.status = "error" \/ Visible(catalog.models) = {}]_vars
  <2> DEFINE listed == Head(loop) \in Visible(Listed(listing))
  <2> SUFFICES ASSUME CatalogInv, Next, request = "refreshing", request' # request
        PROVE  IF request' = "idle" THEN ~listed \/ catalog.truncated
               ELSE listed \/ catalog.status = "error" \/ Visible(catalog.models) = {}
    BY DEF CatalogInv, Types
  <2>1. CheckNext
    BY DEF Next, ServerAnswers, ServerDisturbs, ServerDies, ListingChanges, Client, ReadLine, TimesOut,
           Stop, Kill, Return, Expire, Refresh, Select, Restore, StartRequest, RefreshNext, TurnEnds, controller
  <2>2. pc = "off" /\ (request' = "idle" <=> Missing(Head(loop)))
    BY <2>1 DEF CheckNext
  <2>3. /\ catalog.status = "ok" =>
             /\ catalog.models \subseteq Listed(listing)
             /\ ~catalog.truncated => catalog.models = Listed(listing)
        /\ catalog.status = "unavailable" => Visible(catalog.models) = {}
        /\ catalog.status \in {"ok", "error", "unavailable"}
    BY <2>2 DEF CatalogInv, FreshInv, Types, Catalogs
  <2>4. catalog.models \subseteq Listed(listing) =>
          Visible(catalog.models) \subseteq Visible(Listed(listing))
    BY DEF Visible
  <2> QED BY <2>2, <2>3, <2>4 DEF Missing, Live
<1> QED BY <1>1, CatalogCorrect, PTL DEF Spec, ChecksEverySelection

\* When a fetch has returned, no server of it is left running.
THEOREM NoServerIsLeft == Spec => [](pc = "off" => child \in {"none", "dead"})
<1>1. CatalogInv => (pc = "off" => child \in {"none", "dead"})
  BY DEF CatalogInv, NoServerLeft
<1> QED BY <1>1, CatalogCorrect, PTL
=============================================================================
