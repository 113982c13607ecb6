--------------------------- MODULE MCJobDiscovery ---------------------------
(***************************************************************************)
(* For TLC: the tables with the requests, or one service whose pages are   *)
(* fetched while nothing else happens.                                     *)
(***************************************************************************)
EXTENDS JobDiscovery

VARIABLE service   \* the OfferIO service that is asked, or NoService

NoService == [n |-> 0, cap |-> 1, size |-> 1, told |-> "nothing asked", limit |-> 1]

\* Bound: entries, entries a page, the page size and the limit of the caller.
Services == [n : 0 .. 5, cap : 1 .. 2, size : 1 .. 2, told : {"pages", "total"}, limit : 1 .. 6]

MCInit == Init /\ service \in Services \cup {NoService}
MCNext == service = NoService /\ Next /\ UNCHANGED service
MCSpec == MCInit /\ [][MCNext]_<<vars, service>>

\* The paging collects everything up to the limit from a service that says how
\* many pages it has, or that gives its total and honours the page size, also
\* when the limit ends within a page and when pages are shorter than asked for
\* (_fetch_offerio_pages).
PagesComplete ==
    service.told = "pages" \/ (service.told = "total" /\ service.cap >= service.size) =>
        FetchPages(service.n, service.cap, service.size, service.told, service.limit)
            = IF service.n < service.limit THEN service.n ELSE service.limit
=============================================================================
