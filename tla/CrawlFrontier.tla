--------------------------- MODULE CrawlFrontier ---------------------------
(***************************************************************************)
(* What the crawler promises about the URLs it meets, without its queues,  *)
(* threads and locks: a URL is taken up at most once, fetched at most once *)
(* and only after it was taken up, and nothing happens after the crawl is  *)
(* over.  A URL that was taken up may be abandoned before it is fetched.   *)
(***************************************************************************)
CONSTANT Url

VARIABLES known,    \* the URLs the filter calls known (some by mistake)
          pending,  \* taken up and neither fetched nor abandoned yet
          open,     \* being fetched
          closed,   \* fetched, with or without success
          over      \* the crawl has ended

vars == <<known, pending, open, closed, over>>

Init == /\ known = {}
        /\ pending = {}
        /\ open = {}
        /\ closed = {}
        /\ over = FALSE

\* An unknown URL is found: it is taken up or turned away, and known from now
\* on; other URLs may become known by mistake.
Discover(u) == /\ ~over
               /\ u \notin known
               /\ \E others \in SUBSET Url : known' = known \cup {u} \cup others
               /\ pending' \in {pending, pending \cup {u}}
               /\ UNCHANGED <<open, closed, over>>

Abandon(urls) == /\ ~over
                 /\ pending' = pending \ urls
                 /\ UNCHANGED <<known, open, closed, over>>

Open(u) == /\ ~over
           /\ u \in pending
           /\ pending' = pending \ {u}
           /\ open' = open \cup {u}
           /\ UNCHANGED <<known, closed, over>>

Close(u) == /\ ~over
            /\ u \in open
            /\ open' = open \ {u}
            /\ closed' = closed \cup {u}
            /\ UNCHANGED <<known, pending, over>>

Stop == /\ ~over
        /\ over' = TRUE
        /\ UNCHANGED <<known, pending, open, closed>>

Next == \/ \E u \in Url : Discover(u) \/ Open(u) \/ Close(u)
        \/ \E urls \in SUBSET pending : Abandon(urls)
        \/ Stop

Spec == Init /\ [][Next]_vars

\* A URL is in one phase at a time, and only known URLs are in any.
OnePhase == /\ pending \cup open \cup closed \subseteq known
            /\ pending \cap open = {}
            /\ (pending \cup open) \cap closed = {}

=============================================================================
