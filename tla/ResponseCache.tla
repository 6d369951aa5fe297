---------------------------- MODULE ResponseCache ---------------------------
(***************************************************************************)
(* createCacheMiddleware and createCacheInvalidator over the Redis proxy:  *)
(* GET requests for one page whose content changes, each change followed   *)
(* by an invalidation.                                                     *)
(***************************************************************************)
EXTENDS RedisProxy

CONSTANT MaxVersion  \* bound on the changes

ASSUME CacheAssumption == MaxVersion \in Nat

VARIABLES
    source,    \* version of the content
    get,       \* step or outcome of the request
    body,      \* what it computed or was served
    inv,       \* step or outcome of the invalidation after the last change
    raced,     \* at that change a response computed before was on its way to Redis
    clean,     \* the invalidation removed what was cached, and there was no race
    cleanSince \* it had when the request started, and still has

cacheVars == <<source, get, body, inv, raced, clean, cleanSince>>

CacheInit ==
    /\ source = 0 /\ get = "idle" /\ body = 0
    /\ inv = "idle" /\ raced = FALSE
    /\ clean = TRUE /\ cleanSince = FALSE

\* A response that was computed has not reached Redis for the last time.
Filling == get = "computed" \/ \E i \in DOMAIN wire : wire[i].op = "setex"

Request ==
    /\ get \in {"idle", "hit", "miss"}
    /\ get' = "lookup" /\ Fire("get", "get", "page", null)
    /\ cleanSince' = clean
    /\ UNCHANGED <<store, done, up, source, body, inv, raced, clean>>

\* redis.get answered: anything but null is the response.
Lookup ==
    /\ get = "lookup" /\ Answered("get") /\ Return("get")
    /\ IF call["get"].v = null THEN get' = "handler" /\ UNCHANGED body
                               ELSE get' = "hit" /\ body' = call["get"].v
    /\ UNCHANGED <<store, wire, done, up, breaker, sent, source, inv, raced, clean, cleanSince>>

Handle ==
    /\ get = "handler" /\ get' = "computed" /\ body' = source
    /\ UNCHANGED <<proxy, source, inv, raced, clean, cleanSince>>

\* res.json: a 200 is stored without waiting, then sent.
Json ==
    /\ get = "computed" /\ get' = "miss"
    /\ \/ call["fill"].at = "idle" /\ Fire("fill", "setex", "page", body)
       \/ UNCHANGED <<wire, breaker, call, sent>>
    /\ UNCHANGED <<store, done, up, source, body, inv, raced, clean, cleanSince>>

Filled ==
    /\ Answered("fill") /\ Return("fill")
    /\ UNCHANGED <<store, wire, done, up, breaker, sent, cacheVars>>

\* setex's duration is over.
Expire ==
    /\ store["page"] # null /\ store' = [store EXCEPT !["page"] = null]
    /\ UNCHANGED <<wire, done, up, breaker, call, sent, cacheVars>>

-----------------------------------------------------------------------------
\* The content changes, and the cache is invalidated.
Update ==
    /\ inv \in {"idle", "done", "failed"} /\ source < MaxVersion
    /\ source' = source + 1 /\ raced' = Filling
    /\ inv' = "keys" /\ Fire("inv", "keys", "page", null)
    /\ clean' = FALSE /\ cleanSince' = FALSE
    /\ UNCHANGED <<store, done, up, get, body>>

\* Mutant: the keys are deleted without the prefix they are stored under.
Deletes_NoPrefix(key) == "url"
Deletes(key) == key

\* A failed KEYS is null, whose length throws; no key is none to delete.
Matched ==
    /\ inv = "keys" /\ Answered("inv")
    /\ LET keys == call["inv"].v IN
       IF keys \in {null, {}}
       THEN /\ inv' = IF keys = null THEN "failed" ELSE "done"
            /\ clean' = (keys = {} /\ ~raced)
            /\ Return("inv") /\ UNCHANGED <<wire, breaker, sent>>
       ELSE inv' = "del" /\ Fire("inv", "del", Deletes("page"), null) /\ UNCHANGED clean
    /\ UNCHANGED <<store, done, up, source, get, body, raced, cleanSince>>

\* The invalidation resolves even if the proxy answered a failed DEL with null.
Deleted ==
    /\ inv = "del" /\ Answered("inv") /\ Return("inv")
    /\ inv' = "done" /\ clean' = (~call["inv"].failed /\ ~raced)
    /\ UNCHANGED <<store, wire, done, up, breaker, sent, source, get, body, raced, cleanSince>>

CacheNext ==
    \/ Request \/ Lookup \/ Handle \/ Json \/ Filled \/ Expire
    \/ Update \/ Matched \/ Deleted

-----------------------------------------------------------------------------
(* Properties *)

\* Only res.json writes the page.
PageWriters == \A i \in 1..Len(wire) : wire[i].op = "set" => wire[i].key # "page"

\* What is on its way to Redis is the content as it is.
FillsFresh ==
    /\ get = "computed" => body = source
    /\ \A i \in 1..Len(wire) : wire[i].op = "setex" => wire[i].val = source

Fresh == store["page"] \in {null, source}

\* An invalidation without a race: what it found absent or deleted is not there, or has
\* been stored anew since, from the moment its command is executed.
Invalidates ==
    ~raced =>
      /\ call["inv"].at = "waiting" =>
           \A i \in 1..Len(wire) : wire[i].n = call["inv"].n =>
             /\ inv = "keys" => /\ wire[i].op = "keys" /\ wire[i].key = "page"
                                /\ i <= done /\ wire[i].result = {} => Fresh
             /\ inv = "del" => /\ wire[i].op = "del" /\ wire[i].key = "page"
                               /\ i <= done /\ ~wire[i].refused => Fresh
      /\ call["inv"].at = "answered" =>
           /\ inv = "keys" /\ call["inv"].v = {} => Fresh
           /\ inv = "del" /\ ~call["inv"].failed => Fresh

\* A request that started after the invalidation reads nothing or the content as it is.
ReadsFresh ==
    get = "lookup" /\ cleanSince =>
      /\ call["get"].at = "waiting" =>
           \A i \in 1..Len(wire) : wire[i].n = call["get"].n =>
             /\ wire[i].op = "get" /\ wire[i].key = "page"
             /\ i <= done /\ ~wire[i].refused => wire[i].result \in {null, source}
      /\ call["get"].at = "answered" => call["get"].v \in {null, source}

\* A hit serves the content as it is, once the last change was invalidated: if the
\* KEYS and the DEL worked and no response that was computed before the change had
\* still to be stored, then no timed-out or repeated command brings an old one back.
FreshHit ==
    /\ (cleanSince => clean) /\ (clean => ~raced /\ inv \notin {"keys", "del"} /\ Fresh)
    /\ (~raced => FillsFresh)
    /\ PageWriters /\ Invalidates /\ ReadsFresh
    /\ get = "hit" /\ cleanSince => body = source
=============================================================================
