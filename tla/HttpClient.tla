------------------------------ MODULE HttpClient ------------------------------
(***************************************************************************)
(* The fetches of the sources' threads (core/http.py): each thread has an  *)
(* Http of its own, and all share the conditional-GET cache                *)
(* (core/http_cache.py).  A page is asked for with requests, then with     *)
(* other TLS fingerprints, then in a browser.                              *)
(*                                                                         *)
(* One page is enough: the cache is keyed by address.  Its content is a    *)
(* version number, which is also its ETag; a challenge page of an anti-bot *)
(* service has none.                                                       *)
(***************************************************************************)
EXTENDS Integers

CONSTANTS Clients,      \* Http instances
          Fingerprints, \* Len(CURL_IMPERSONATION)
          HaveCffi, HavePlaywright, HasDisplay, ForceRefresh,
          MaxVersion, MaxFetches

None == 0
Challenge == -1

VARIABLES
    site,      \* what the page holds now
    private,   \* the address is one the guard refuses (_blocked_url_reason)
    disallowed,\* what robots.txt says of the page, once a client could read it
    cache,     \* the http_cache row: a version, or None
    robots,    \* robots[c]: "unread", "allow" or "disallow"
    at,        \* where each fetch is
    entry,     \* the cached row a fetch has read
    reply,     \* the answer on its way: its status and content
    cursor,    \* _cffi_index
    tried,     \* fingerprints of this call
    browser,   \* _pw_ctx: "none", "headless" or "headed"
    result,    \* what the last fetch returned
    held,      \* history: what the site held when it gave the answer used
    fetches

vars == <<site, private, disallowed, cache, robots, at, entry, reply, cursor, tried, browser,
          result, held, fetches>>

Init ==
    /\ site = 1 /\ fetches = 0
    /\ cache \in {None, 1}   \* the file of the last crawl
    /\ private \in BOOLEAN /\ disallowed \in BOOLEAN
    /\ robots = [c \in Clients |-> "unread"]
    /\ at = [c \in Clients |-> "idle"]
    /\ entry = [c \in Clients |-> None]
    /\ reply = [c \in Clients |-> [status |-> "none", body |-> None]]
    /\ cursor = [c \in Clients |-> 0]
    /\ tried = [c \in Clients |-> 0]
    /\ browser = [c \in Clients |-> "none"]
    /\ result = [c \in Clients |-> None]
    /\ held = [c \in Clients |-> None]

world == <<site, private, disallowed>>

Return(c, body) == at' = [at EXCEPT ![c] = "idle"] /\ result' = [result EXCEPT ![c] = body]

\* The site changes whenever it likes.
Edit ==
    /\ site < MaxVersion
    /\ site' = site + 1
    /\ UNCHANGED <<private, disallowed, cache, robots, at, entry, reply, cursor, tried, browser, result, held, fetches>>

\* RobotsCache._parser, once per host and client: robots.txt that cannot be read
\* allows everything, from then on.
ReadRobots(c) ==
    /\ at[c] = "idle" /\ robots[c] = "unread" /\ ~private
    /\ \E read \in BOOLEAN : robots' = [robots EXCEPT ![c] = IF read /\ disallowed THEN "disallow" ELSE "allow"]
    /\ UNCHANGED <<world, cache, at, entry, reply, cursor, tried, browser, result, held, fetches>>

Guarded(c) == ~private /\ robots[c] = "allow"

\* get: the guard, robots.txt, and the cached validators.
Ask(c) ==
    /\ at[c] = "idle" /\ fetches < MaxFetches
    /\ robots[c] = "unread" => private
    /\ fetches' = fetches + 1
    /\ IF Guarded(c)
       THEN /\ at' = [at EXCEPT ![c] = "asked"]
            /\ entry' = [entry EXCEPT ![c] = IF ForceRefresh THEN None ELSE cache]
            /\ UNCHANGED result
       ELSE Return(c, None) /\ UNCHANGED entry
    /\ UNCHANGED <<world, cache, robots, reply, cursor, tried, browser, held>>

\* The site answers: 304 when the validator it was sent is the current one.
Answer(c) ==
    /\ at[c] = "asked"
    /\ at' = [at EXCEPT ![c] = "answered"]
    /\ held' = [held EXCEPT ![c] = site]
    /\ \E status \in {"ok", "challenge", "blocked", "missing", "failed"} :
          reply' = [reply EXCEPT ![c] =
              IF status = "ok" /\ entry[c] = site THEN [status |-> "unchanged", body |-> None]
              ELSE [status |-> status,
                    body |-> IF status = "ok" THEN site ELSE IF status = "challenge" THEN Challenge ELSE None]]
    /\ UNCHANGED <<world, cache, robots, entry, cursor, tried, browser, result, fetches>>

\* Mutant: the body of a 304 is read from the cache when the answer arrives.
Receive304Late(c) ==
    /\ at[c] = "answered"
    /\ CASE reply[c].status = "unchanged" -> Return(c, cache) /\ UNCHANGED cache
         [] reply[c].status = "ok" -> Return(c, reply[c].body) /\ cache' = reply[c].body
         [] OTHER -> Return(c, None) /\ UNCHANGED cache
    /\ UNCHANGED <<world, robots, entry, reply, cursor, tried, browser, held, fetches>>

\* A 404 is an answer; what looks like a block is tried with other fingerprints.
Receive(c) ==
    /\ at[c] = "answered"
    /\ \/ reply[c].status = "unchanged" /\ Return(c, entry[c]) /\ UNCHANGED <<cache, tried>>
       \/ reply[c].status = "ok" /\ Return(c, reply[c].body) /\ cache' = reply[c].body /\ UNCHANGED tried
       \/ /\ reply[c].status \in {"challenge", "blocked", "missing", "failed"}
          /\ at' = [at EXCEPT ![c] = IF reply[c].status # "missing" /\ HaveCffi THEN "cffi" ELSE "render"]
          /\ tried' = [tried EXCEPT ![c] = 0]
          /\ UNCHANGED <<cache, result>>
    /\ UNCHANGED <<world, robots, entry, reply, cursor, browser, held, fetches>>

\* _cffi_get: one fingerprint after the other, from the cursor on.  What comes
\* back has no validators kept.
TryFingerprint(c) ==
    /\ at[c] = "cffi"
    /\ \/ /\ tried[c] < Fingerprints
          /\ tried' = [tried EXCEPT ![c] = @ + 1]
          /\ UNCHANGED <<at, result, held, cursor>>
       \/ /\ tried[c] < Fingerprints
          /\ Return(c, site) /\ held' = [held EXCEPT ![c] = site]
          /\ cursor' = [cursor EXCEPT ![c] = (@ + 1) % Fingerprints]
          /\ UNCHANGED tried
       \/ /\ tried[c] = Fingerprints
          /\ at' = [at EXCEPT ![c] = "render"]
          /\ cursor' = [cursor EXCEPT ![c] = (@ + 1) % Fingerprints]
          /\ UNCHANGED <<tried, result, held>>
    /\ UNCHANGED <<world, cache, robots, entry, reply, browser, fetches>>

\* fetch_page and get_rendered: the browser is started if there is none, which
\* may fail; the guard and robots.txt are asked again.
Launch(c) ==
    /\ at[c] = "render"
    /\ IF ~HavePlaywright \/ ~Guarded(c) THEN Return(c, None) /\ UNCHANGED browser
       ELSE \/ browser[c] # "none" /\ at' = [at EXCEPT ![c] = "page"] /\ UNCHANGED <<result, browser>>
            \/ /\ browser[c] = "none"
               /\ at' = [at EXCEPT ![c] = "page"]
               /\ browser' = [browser EXCEPT ![c] = "headless"]
               /\ UNCHANGED result
            \/ browser[c] = "none" /\ Return(c, None) /\ UNCHANGED browser
    /\ UNCHANGED <<world, cache, robots, entry, reply, cursor, tried, held, fetches>>

\* The page shows its content, at once or after a wait, or raises, or is a
\* challenge that stays; then a visible window is tried once, if there can be one.
Render(c) ==
    /\ at[c] = "page"
    /\ \/ Return(c, site) /\ held' = [held EXCEPT ![c] = site] /\ UNCHANGED browser
       \/ Return(c, None) /\ UNCHANGED <<held, browser>>
       \/ /\ HasDisplay /\ browser[c] = "headless"
          /\ at' = [at EXCEPT ![c] = "headed"] /\ browser' = [browser EXCEPT ![c] = "none"]
          /\ UNCHANGED <<result, held>>
    /\ UNCHANGED <<world, cache, robots, entry, reply, cursor, tried, fetches>>

RenderHeaded(c) ==
    /\ at[c] = "headed"
    /\ \/ Return(c, None) /\ UNCHANGED <<browser, held>>
       \/ /\ browser' = [browser EXCEPT ![c] = "headed"]
          /\ \/ Return(c, site) /\ held' = [held EXCEPT ![c] = site]
             \/ Return(c, None) /\ UNCHANGED held
    /\ UNCHANGED <<world, cache, robots, entry, reply, cursor, tried, fetches>>

\* close, at the end of the source.
Close(c) ==
    /\ at[c] = "idle" /\ browser[c] # "none"
    /\ browser' = [browser EXCEPT ![c] = "none"]
    /\ UNCHANGED <<world, cache, robots, at, entry, reply, cursor, tried, result, held, fetches>>

Step(c) ==
    ReadRobots(c) \/ Ask(c) \/ Answer(c) \/ Receive(c) \/ TryFingerprint(c) \/ Launch(c)
    \/ Render(c) \/ RenderHeaded(c) \/ Close(c)

Next == Edit \/ \E c \in Clients : Step(c)
Spec == Init /\ [][Next]_vars

-----------------------------------------------------------------------------
(* Properties.                                                             *)

\* A fetch returns what the page held when the site answered it, also when that
\* was 304 and another thread has stored a newer version since; and neither it nor
\* the cache, whose validators would keep it alive for ever, holds a challenge page.
ContentIsCurrent ==
    /\ \A c \in Clients : at[c] = "idle" /\ result[c] # None => result[c] = held[c]
    /\ cache # None => cache \in 1 .. site
=============================================================================
