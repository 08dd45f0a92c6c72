---------------------------- MODULE BrowserSession ----------------------------
(***************************************************************************)
(* One call of a collector that drives a browser: Reddit and Chrome origin *)
(* trials.  A step is one await of the call; the site chooses what it      *)
(* answers and any await may throw.  The collector gives back what it      *)
(* opened in a finally block, on every path.                               *)
(***************************************************************************)
EXTENDS Naturals, FiniteSets

CONSTANTS
    Cards,     \* post or trial cards of the page
    MaxItems   \* config.maxItems

ASSUME SessionConstants == MaxItems \in Nat \ {0}

VARIABLES
    site,      \* the collector: "reddit" or "trials"
    injected,  \* what the options provide
    step,      \* where the call is
    open,      \* resources that are open: "browser", "context", "page"
    owned,     \* the shouldClose flags that are set
    guarded,   \* the host filter is installed on the context
    tracing,   \* a trace is being recorded
    landed,    \* where the navigation ended: "site", "login", "elsewhere"
    wall,      \* the page is a login or a challenge
    probes,    \* probes for a wall that threw instead of answering
    found,     \* cards discovered and not yet extracted
    kept,      \* items built
    verdict    \* "none", "items" or "error"

sessionVars == <<site, injected, step, open, owned, guarded, tracing, landed,
                 wall, probes, found, kept, verdict>>

Goes(s) == step' = s
Throws ==
    /\ step' = "closing"
    /\ verdict' = "error"

Owns(things) == owned' = owned \cup things

\* The target URL is checked, and robots.txt where Reddit is asked; a call
\* that fails here has opened nothing
StartReddit ==
    /\ site = "reddit" /\ step = "start"
    /\ \/ Goes("open") /\ UNCHANGED verdict
       \/ Goes("done") /\ verdict' = "error"
    /\ UNCHANGED <<site, injected, open, owned, guarded, tracing, landed, wall,
                   probes, found, kept>>

StartTrials ==
    /\ site = "trials" /\ step = "start"
    /\ \/ Goes("open") /\ UNCHANGED verdict
       \/ Goes("done") /\ verdict' = "error"    \* a bad URL, or aborted
    /\ UNCHANGED <<site, injected, open, owned, guarded, tracing, landed, wall,
                   probes, found, kept>>

OpenPage ==
    /\ step = "open" /\ injected = "page"
    /\ \/ open' = {"page"} /\ Goes("navigate") /\ UNCHANGED verdict
       \/ Throws /\ UNCHANGED open
    /\ UNCHANGED <<site, injected, owned, guarded, tracing, landed, wall,
                   probes, found, kept>>

\* The factory has made a browser; the flag that it must be closed is set
\* only when its context exists
OpenBrowser ==
    /\ step = "open" /\ injected = "browserFactory"
    /\ \/ open' = {"browser"} /\ Goes("context") /\ UNCHANGED verdict
       \/ Throws /\ UNCHANGED open
    /\ UNCHANGED <<site, injected, owned, guarded, tracing, landed, wall,
                   probes, found, kept>>

OpenContext ==
    /\ \/ step = "context"
       \/ step = "open" /\ injected \in {"contextFactory", "browser"}
    /\ \/ /\ open' = open \cup {"context"}
          /\ Owns({"context"} \cup (open \cap {"browser"}))
          /\ Goes("route") /\ UNCHANGED verdict
       \/ Throws /\ UNCHANGED <<open, owned>>
    /\ UNCHANGED <<site, injected, guarded, tracing, landed, wall, probes,
                   found, kept>>

NotConfigured ==
    /\ step = "open" /\ injected = "nothing"
    /\ Throws
    /\ UNCHANGED <<site, injected, open, owned, guarded, tracing, landed, wall,
                   probes, found, kept>>

\* The host filter, for the trials the trace, and the page
Route ==
    /\ step = "route"
    /\ \/ /\ guarded' = TRUE
          /\ \/ open' = open \cup {"page"} /\ Goes("navigate") /\ UNCHANGED verdict
             \/ Throws /\ UNCHANGED open
          /\ tracing' \in IF site = "trials" THEN BOOLEAN ELSE {FALSE}
       \/ Throws /\ UNCHANGED <<open, guarded, tracing>>
    /\ UNCHANGED <<site, injected, owned, landed, wall, probes, found, kept>>

\* Reddit sends a browser to its login; the collector then tries the old
\* site once and looks at the host of what it is given, not at its path
NavigateReddit ==
    /\ site = "reddit" /\ step = "navigate"
    /\ \E first, last \in {"site", "login", "elsewhere"}, fallback \in BOOLEAN :
        /\ landed' = IF first = "login" /\ fallback THEN last ELSE first
        /\ IF (first = "login" /\ ~fallback) \/ landed' = "elsewhere"
           THEN Throws
           ELSE Goes("response") /\ UNCHANGED verdict
    /\ wall' \in IF landed' = "login" THEN {TRUE} ELSE BOOLEAN
    /\ UNCHANGED <<site, injected, open, owned, guarded, tracing, probes, found, kept>>

NavigateTrials ==
    /\ site = "trials" /\ step = "navigate"
    /\ landed' \in {"site", "login", "elsewhere"}
    /\ wall' \in IF landed' = "login" THEN {TRUE} ELSE BOOLEAN
    /\ IF landed' = "elsewhere" THEN Throws ELSE Goes("response") /\ UNCHANGED verdict
    /\ UNCHANGED <<site, injected, open, owned, guarded, tracing, probes, found, kept>>

\* goto may time out; a status of 400 or more and a page above the size limit
\* of the policy end the call
Response ==
    /\ step = "response"
    /\ \/ Goes("probe") /\ UNCHANGED verdict
       \/ Throws
    /\ UNCHANGED <<site, injected, open, owned, guarded, tracing, landed, wall,
                   probes, found, kept>>

Probes == {"password", "captcha", "heading"}

\* Faulty variant: the outcome of the probes is not looked at
SeesNothing(shown) == FALSE

SeesWall(shown) == shown \ probes' # {}

\* Each of three probes looks for one sign; one that throws has seen nothing
ProbeReddit ==
    /\ site = "reddit" /\ step = "probe"
    /\ \E shown \in SUBSET Probes :
        /\ wall <=> shown # {}
        /\ probes' \in SUBSET Probes
        /\ IF SeesWall(shown) THEN Throws ELSE Goes("discover") /\ UNCHANGED verdict
    /\ UNCHANGED <<site, injected, open, owned, guarded, tracing, landed, wall,
                   found, kept>>

ProbeTrials ==
    /\ site = "trials" /\ step = "probe"
    /\ \E shown \in SUBSET Probes :
        /\ wall <=> shown # {}
        /\ probes' \in SUBSET Probes
        /\ IF SeesWall(shown) THEN Throws ELSE Goes("discover") /\ UNCHANGED verdict
    /\ UNCHANGED <<site, injected, open, owned, guarded, tracing, landed, wall,
                   found, kept>>

\* A card that cannot be read is left out
DiscoverPosts ==
    /\ site = "reddit" /\ step = "discover"
    /\ \/ found' \in SUBSET Cards /\ Goes("extract") /\ UNCHANGED verdict
       \/ Throws /\ UNCHANGED found
    /\ UNCHANGED <<site, injected, open, owned, guarded, tracing, landed, wall,
                   probes, kept>>

\* A card without a name is left out; every other field has a default
ExtractTrials ==
    /\ site = "trials" /\ step = "discover"
    /\ \/ found' \in SUBSET Cards /\ Goes("extract") /\ UNCHANGED verdict
       \/ Throws /\ UNCHANGED found
    /\ UNCHANGED <<site, injected, open, owned, guarded, tracing, landed, wall,
                   probes, kept>>

\* One post at a time; an error in one of them ends the call without items
ExtractPost ==
    /\ step = "extract" /\ found # {} /\ Cardinality(kept) < MaxItems
    /\ \E c \in found :
        \/ found' = found \ {c} /\ kept' = kept \cup {c} /\ UNCHANGED <<step, verdict>>
        \/ site = "trials" /\ found' = found \ {c}    \* another status is wanted
           /\ UNCHANGED <<kept, step, verdict>>
        \/ Throws /\ UNCHANGED <<found, kept>>
    /\ UNCHANGED <<site, injected, open, owned, guarded, tracing, landed, wall, probes>>

Finish ==
    /\ step = "extract" /\ (found = {} \/ Cardinality(kept) >= MaxItems)
    /\ \/ Goes("closing") /\ verdict' = "items" /\ tracing' = FALSE
       \/ tracing /\ Throws /\ UNCHANGED tracing
    /\ UNCHANGED <<site, injected, open, owned, guarded, landed, wall, probes,
                   found, kept>>

\* The finally block.  The page is always closed; closing ends a trace too
CloseAll ==
    /\ step = "closing"
    /\ open' = open \ (owned \cup {"page"})
    /\ tracing' = (tracing /\ "context" \in open')
    /\ Goes("done")
    /\ UNCHANGED <<site, injected, owned, guarded, landed, wall, probes, found,
                   kept, verdict>>

SessionIdle ==
    /\ open = {} /\ owned = {} /\ guarded = FALSE /\ tracing = FALSE
    /\ landed = "site" /\ wall = FALSE /\ probes = {} /\ found = {} /\ kept = {}
    /\ verdict = "none"

SessionInit ==
    /\ site \in {"reddit", "trials"}
    /\ injected \in {"page", "contextFactory", "browserFactory", "browser", "nothing"}
    /\ step = "start"
    /\ SessionIdle

SessionNext ==
    \/ StartReddit \/ StartTrials
    \/ OpenPage \/ OpenBrowser \/ OpenContext \/ NotConfigured \/ Route
    \/ NavigateReddit \/ NavigateTrials \/ Response
    \/ ProbeReddit \/ ProbeTrials
    \/ DiscoverPosts \/ ExtractTrials \/ ExtractPost \/ Finish \/ CloseAll

SessionSpec == SessionInit /\ [][SessionNext]_sessionVars
-----------------------------------------------------------------------------
SessionTypeOK ==
    /\ site \in {"reddit", "trials"}
    /\ open \cup owned \subseteq {"browser", "context", "page"}
    /\ {guarded, tracing, wall} \subseteq BOOLEAN
    /\ landed \in {"site", "login", "elsewhere"}
    /\ probes \subseteq Probes
    /\ found \cup kept \subseteq Cards
    /\ verdict \in {"none", "items", "error"}

\* Whatever fails and wherever the site sends the browser, a call that has
\* returned leaves nothing open that it opened itself, but for a browser that
\* could not make a context (its flag is set one await too late); and what it
\* keeps comes from a page of the source's own hosts that no working probe
\* recognised as a login or a challenge.
NothingLeftOpen ==
    step = "done" =>
        \/ open = {}
        \/ open = {"browser"} /\ "context" \notin owned /\ verdict = "error"
ItemsAreFromTheSite ==
    kept # {} => landed # "elsewhere" /\ (wall => probes # {})
SessionsAreClean == NothingLeftOpen /\ ItemsAreFromTheSite
=============================================================================
