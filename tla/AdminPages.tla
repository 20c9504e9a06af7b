------------------------------ MODULE AdminPages ------------------------------
(***************************************************************************)
(* The admin interface: internal/admin/handler.go with its page and        *)
(* static/dashboard.js, over the rows of api_keys and tokens that it makes *)
(* and disables.                                                           *)
(*                                                                         *)
(* An administrator works with the tabs of one browser, which share one    *)
(* cookie, and with scripts that send JSON and DELETE requests.  A tab has *)
(* one request at a time, beside the poll for the data of its page.  What  *)
(* Donate does to a row is in TokenManager, what a revoked key does to     *)
(* requests in ServeHTTP.                                                  *)
(***************************************************************************)
EXTENDS Naturals, FiniteSets

CONSTANTS
    Keys,      \* rows of api_keys, each with a key that is told only once
    Labels,    \* rows of tokens, by label
    Tabs,      \* tabs of the browser
    Cookies,   \* values that issueCSRFToken may draw; bounds the issuing
    None       \* no cookie, no row

Rows == Keys \cup Labels

ASSUME RowAssumption == Keys \cap Labels = {} /\ None \notin Rows \cup Cookies

VARIABLES
    rows,    \* the tables: absent, enabled or disabled
    drawn,   \* the cookie values drawn so far
    jar,     \* the browser's cookie codex_proxy_csrf
    tab,     \* what each tab shows
    request, \* the request of each tab
    polls,   \* answers with data of a page that are on their way
    told,    \* history: how often each key was told to somebody
    unseen   \* history: the keys whose answer failed or was lost

vars == <<rows, drawn, jar, tab, request, polls, told, unseen>>

\* What a page shows of the keys, as they were when it or its data was read.
Shown == [k \in Keys |-> rows[k]]
Nothing == [k \in Keys |-> "absent"]

\* A request: where it is, what it asks of which row, the cookie that came
\* with it, the form's token, and the page that answers it.
Idle == [at |-> "idle", does |-> "load", row |-> None, cookie |-> None,
         token |-> None, view |-> Nothing]
Blank == [at |-> "blank", token |-> None, view |-> Nothing]

Init ==
    /\ rows \in [Rows -> {"absent", "enabled"}]
    /\ told = [k \in Keys |-> IF rows[k] = "absent" THEN 0 ELSE 1]
    /\ unseen = {}
    /\ drawn = {} /\ jar = None
    /\ tab = [t \in Tabs |-> Blank]
    /\ request = [t \in Tabs |-> Idle]
    /\ polls = {}

-----------------------------------------------------------------------------
\* What a request makes of the rows: CreateAPIKey inserts, UpsertToken inserts
\* or enables, RevokeAPIKey and DisableToken disable what may be disabled.
Changes(does, row) ==
    \/ /\ does = "create" /\ row \in Keys /\ rows[row] = "absent"
       /\ rows' = [rows EXCEPT ![row] = "enabled"]
    \/ /\ does = "add" /\ row \in Labels
       /\ rows' = [rows EXCEPT ![row] = "enabled"]
    \/ /\ does = "disable" /\ row \in Rows /\ rows[row] # "absent"
       /\ rows' = [rows EXCEPT ![row] = "disabled"]

\* The key that is made by such a change; it is told, or nobody will know it.
Made(does, row) == IF does = "create" THEN {row} ELSE {}
Tell(keys) == told' = [k \in Keys |-> told[k] + IF k \in keys THEN 1 ELSE 0]
Lose(keys) == unseen' = unseen \cup keys

\* The browser shows something else in the tab, which stops polling.
Leave(t) ==
    /\ tab' = [tab EXCEPT ![t] = Blank]
    /\ polls' = {p \in polls : p.tab # t}

Send(t, does, row, token) ==
    request' = [request EXCEPT ![t] = [Idle EXCEPT !.at = "sent", !.does = does,
                               !.row = row, !.cookie = jar, !.token = token]]

Done(t) == request' = [request EXCEPT ![t] = Idle]

\* GET /admin, by its address or by reloading.
Visit(t) ==
    /\ request[t].at = "idle"
    /\ Leave(t)
    /\ Send(t, "load", None, None)
    /\ UNCHANGED <<rows, drawn, jar, told, unseen>>

\* A form of the page: a new key, a donated token, or the button beside an
\* enabled row; a token may have been enabled when the page was read.
Submit(t) ==
    /\ tab[t].at = "open" /\ request[t].at = "idle"
    /\ \/ Send(t, "create", None, tab[t].token)
       \/ \E l \in Labels : Send(t, "add", l, tab[t].token)
       \/ \E k \in Keys : /\ tab[t].view[k] = "enabled"
                          /\ Send(t, "disable", k, tab[t].token)
       \/ \E l \in Labels : /\ rows[l] # "absent"
                            /\ Send(t, "disable", l, tab[t].token)
    /\ UNCHANGED <<rows, drawn, jar, tab, polls, told, unseen>>

\* The cookie's seven days are over; loading pages does not prolong them.
Expire ==
    /\ jar # None
    /\ jar' = None
    /\ UNCHANGED <<rows, drawn, tab, request, polls, told, unseen>>

-----------------------------------------------------------------------------
\* validCSRF, for a form.
ValidCSRF(t) == request[t].cookie # None /\ request[t].cookie = request[t].token

\* An answer without a page: 403, a form filled in wrongly, a statement that
\* failed before it did anything; or the connection ends as early.
Refuse(t) ==
    /\ request[t].at = "sent" /\ request[t].does # "load"
    /\ Leave(t)
    /\ Done(t)
    /\ UNCHANGED <<rows, drawn, jar, told, unseen>>

\* Slip: the form for a key is answered like the others.
RedirectAlways(does) == "redirected"

\* A form is answered with a redirect to the page, but the one for a key with
\* the page itself, which has to be loaded.
Answered(does) == IF does = "create" THEN "made" ELSE "redirected"

Change(t) ==
    /\ request[t].at = "sent" /\ ValidCSRF(t)
    /\ \E r \in Rows :
          /\ request[t].does # "create" => r = request[t].row
          /\ Changes(request[t].does, r)
          /\ request' = [request EXCEPT ![t] =
                [at |-> Answered(@.does), does |-> @.does, row |-> r,
                 cookie |-> @.cookie, token |-> @.token, view |-> @.view]]
    /\ UNCHANGED <<drawn, jar, tab, polls, told, unseen>>

\* A script's change, authorized without a cookie, and told in JSON; or a
\* change, of anybody, that is committed when there is nobody left to tell:
\* the statement's answer is lost, or the connection to the client is.
ChangeAlone ==
    /\ \E does \in {"create", "add", "disable"}, r \in Rows :
          /\ Changes(does, r)
          /\ \/ Tell(Made(does, r)) /\ UNCHANGED unseen
             \/ Lose(Made(does, r)) /\ UNCHANGED told
    /\ UNCHANGED <<drawn, jar, tab, request, polls>>

\* The browser follows a redirect.
Redirect(t) ==
    /\ request[t].at = "redirected"
    /\ Leave(t)
    /\ Send(t, "load", None, None)
    /\ UNCHANGED <<rows, drawn, jar, told, unseen>>

\* Slips: a new cookie for every page; none at all.
IssueAnew(t) == Cookies \ drawn
IssueNothing(t) == {request[t].cookie}

\* issueCSRFToken keeps the cookie that came with the request.
IssueCSRFToken(t) ==
    IF request[t].cookie # None THEN {request[t].cookie} ELSE Cookies \ drawn

Loading(t) == \/ request[t].at = "sent" /\ request[t].does = "load"
              \/ request[t].at = "made"

\* dashboard, and the end of createKey: the page is loaded and rendered.
LoadPage(t) ==
    /\ Loading(t)
    /\ \E c \in IssueCSRFToken(t) :
          /\ drawn' = drawn \cup ({c} \ {None})
          /\ request' = [request EXCEPT ![t] =
                [at |-> "page", does |-> @.does, row |-> @.row,
                 cookie |-> @.cookie, token |-> c, view |-> Shown]]
    /\ UNCHANGED <<rows, jar, tab, polls, told, unseen>>

\* loadPageData fails, or the answer is lost, and with it the key for which
\* the page was made.
LoadFails(t) ==
    /\ Loading(t) \/ request[t].at \in {"redirected", "page"}
    /\ Lose(Made(request[t].does, request[t].row))
    /\ Leave(t)
    /\ Done(t)
    /\ UNCHANGED <<rows, drawn, jar, told>>

\* The page arrives, with its cookie if the request had none.
PageArrives(t) ==
    /\ request[t].at = "page"
    /\ jar' = IF request[t].cookie = None THEN request[t].token ELSE jar
    /\ tab' = [tab EXCEPT ![t] = [at |-> "open", token |-> request[t].token,
                                  view |-> request[t].view]]
    /\ polls' = {p \in polls : p.tab # t}
    /\ Tell(Made(request[t].does, request[t].row))
    /\ Done(t)
    /\ UNCHANGED <<rows, drawn, unseen>>

-----------------------------------------------------------------------------
\* Slip: the data is asked for by the clock.
PollByTheClock(t) ==
    /\ tab[t].at = "open"
    /\ polls' = polls \cup {[tab |-> t, view |-> Shown]}
    /\ UNCHANGED <<rows, drawn, jar, tab, request, told, unseen>>

\* refresh of dashboard.js, and dashboardData: the next one is due when this
\* one has ended.
Poll(t) ==
    /\ tab[t].at = "open"
    /\ \A p \in polls : p.tab # t
    /\ polls' = polls \cup {[tab |-> t, view |-> Shown]}
    /\ UNCHANGED <<rows, drawn, jar, tab, request, told, unseen>>

\* The page shows the new data, or "reconnecting".
EndPoll(p) ==
    /\ polls' = polls \ {p}
    /\ \/ tab' = [tab EXCEPT ![p.tab].view = p.view]
       \/ UNCHANGED tab
    /\ UNCHANGED <<rows, drawn, jar, request, told, unseen>>

-----------------------------------------------------------------------------
Next ==
    \/ \E t \in Tabs : \/ Visit(t) \/ Submit(t) \/ Redirect(t) \/ PageArrives(t)
                       \/ Refuse(t) \/ Change(t) \/ LoadPage(t) \/ LoadFails(t)
                       \/ Poll(t)
    \/ \E p \in polls : EndPoll(p)
    \/ ChangeAlone \/ Expire

Spec == Init /\ [][Next]_vars

-----------------------------------------------------------------------------
Views == [Keys -> {"absent", "enabled", "disabled"}]

TabType == [at : {"blank", "open"}, token : drawn \cup {None}, view : Views]

RequestType == [at : {"idle", "sent", "made", "redirected", "page"},
                does : {"load", "create", "add", "disable"},
                row : Rows \cup {None}, cookie : drawn \cup {None},
                token : drawn \cup {None}, view : Views]

PagesHaveTokens ==
    /\ \A t \in Tabs : tab[t].at = "open" => tab[t].token # None
    /\ \A t \in Tabs : request[t].at = "page" => request[t].token # None

TypeOK ==
    /\ rows \in [Rows -> {"absent", "enabled", "disabled"}]
    /\ drawn \subseteq Cookies /\ jar \in drawn \cup {None}
    /\ tab \in [Tabs -> TabType] /\ request \in [Tabs -> RequestType]
    /\ PagesHaveTokens
    /\ polls \subseteq [tab : Tabs, view : Views]
    /\ told \in [Keys -> Nat] /\ unseen \subseteq Keys

\* A form that would be accepted stops being so, or a page comes with forms
\* that are not, only because the cookie expired, or because a load that was
\* sent without a cookie has brought another one meanwhile: tabs of one
\* browser do not invalidate each other's pages.
FormsStayValid ==
    [][\A t \in Tabs :
          tab'[t].at = "open" /\ tab'[t].token # jar' =>
              \/ tab[t].at = "open" /\ tab[t].token # jar
              \/ jar' = None
              \/ request[t].at = "page" /\ request[t].cookie # jar
              \/ \E u \in Tabs \ {t} :
                    /\ request[u].at = "page" /\ request[u].cookie = None
                    /\ request'[u] = Idle]_vars

\* A key that is in the table was told once, to one tab or script, or its page
\* is being made, or its answer failed or was lost; never two of these, and
\* none of them for a key that is not in the table.
KeyToldOnce ==
    \A k \in Keys :
        told[k] + (IF k \in unseen THEN 1 ELSE 0)
        + Cardinality({t \in Tabs : /\ request[t].does = "create"
                                    /\ request[t].row = k})
        = IF rows[k] = "absent" THEN 0 ELSE 1

\* A page that shows a key as revoked never shows it as active again: data
\* that comes late does not undo what is shown.
RevokedStaysRevoked ==
    [][\A t \in Tabs, k \in Keys :
          tab[t].view[k] = "disabled" /\ UNCHANGED request =>
              tab'[t].view[k] # "enabled"]_vars

=============================================================================
