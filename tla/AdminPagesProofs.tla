--------------------------- MODULE AdminPagesProofs ---------------------------
(***************************************************************************)
(* Theorems about AdminPages, for any set of keys, labels, tabs and cookie *)
(* values.                                                                 *)
(***************************************************************************)
EXTENDS AdminPages, FiniteSetTheorems, TLAPS

\* What is known of a request at each place: only the form for a key makes a
\* page without a redirect, it names its key from then on, and a page keeps
\* the cookie that came with its request.
Placed(t) ==
    /\ request[t].at = "idle" => request[t].does = "load"
    /\ request[t].at = "made" => request[t].does = "create"
    /\ request[t].at = "redirected" => request[t].does # "create"
    /\ request[t].does = "create" => IF request[t].at = "sent"
                                     THEN request[t].row = None
                                     ELSE request[t].row \in Keys
    /\ request[t].at = "page" /\ request[t].cookie # None
           => request[t].token = request[t].cookie

Creates(t, k) == request[t].does = "create" /\ request[t].row = k

\* What has become of the key k: not made; told; lost; or its page is being
\* made for one tab.
Fate(k) ==
    \/ /\ rows[k] = "absent" /\ told[k] = 0 /\ k \notin unseen
       /\ \A t \in Tabs : ~Creates(t, k)
    \/ /\ rows[k] # "absent" /\ told[k] = 1 /\ k \notin unseen
       /\ \A t \in Tabs : ~Creates(t, k)
    \/ /\ rows[k] # "absent" /\ told[k] = 0 /\ k \in unseen
       /\ \A t \in Tabs : ~Creates(t, k)
    \/ /\ rows[k] # "absent" /\ told[k] = 0 /\ k \notin unseen
       /\ \E t \in Tabs : \A u \in Tabs : Creates(u, k) <=> u = t

\* Whoever shows or carries the key k as revoked is right, and data that comes
\* to a page which shows it so says the same.
Revoked(k) ==
    /\ \A t \in Tabs : tab[t].view[k] = "disabled" =>
          /\ rows[k] = "disabled"
          /\ \A p \in polls : p.tab = t => p.view[k] = "disabled"
    /\ \A t \in Tabs : request[t].view[k] = "disabled" => rows[k] = "disabled"
    /\ \A p \in polls : p.view[k] = "disabled" => rows[k] = "disabled"

OnePoll == \A p, q \in polls : p.tab = q.tab => p = q

Settled ==
    /\ TypeOK
    /\ \A t \in Tabs : Placed(t)
    /\ \A k \in Keys : Fate(k) /\ Revoked(k)
    /\ OnePoll

-----------------------------------------------------------------------------
LEMMA ViewsAreViews ==
  TypeOK => Shown \in Views /\ Nothing \in Views
  BY DEF TypeOK, Shown, Nothing, Views, Rows

LEMMA InitSettled == Init => Settled
  <1> SUFFICES ASSUME Init PROVE Settled
    OBVIOUS
  <1>1. TypeOK
    BY RowAssumption DEF Init, TypeOK, PagesHaveTokens, TabType, RequestType, Blank, Idle, Nothing,
                         Views, Rows
  <1>2. ASSUME NEW t \in Tabs PROVE Placed(t)
    BY <1>2 DEF Init, Placed, Idle
  <1>3. ASSUME NEW k \in Keys PROVE Fate(k) /\ Revoked(k)
    BY <1>3 DEF Init, Fate, Revoked, Creates, Idle, Blank, Nothing, Rows
  <1> QED
    BY <1>1, <1>2, <1>3 DEF Settled, OnePoll, Init

-----------------------------------------------------------------------------
\* What a page is issued is a cookie, and the request's own if it has one.
LEMMA Issued ==
  ASSUME TypeOK, NEW t \in Tabs, NEW c \in IssueCSRFToken(t)
  PROVE  /\ c \in Cookies /\ c # None
         /\ request[t].cookie # None => c = request[t].cookie
  <1>1. request[t].cookie \in Cookies \cup {None} /\ drawn \subseteq Cookies
    BY DEF TypeOK, RequestType
  <1> QED
    BY <1>1, RowAssumption DEF IssueCSRFToken

\* A request is replaced by another one.
LEMMA RequestTyped ==
  ASSUME TypeOK, NEW t \in Tabs, NEW r \in RequestType,
         r.at = "page" => r.token # None,
         request' = [request EXCEPT ![t] = r], UNCHANGED drawn
  PROVE  /\ request' \in [Tabs -> RequestType']
         /\ \A u \in Tabs : request'[u].at = "page" => request'[u].token # None
  <1>1. RequestType' = RequestType
    BY DEF RequestType
  <1>2. \A u \in Tabs : request'[u] = IF u = t THEN r ELSE request[u]
    BY DEF TypeOK
  <1>3. request' \in [Tabs -> RequestType]
    BY DEF TypeOK
  <1>4. PagesHaveTokens
    BY DEF TypeOK
  <1> QED
    BY <1>1, <1>2, <1>3, <1>4 DEF PagesHaveTokens

\* A tab shows something else.
LEMMA TabTyped ==
  ASSUME TypeOK, NEW t \in Tabs, NEW r \in TabType,
         r.at = "open" => r.token # None,
         tab' = [tab EXCEPT ![t] = r], UNCHANGED drawn
  PROVE  /\ tab' \in [Tabs -> TabType']
         /\ \A u \in Tabs : tab'[u].at = "open" => tab'[u].token # None
  <1>1. TabType' = TabType
    BY DEF TabType
  <1>2. \A u \in Tabs : tab'[u] = IF u = t THEN r ELSE tab[u]
    BY DEF TypeOK
  <1>3. tab' \in [Tabs -> TabType]
    BY DEF TypeOK
  <1>4. PagesHaveTokens
    BY DEF TypeOK
  <1> QED
    BY <1>1, <1>2, <1>3, <1>4 DEF PagesHaveTokens

LEMMA RestTyped ==
  TypeOK => /\ Idle \in RequestType /\ Idle.at # "page"
            /\ Blank \in TabType /\ Blank.at # "open"
            /\ \A t \in Tabs : request[t] \in RequestType /\ tab[t] \in TabType
  BY ViewsAreViews DEF TypeOK, Idle, Blank, RequestType, TabType

LEMMA SendTyped ==
  ASSUME TypeOK, NEW t \in Tabs, NEW does \in {"load", "create", "add", "disable"},
         NEW row \in Rows \cup {None}, NEW token \in drawn \cup {None},
         Send(t, does, row, token), UNCHANGED drawn
  PROVE  /\ request' \in [Tabs -> RequestType']
         /\ \A u \in Tabs : request'[u].at = "page" => request'[u].token # None
  <1> DEFINE r == [Idle EXCEPT !.at = "sent", !.does = does, !.row = row,
                               !.cookie = jar, !.token = token]
  <1>1. r \in RequestType /\ r.at # "page"
    BY ViewsAreViews DEF TypeOK, Idle, RequestType
  <1>2. request' = [request EXCEPT ![t] = r]
    BY DEF Send
  <1> HIDE DEF r
  <1> QED
    BY <1>1, <1>2, RequestTyped

LEMMA StepTyped == Settled /\ [Next]_vars => TypeOK'
  <1> SUFFICES ASSUME Settled, [Next]_vars PROVE TypeOK'
    OBVIOUS
  <1> TypeOK /\ PagesHaveTokens
    BY DEF Settled, TypeOK
  <1> USE RowAssumption, ViewsAreViews, RestTyped
  <1>1. CASE UNCHANGED vars
    BY <1>1 DEF TypeOK, PagesHaveTokens, vars, TabType, RequestType
  <1>2. CASE ChangeAlone
    <2>1. told' \in [Keys -> Nat] /\ unseen' \subseteq Keys
      BY <1>2 DEF TypeOK, ChangeAlone, Changes, Tell, Lose, Made
    <2>2. rows' \in [Rows -> {"absent", "enabled", "disabled"}]
      BY <1>2 DEF TypeOK, ChangeAlone, Changes, Rows
    <2> QED
      BY <1>2, <2>1, <2>2 DEF TypeOK, PagesHaveTokens, ChangeAlone, TabType, RequestType
  <1>3. CASE Expire
    BY <1>3 DEF TypeOK, PagesHaveTokens, Expire, TabType, RequestType
  <1>4. ASSUME NEW p \in polls, EndPoll(p) PROVE TypeOK'
    <2>1. p.tab \in Tabs /\ p.view \in Views
      BY DEF TypeOK
    <2> DEFINE r == [tab[p.tab] EXCEPT !.view = p.view]
    <2>2. r \in TabType /\ r.at = tab[p.tab].at /\ r.token = tab[p.tab].token
      BY <2>1 DEF TabType
    <2>3. tab' = tab \/ tab' = [tab EXCEPT ![p.tab] = r]
      BY <1>4 DEF EndPoll
    <2>4. UNCHANGED <<rows, drawn, jar, request, told, unseen>>
      BY <1>4 DEF EndPoll
    <2>5. r.at = "open" => r.token # None
      BY <2>1, <2>2 DEF TypeOK, PagesHaveTokens
    <2>6. TabType' = TabType
      BY <2>4 DEF TabType
    <2> HIDE DEF r
    <2>7. CASE tab' = tab
      BY <1>4, <2>4, <2>6, <2>7 DEF TypeOK, PagesHaveTokens, EndPoll, RequestType
    <2>8. CASE tab' = [tab EXCEPT ![p.tab] = r]
      <3>1. /\ tab' \in [Tabs -> TabType']
            /\ \A t \in Tabs : tab'[t].at = "open" => tab'[t].token # None
        BY <2>1, <2>2, <2>4, <2>5, <2>8, TabTyped
      <3> QED
        BY <1>4, <2>4, <3>1 DEF TypeOK, PagesHaveTokens, EndPoll, RequestType
    <2> QED
      BY <2>3, <2>7, <2>8
  <1>5. ASSUME NEW t \in Tabs, Visit(t) \/ Redirect(t) PROVE TypeOK'
    <2>1. Leave(t) /\ Send(t, "load", None, None)
          /\ UNCHANGED <<rows, drawn, jar, told, unseen>>
      BY <1>5 DEF Visit, Redirect
    <2>2. /\ tab' \in [Tabs -> TabType']
          /\ \A u \in Tabs : tab'[u].at = "open" => tab'[u].token # None
      BY <2>1, TabTyped DEF Leave
    <2>3. /\ request' \in [Tabs -> RequestType']
          /\ \A u \in Tabs : request'[u].at = "page" => request'[u].token # None
      BY <2>1, SendTyped
    <2>4. polls' \subseteq polls
      BY <2>1 DEF Leave
    <2> QED
      BY <2>1, <2>2, <2>3, <2>4 DEF TypeOK, PagesHaveTokens
  <1>6. ASSUME NEW t \in Tabs, Submit(t) PROVE TypeOK'
    <2>1. PICK does \in {"create", "add", "disable"}, row \in Rows \cup {None} :
              Send(t, does, row, tab[t].token)
      BY <1>6 DEF Submit, Rows
    <2>2. UNCHANGED <<rows, drawn, jar, tab, polls, told, unseen>>
      BY <1>6 DEF Submit
    <2>3. tab[t].token \in drawn \cup {None}
      BY DEF TabType
    <2>4. /\ request' \in [Tabs -> RequestType']
          /\ \A u \in Tabs : request'[u].at = "page" => request'[u].token # None
      BY <2>1, <2>2, <2>3, SendTyped
    <2> QED
      BY <2>2, <2>4 DEF TypeOK, PagesHaveTokens, TabType
  <1>7. ASSUME NEW t \in Tabs, PageArrives(t) PROVE TypeOK'
    <2> DEFINE r == [at |-> "open", token |-> request[t].token,
                     view |-> request[t].view]
    <2>1. request[t].token \in drawn \cup {None} /\ request[t].view \in Views
      BY DEF RequestType
    <2>2. r \in TabType /\ request[t].token # None
      BY <1>7, <2>1 DEF PageArrives, PagesHaveTokens, TabType
    <2>3. tab' = [tab EXCEPT ![t] = r] /\ UNCHANGED <<rows, drawn, unseen>>
      BY <1>7 DEF PageArrives
    <2> r.token # None
      BY <2>2
    <2> HIDE DEF r
    <2>4. /\ tab' \in [Tabs -> TabType']
          /\ \A u \in Tabs : tab'[u].at = "open" => tab'[u].token # None
      BY <2>2, <2>3, TabTyped
    <2>5. /\ request' \in [Tabs -> RequestType']
          /\ \A u \in Tabs : request'[u].at = "page" => request'[u].token # None
      BY <1>7, RequestTyped DEF PageArrives, Done
    <2>6. jar' \in drawn' \cup {None} /\ polls' \subseteq polls
      BY <1>7, <2>1 DEF PageArrives, TypeOK
    <2>7. told' \in [Keys -> Nat]
      BY <1>7 DEF PageArrives, Tell, Made, TypeOK
    <2> QED
      BY <2>3, <2>4, <2>5, <2>6, <2>7 DEF TypeOK, PagesHaveTokens
  <1>8. ASSUME NEW t \in Tabs, Refuse(t) \/ LoadFails(t) PROVE TypeOK'
    <2>1. Leave(t) /\ Done(t) /\ UNCHANGED <<rows, drawn, jar, told>>
      BY <1>8 DEF Refuse, LoadFails
    <2>2. /\ tab' \in [Tabs -> TabType']
          /\ \A u \in Tabs : tab'[u].at = "open" => tab'[u].token # None
      BY <2>1, TabTyped DEF Leave
    <2>3. /\ request' \in [Tabs -> RequestType']
          /\ \A u \in Tabs : request'[u].at = "page" => request'[u].token # None
      BY <2>1, RequestTyped DEF Done
    <2>4. LoadFails(t) => Made(request[t].does, request[t].row) \subseteq Keys
      BY DEF Settled, Placed, LoadFails, Loading, Made
    <2>5. unseen' \subseteq Keys
      BY <2>4, <1>8 DEF LoadFails, Refuse, Lose, TypeOK
    <2>6. polls' \subseteq polls
      BY <2>1 DEF Leave
    <2> QED
      BY <2>1, <2>2, <2>3, <2>5, <2>6 DEF TypeOK, PagesHaveTokens
  <1>9. ASSUME NEW t \in Tabs, Change(t) PROVE TypeOK'
    <2> PICK r \in Rows :
            /\ Changes(request[t].does, r)
            /\ request' = [request EXCEPT ![t] =
                [at |-> Answered(@.does), does |-> @.does, row |-> r,
                 cookie |-> @.cookie, token |-> @.token, view |-> @.view]]
      BY <1>9 DEF Change
    <2> DEFINE q == [at |-> Answered(request[t].does), does |-> request[t].does,
                     row |-> r, cookie |-> request[t].cookie,
                     token |-> request[t].token, view |-> request[t].view]
    <2>1. q \in RequestType /\ q.at # "page"
      BY DEF RequestType, Answered
    <2>2. request' = [request EXCEPT ![t] = q]
      OBVIOUS
    <2>3. UNCHANGED <<drawn, jar, tab, polls, told, unseen>>
      BY <1>9 DEF Change
    <2> HIDE DEF q
    <2>4. /\ request' \in [Tabs -> RequestType']
          /\ \A u \in Tabs : request'[u].at = "page" => request'[u].token # None
      BY <2>1, <2>2, <2>3, RequestTyped
    <2>5. rows' \in [Rows -> {"absent", "enabled", "disabled"}]
      BY DEF TypeOK, Changes, Rows
    <2> QED
      BY <2>3, <2>4, <2>5 DEF TypeOK, PagesHaveTokens, TabType
  <1>10. ASSUME NEW t \in Tabs, LoadPage(t) PROVE TypeOK'
    <2> PICK c \in IssueCSRFToken(t) :
            /\ drawn' = drawn \cup ({c} \ {None})
            /\ request' = [request EXCEPT ![t] =
                  [at |-> "page", does |-> @.does, row |-> @.row,
                   cookie |-> @.cookie, token |-> c, view |-> Shown]]
      BY <1>10 DEF LoadPage
    <2> DEFINE q == [at |-> "page", does |-> request[t].does,
                     row |-> request[t].row, cookie |-> request[t].cookie,
                     token |-> c, view |-> Shown]
    <2>1. UNCHANGED <<rows, jar, tab, polls, told, unseen>>
      BY <1>10 DEF LoadPage
    <2>2. c \in Cookies /\ c # None
      BY Issued
    <2>3. drawn' = drawn \cup {c} /\ drawn' \subseteq Cookies
      BY <2>2 DEF TypeOK
    <2>4. q \in RequestType' /\ q.token # None
      BY <2>2, <2>3 DEF RequestType
    <2>5. request' = [request EXCEPT ![t] = q]
      OBVIOUS
    <2>6. RequestType \subseteq RequestType' /\ TabType \subseteq TabType'
      BY <2>3 DEF RequestType, TabType
    <2> HIDE DEF q
    <2>7. request' \in [Tabs -> RequestType']
      BY <2>4, <2>5, <2>6 DEF TypeOK
    <2>8. \A u \in Tabs : request'[u].at = "page" => request'[u].token # None
      <3>1. \A u \in Tabs : request'[u] = IF u = t THEN q ELSE request[u]
        BY <2>5 DEF TypeOK
      <3> QED
        BY <2>4, <3>1 DEF PagesHaveTokens
    <2>9. tab' \in [Tabs -> TabType']
      BY <2>1, <2>6 DEF TypeOK
    <2> QED
      BY <2>1, <2>3, <2>7, <2>8, <2>9 DEF TypeOK, PagesHaveTokens
  <1>11. ASSUME NEW t \in Tabs, Poll(t) PROVE TypeOK'
    BY <1>11 DEF TypeOK, PagesHaveTokens, Poll, TabType, RequestType
  <1> QED
    BY <1>1, <1>2, <1>3, <1>4, <1>5, <1>6, <1>7, <1>8, <1>9, <1>10, <1>11
    DEF Next

LEMMA StepPlaced ==
  Settled /\ [Next]_vars => \A t \in Tabs : Placed(t)'
  <1> SUFFICES ASSUME Settled, [Next]_vars, NEW u \in Tabs PROVE Placed(u)'
    OBVIOUS
  <1> TypeOK /\ Placed(u)
    BY DEF Settled
  <1>1. CASE UNCHANGED request
    BY <1>1 DEF Placed
  <1>2. ASSUME NEW t \in Tabs, request' = [request EXCEPT ![t] = Idle]
        PROVE  Placed(u)'
    BY <1>2 DEF Placed, Idle, TypeOK
  <1>3. ASSUME NEW t \in Tabs, NEW does, NEW row, NEW token,
               Send(t, does, row, token), does = "create" => row = None
        PROVE  Placed(u)'
    BY <1>3 DEF Placed, Idle, TypeOK, Send
  <1>4. ASSUME NEW t \in Tabs, Change(t) PROVE Placed(u)'
    BY <1>4, RowAssumption DEF Placed, TypeOK, Change, Changes, Answered, Rows
  <1>5. ASSUME NEW t \in Tabs, LoadPage(t) PROVE Placed(u)'
    <2> PICK c \in IssueCSRFToken(t) :
            request' = [request EXCEPT ![t] =
                  [at |-> "page", does |-> @.does, row |-> @.row,
                   cookie |-> @.cookie, token |-> c, view |-> Shown]]
      BY <1>5 DEF LoadPage
    <2>1. request[t].cookie # None => c = request[t].cookie
      BY Issued
    <2> QED
      BY <1>5, <2>1 DEF Placed, TypeOK, LoadPage, Loading
  <1>6. ASSUME NEW t \in Tabs, Visit(t) \/ Redirect(t) PROVE Placed(u)'
    <2>1. Send(t, "load", None, None)
      BY <1>6 DEF Visit, Redirect
    <2> QED
      BY <2>1, <1>3
  <1>7. ASSUME NEW t \in Tabs, Submit(t) PROVE Placed(u)'
    <2>1. \E does \in {"create", "add", "disable"}, row \in Rows \cup {None} :
            /\ Send(t, does, row, tab[t].token)
            /\ does = "create" => row = None
      BY <1>7 DEF Submit, Rows
    <2> QED
      BY <2>1, <1>3
  <1>8. ASSUME NEW t \in Tabs, Refuse(t) \/ PageArrives(t) \/ LoadFails(t)
        PROVE  Placed(u)'
    <2>1. request' = [request EXCEPT ![t] = Idle]
      BY <1>8 DEF Refuse, PageArrives, LoadFails, Done
    <2> QED
      BY <2>1, <1>2
  <1> QED
    BY <1>1, <1>4, <1>5, <1>6, <1>7, <1>8
    DEF Next, vars, ChangeAlone, Expire, EndPoll, Poll

-----------------------------------------------------------------------------
\* Requests that ask for the same keys leave the fates of keys alone if the
\* table and the histories do.
LEMMA SameFate ==
  ASSUME NEW k \in Keys, Fate(k), \A t \in Tabs : Creates(t, k)' <=> Creates(t, k),
         rows'[k] = "absent" <=> rows[k] = "absent",
         told'[k] = told[k], k \in unseen' <=> k \in unseen
  PROVE  Fate(k)'
  BY DEF Fate

\* Only one request, that of t, asks for other keys than before.
LEMMA OtherRequests ==
  ASSUME TypeOK, NEW t \in Tabs, NEW r, request' = [request EXCEPT ![t] = r],
         NEW k \in Keys
  PROVE  /\ \A u \in Tabs \ {t} : Creates(u, k)' <=> Creates(u, k)
         /\ Creates(t, k)' <=> r.does = "create" /\ r.row = k
  BY DEF TypeOK, Creates

LEMMA NoSuchKey == ASSUME NEW k \in Keys PROVE k # None
  BY RowAssumption DEF Rows

\* A request that ends, or becomes one that makes no key, without having made
\* one before.
LEMMA FateAlone ==
  ASSUME TypeOK, NEW t \in Tabs, NEW r, request' = [request EXCEPT ![t] = r],
         NEW k \in Keys, Fate(k), r.does = "create" => r.row = None, ~Creates(t, k),
         UNCHANGED <<rows, told, unseen>>
  PROVE  Fate(k)'
  BY OtherRequests, SameFate, NoSuchKey

\* The page for a key ends: the key is told or lost.
LEMMA FateDecided ==
  ASSUME TypeOK, NEW t \in Tabs, request' = [request EXCEPT ![t] = Idle],
         NEW k \in Keys, Fate(k), UNCHANGED rows,
         Creates(t, k) \/ k \notin Made(request[t].does, request[t].row),
         \/ Tell(Made(request[t].does, request[t].row)) /\ UNCHANGED unseen
         \/ Lose(Made(request[t].does, request[t].row)) /\ UNCHANGED told
  PROVE  Fate(k)'
  <1>1. told[k] \in Nat
    BY DEF TypeOK
  <1>2. \A u \in Tabs \ {t} : Creates(u, k)' <=> Creates(u, k)
    BY OtherRequests
  <1>3. ~Creates(t, k)'
    <2>1. Idle.does # "create"
      BY DEF Idle
    <2> QED
      BY <2>1, OtherRequests
  <1>4. CASE Creates(t, k)
    <2>1. Made(request[t].does, request[t].row) = {k}
      BY <1>4 DEF Creates, Made
    <2>2. /\ rows[k] # "absent" /\ told[k] = 0 /\ k \notin unseen
          /\ \A u \in Tabs \ {t} : ~Creates(u, k)
      BY <1>4 DEF Fate
    <2>3. \/ told'[k] = 1 /\ unseen' = unseen
          \/ told'[k] = 0 /\ k \in unseen'
      BY <2>1, <2>2 DEF Tell, Lose
    <2> QED
      BY <1>2, <1>3, <2>2, <2>3 DEF Fate
  <1>5. CASE ~Creates(t, k)
    <2>1. told'[k] = told[k] /\ (k \in unseen' <=> k \in unseen)
      BY <1>1, <1>5 DEF Tell, Lose
    <2> QED
      BY <1>2, <1>3, <1>5, <2>1, SameFate
  <1> QED
    BY <1>4, <1>5

LEMMA StepFate ==
  Settled /\ [Next]_vars => \A k \in Keys : Fate(k)'
  <1> SUFFICES ASSUME Settled, [Next]_vars, NEW k \in Keys PROVE Fate(k)'
    OBVIOUS
  <1>0. TypeOK /\ Fate(k) /\ k # None /\ k \notin Labels /\ k \in Rows
        /\ told[k] \in Nat /\ \A t \in Tabs : Placed(t)
    BY RowAssumption, NoSuchKey DEF Settled, TypeOK, Rows
  <1>1. CASE UNCHANGED <<rows, told, unseen, request>>
    BY <1>0, <1>1, SameFate DEF Creates
  <1>2. CASE ChangeAlone
    <2> PICK does \in {"create", "add", "disable"}, r \in Rows :
            /\ Changes(does, r)
            /\ \/ Tell(Made(does, r)) /\ UNCHANGED unseen
               \/ Lose(Made(does, r)) /\ UNCHANGED told
      BY <1>2 DEF ChangeAlone
    <2>1. \A t \in Tabs : Creates(t, k)' <=> Creates(t, k)
      BY <1>2 DEF ChangeAlone, Creates
    <2>2. CASE does = "create" /\ r = k
      <3>1. Made(does, r) = {k}
        BY <2>2 DEF Made
      <3>2. rows[k] = "absent" /\ rows'[k] = "enabled"
        BY <1>0, <2>2 DEF Changes, TypeOK
      <3>3. told[k] = 0 /\ k \notin unseen /\ \A t \in Tabs : ~Creates(t, k)
        BY <1>0, <3>2 DEF Fate
      <3>4. \/ told'[k] = 1 /\ unseen' = unseen
            \/ told'[k] = 0 /\ k \in unseen'
        BY <3>1, <3>3 DEF Tell, Lose
      <3> QED
        BY <2>1, <3>2, <3>3, <3>4 DEF Fate
    <2>3. CASE ~(does = "create" /\ r = k)
      <3>1. k \notin Made(does, r)
        BY <2>3 DEF Made
      <3>2. told'[k] = told[k] /\ (k \in unseen' <=> k \in unseen)
        BY <1>0, <3>1 DEF Tell, Lose
      <3>3. rows'[k] = "absent" <=> rows[k] = "absent"
        BY <1>0, <2>3 DEF Changes, TypeOK
      <3> QED
        BY <1>0, <2>1, <3>2, <3>3, SameFate
    <2> QED
      BY <2>2, <2>3
  <1>3. ASSUME NEW t \in Tabs, NEW does, NEW row, NEW token,
               Send(t, does, row, token), does = "create" => row = None,
               ~Creates(t, k), UNCHANGED <<rows, told, unseen>>
        PROVE  Fate(k)'
    <2> DEFINE r == [Idle EXCEPT !.at = "sent", !.does = does, !.row = row,
                                 !.cookie = jar, !.token = token]
    <2>1. r.does = "create" => r.row = None
      BY <1>3 DEF Idle
    <2>2. request' = [request EXCEPT ![t] = r]
      BY <1>3 DEF Send
    <2> HIDE DEF r
    <2> QED
      BY <1>0, <1>3, <2>1, <2>2, FateAlone
  <1>4. ASSUME NEW t \in Tabs, Visit(t) \/ Redirect(t) PROVE Fate(k)'
    <2>1. Send(t, "load", None, None) /\ UNCHANGED <<rows, told, unseen>>
      BY <1>4 DEF Visit, Redirect
    <2>2. ~Creates(t, k)
      BY <1>0, <1>4 DEF Visit, Redirect, Placed, Creates
    <2> QED
      BY <1>3, <2>1, <2>2
  <1>5. ASSUME NEW t \in Tabs, Submit(t) PROVE Fate(k)'
    <2>1. PICK does \in {"create", "add", "disable"}, row \in Rows \cup {None} :
            /\ Send(t, does, row, tab[t].token)
            /\ does = "create" => row = None
      BY <1>5 DEF Submit, Rows
    <2>2. ~Creates(t, k)
      BY <1>0, <1>5 DEF Submit, Placed, Creates
    <2> QED
      BY <1>3, <1>5, <2>1, <2>2 DEF Submit
  <1>6. ASSUME NEW t \in Tabs, Refuse(t) PROVE Fate(k)'
    <2>1. ~Creates(t, k)
      BY <1>0, <1>6 DEF Refuse, Placed, Creates
    <2>2. Idle.does # "create"
      BY DEF Idle
    <2>3. request' = [request EXCEPT ![t] = Idle]
          /\ UNCHANGED <<rows, told, unseen>>
      BY <1>6 DEF Refuse, Done
    <2> QED
      BY <1>0, <2>1, <2>2, <2>3, FateAlone
  <1>7. ASSUME NEW t \in Tabs, Change(t) PROVE Fate(k)'
    <2> PICK r \in Rows :
            /\ Changes(request[t].does, r)
            /\ request' = [request EXCEPT ![t] =
                [at |-> Answered(@.does), does |-> @.does, row |-> r,
                 cookie |-> @.cookie, token |-> @.token, view |-> @.view]]
      BY <1>7 DEF Change
    <2> DEFINE q == [at |-> Answered(request[t].does), does |-> request[t].does,
                     row |-> r, cookie |-> request[t].cookie,
                     token |-> request[t].token, view |-> request[t].view]
    <2>1. q.does = request[t].does /\ q.row = r
      OBVIOUS
    <2>2. request' = [request EXCEPT ![t] = q]
      OBVIOUS
    <2> HIDE DEF q
    <2>3. /\ \A u \in Tabs \ {t} : Creates(u, k)' <=> Creates(u, k)
          /\ Creates(t, k)' <=> request[t].does = "create" /\ r = k
      BY <1>0, <2>1, <2>2, OtherRequests
    <2>4. ~Creates(t, k) /\ UNCHANGED <<told, unseen>>
      BY <1>0, <1>7 DEF Change, Placed, Creates
    <2>5. CASE request[t].does = "create" /\ r = k
      <3>1. rows[k] = "absent" /\ rows'[k] = "enabled"
        BY <1>0, <2>5 DEF Changes, TypeOK
      <3>2. told[k] = 0 /\ k \notin unseen /\ \A u \in Tabs : ~Creates(u, k)
        BY <1>0, <3>1 DEF Fate
      <3>3. \A u \in Tabs : Creates(u, k)' <=> u = t
        BY <2>3, <2>5, <3>2
      <3> QED
        BY <2>4, <3>1, <3>2, <3>3 DEF Fate
    <2>6. CASE ~(request[t].does = "create" /\ r = k)
      <3>1. rows'[k] = "absent" <=> rows[k] = "absent"
        BY <1>0, <2>6 DEF Changes, TypeOK
      <3> QED
        BY <1>0, <2>3, <2>4, <2>6, <3>1, SameFate
    <2> QED
      BY <2>5, <2>6
  <1>8. ASSUME NEW t \in Tabs, LoadPage(t) PROVE Fate(k)'
    <2>1. \A u \in Tabs : Creates(u, k)' <=> Creates(u, k)
      BY <1>0, <1>8 DEF LoadPage, Creates, TypeOK
    <2> QED
      BY <1>0, <1>8, <2>1, SameFate DEF LoadPage
  <1>9. ASSUME NEW t \in Tabs, PageArrives(t) \/ LoadFails(t) PROVE Fate(k)'
    <2>1. /\ request' = [request EXCEPT ![t] = Idle] /\ UNCHANGED rows
          /\ \/ Tell(Made(request[t].does, request[t].row)) /\ UNCHANGED unseen
             \/ Lose(Made(request[t].does, request[t].row)) /\ UNCHANGED told
      BY <1>9 DEF PageArrives, LoadFails, Done
    <2>2. Creates(t, k) \/ k \notin Made(request[t].does, request[t].row)
      BY DEF Creates, Made
    <2> QED
      BY <1>0, <2>1, <2>2, FateDecided
  <1> QED
    BY <1>1, <1>2, <1>4, <1>5, <1>6, <1>7, <1>8, <1>9
    DEF Next, vars, Expire, EndPoll, Poll

-----------------------------------------------------------------------------
\* A revoked key stays revoked in the table.
LEMMA RevokedInTable ==
  ASSUME TypeOK, [Next]_vars, NEW k \in Keys, rows[k] = "disabled"
  PROVE  rows'[k] = "disabled"
  <1>1. k \notin Labels /\ k \in Rows
    BY RowAssumption DEF Rows
  <1>2. ASSUME NEW does, NEW r \in Rows, Changes(does, r)
        PROVE  rows'[k] = "disabled"
    BY <1>1, <1>2 DEF Changes, TypeOK
  <1>3. rows' = rows \/ \E does \in {"create", "add", "disable"} \cup
                                {request[t].does : t \in Tabs}, r \in Rows :
                           Changes(does, r)
    BY DEF Next, vars, Expire, EndPoll, Poll, Visit, Submit, Redirect, PageArrives,
           Refuse, Change, LoadPage, LoadFails, ChangeAlone
  <1> QED
    BY <1>2, <1>3

\* A tab that is left.
LEMMA LeaveRevoked ==
  ASSUME TypeOK, NEW t \in Tabs, NEW k \in Keys, Revoked(k), OnePoll, Leave(t),
         rows'[k] = rows[k]
  PROVE  /\ \A u \in Tabs : tab'[u].view[k] = "disabled" =>
               /\ rows'[k] = "disabled"
               /\ \A p \in polls' : p.tab = u => p.view[k] = "disabled"
         /\ \A p \in polls' : p.view[k] = "disabled" => rows'[k] = "disabled"
         /\ OnePoll'
  <1>1. \A u \in Tabs : tab'[u] = IF u = t THEN Blank ELSE tab[u]
    BY DEF Leave, TypeOK
  <1>2. Blank.view[k] # "disabled"
    BY DEF Blank, Nothing
  <1>3. polls' \subseteq polls
    BY DEF Leave
  <1> QED
    BY <1>1, <1>2, <1>3 DEF Revoked, OnePoll

\* A poll that ends changes the view of its tab only.
LEMMA EndPollViews ==
  ASSUME TypeOK, NEW p \in polls, EndPoll(p), NEW u \in Tabs
  PROVE  tab'[u].view = tab[u].view \/ (u = p.tab /\ tab'[u].view = p.view)
  <1>1. p.tab \in Tabs
    BY DEF TypeOK
  <1> DEFINE r == [tab[p.tab] EXCEPT !.view = p.view]
  <1>2. r.view = p.view
    BY <1>1 DEF TypeOK, TabType
  <1>3. tab' = tab \/ tab' = [tab EXCEPT ![p.tab] = r]
    BY DEF EndPoll
  <1> HIDE DEF r
  <1>4. CASE tab' = [tab EXCEPT ![p.tab] = r]
    <2>1. CASE u = p.tab
      <3>1. tab'[u] = r
        BY <1>1, <1>4, <2>1 DEF TypeOK
      <3> QED
        BY <1>2, <2>1, <3>1
    <2>2. CASE u # p.tab
      <3>1. tab'[u] = tab[u]
        BY <1>4, <2>2 DEF TypeOK
      <3> QED
        BY <3>1
    <2> QED
      BY <2>1, <2>2
  <1>5. CASE tab' = tab
    BY <1>5
  <1> QED
    BY <1>3, <1>4, <1>5

LEMMA StepRevoked ==
  Settled /\ [Next]_vars => OnePoll' /\ \A k \in Keys : Revoked(k)'
  <1> SUFFICES ASSUME Settled, [Next]_vars
      PROVE OnePoll' /\ \A k \in Keys : Revoked(k)'
    OBVIOUS
  <1>0. TypeOK /\ OnePoll /\ \A k \in Keys : Revoked(k)
    BY DEF Settled
  <1>1. OnePoll'
    <2>1. CASE polls' \subseteq polls
      BY <1>0, <2>1 DEF OnePoll
    <2>2. ASSUME NEW t \in Tabs, Poll(t) PROVE OnePoll'
      BY <1>0, <2>2 DEF OnePoll, Poll
    <2> QED
      BY <2>1, <2>2 DEF Next, vars, Expire, EndPoll, Visit, Submit, Redirect,
           PageArrives, Refuse, Change, LoadPage, LoadFails, ChangeAlone, Leave
  <1> SUFFICES ASSUME NEW k \in Keys PROVE Revoked(k)'
    BY <1>1
  <1>2. Revoked(k) /\ k \in Rows
    BY <1>0 DEF Rows
  <1>3. rows[k] = "disabled" => rows'[k] = "disabled"
    BY <1>0, RevokedInTable
  <1>4. Nothing[k] # "disabled" /\ Shown[k] = rows[k]
    BY DEF Nothing, Shown
  <1>5. CASE UNCHANGED <<tab, polls, request>>
    BY <1>2, <1>3, <1>5 DEF Revoked
  <1>6. ASSUME NEW t \in Tabs, NEW r, request' = [request EXCEPT ![t] = r],
               r.view[k] = "disabled" => rows[k] = "disabled"
        PROVE  \A u \in Tabs : request'[u].view[k] = "disabled"
                                   => rows'[k] = "disabled"
    <2>1. \A u \in Tabs : request'[u] = IF u = t THEN r ELSE request[u]
      BY <1>0, <1>6 DEF TypeOK
    <2> QED
      BY <1>2, <1>3, <1>6, <2>1 DEF Revoked
  <1>7. Idle.view[k] # "disabled"
    BY <1>4 DEF Idle
  <1>8. ASSUME NEW t \in Tabs, NEW does, NEW row, NEW token,
               Send(t, does, row, token)
        PROVE  \A u \in Tabs : request'[u].view[k] = "disabled"
                                   => rows'[k] = "disabled"
    <2> DEFINE r == [Idle EXCEPT !.at = "sent", !.does = does, !.row = row,
                                 !.cookie = jar, !.token = token]
    <2>1. r.view[k] # "disabled"
      BY <1>4 DEF Idle
    <2>2. request' = [request EXCEPT ![t] = r]
      BY <1>8 DEF Send
    <2> HIDE DEF r
    <2> QED
      BY <1>6, <2>1, <2>2
  <1>9. ASSUME NEW t \in Tabs, Visit(t) \/ Redirect(t) PROVE Revoked(k)'
    <2>1. Leave(t) /\ Send(t, "load", None, None) /\ UNCHANGED rows
      BY <1>9 DEF Visit, Redirect
    <2> QED
      BY <1>0, <1>2, <1>8, <2>1, LeaveRevoked DEF Revoked
  <1>10. ASSUME NEW t \in Tabs, Refuse(t) \/ LoadFails(t) PROVE Revoked(k)'
    <2>1. Leave(t) /\ request' = [request EXCEPT ![t] = Idle] /\ UNCHANGED rows
      BY <1>10 DEF Refuse, LoadFails, Done
    <2> QED
      BY <1>0, <1>2, <1>6, <1>7, <2>1, LeaveRevoked DEF Revoked
  <1>11. ASSUME NEW t \in Tabs, Submit(t) PROVE Revoked(k)'
    <2>1. \E does \in {"create", "add", "disable"}, row \in Rows \cup {None} :
            Send(t, does, row, tab[t].token)
      BY <1>11 DEF Submit, Rows
    <2>2. UNCHANGED <<tab, polls>>
      BY <1>11 DEF Submit
    <2> QED
      BY <1>2, <1>3, <1>8, <2>1, <2>2 DEF Revoked
  <1>12. ASSUME NEW t \in Tabs, Change(t) PROVE Revoked(k)'
    <2> PICK r \in Rows :
            request' = [request EXCEPT ![t] =
                [at |-> Answered(@.does), does |-> @.does, row |-> r,
                 cookie |-> @.cookie, token |-> @.token, view |-> @.view]]
      BY <1>12 DEF Change
    <2> DEFINE q == [at |-> Answered(request[t].does), does |-> request[t].does,
                     row |-> r, cookie |-> request[t].cookie,
                     token |-> request[t].token, view |-> request[t].view]
    <2>1. q.view = request[t].view
      OBVIOUS
    <2>2. request' = [request EXCEPT ![t] = q]
      OBVIOUS
    <2>3. UNCHANGED <<tab, polls>>
      BY <1>12 DEF Change
    <2> HIDE DEF q
    <2>4. q.view[k] = "disabled" => rows[k] = "disabled"
      BY <1>2, <2>1 DEF Revoked
    <2> QED
      BY <1>2, <1>3, <1>6, <2>2, <2>3, <2>4 DEF Revoked
  <1>13. ASSUME NEW t \in Tabs, LoadPage(t) PROVE Revoked(k)'
    <2> PICK c \in IssueCSRFToken(t) :
            request' = [request EXCEPT ![t] =
                  [at |-> "page", does |-> @.does, row |-> @.row,
                   cookie |-> @.cookie, token |-> c, view |-> Shown]]
      BY <1>13 DEF LoadPage
    <2> DEFINE q == [at |-> "page", does |-> request[t].does,
                     row |-> request[t].row, cookie |-> request[t].cookie,
                     token |-> c, view |-> Shown]
    <2>1. q.view = Shown
      OBVIOUS
    <2>2. request' = [request EXCEPT ![t] = q]
      OBVIOUS
    <2>3. UNCHANGED <<tab, polls>>
      BY <1>13 DEF LoadPage
    <2> HIDE DEF q
    <2> QED
      BY <1>2, <1>3, <1>4, <1>6, <2>1, <2>2, <2>3 DEF Revoked
  <1>14. ASSUME NEW t \in Tabs, PageArrives(t) PROVE Revoked(k)'
    <2> DEFINE r == [at |-> "open", token |-> request[t].token,
                     view |-> request[t].view]
    <2>1. r.view = request[t].view
      OBVIOUS
    <2>2. tab' = [tab EXCEPT ![t] = r] /\ UNCHANGED rows
          /\ polls' = {p \in polls : p.tab # t}
          /\ request' = [request EXCEPT ![t] = Idle]
      BY <1>14 DEF PageArrives, Done
    <2> HIDE DEF r
    <2>3. \A u \in Tabs : tab'[u] = IF u = t THEN r ELSE tab[u]
      BY <1>0, <2>2 DEF TypeOK
    <2>4. \A u \in Tabs : request'[u].view[k] = "disabled"
                              => rows'[k] = "disabled"
      BY <1>6, <1>7, <2>2
    <2> QED
      BY <1>2, <2>1, <2>2, <2>3, <2>4 DEF Revoked
  <1>15. ASSUME NEW t \in Tabs, Poll(t) PROVE Revoked(k)'
    <2>1. polls' = polls \cup {[tab |-> t, view |-> Shown]}
          /\ UNCHANGED <<rows, tab, request>>
      BY <1>15 DEF Poll
    <2> QED
      BY <1>2, <1>4, <2>1 DEF Revoked
  <1>16. ASSUME NEW p \in polls, EndPoll(p) PROVE Revoked(k)'
    <2>1. p.tab \in Tabs
      BY <1>0 DEF TypeOK
    <2>2. \A u \in Tabs : tab'[u].view[k] = tab[u].view[k]
                          \/ (u = p.tab /\ tab'[u].view[k] = p.view[k])
      BY <1>0, <1>16, EndPollViews
    <2>3. polls' = polls \ {p} /\ UNCHANGED <<rows, request>>
      BY <1>16 DEF EndPoll
    <2> QED
      BY <1>0, <1>2, <2>2, <2>3 DEF Revoked, OnePoll
  <1> QED
    BY <1>5, <1>9, <1>10, <1>11, <1>12, <1>13, <1>14, <1>15, <1>16
    DEF Next, vars, Expire, ChangeAlone

-----------------------------------------------------------------------------
LEMMA SettledAlways == Spec => []Settled
  <1>1. Settled /\ [Next]_vars => Settled'
    BY StepTyped, StepPlaced, StepFate, StepRevoked DEF Settled
  <1> QED
    BY InitSettled, <1>1, PTL DEF Spec

\* Every variable keeps its type; a page that is open has a form token that
\* some response drew.
THEOREM PagesTyped == Spec => []TypeOK
  <1>1. Settled => TypeOK
    BY DEF Settled
  <1> QED
    BY SettledAlways, <1>1, PTL

\* A key that is in the table was told to one tab or script, or is on its way
\* to one, or its answer was lost (createKey, renderDashboard).
THEOREM KeysToldOnce == Spec => []KeyToldOnce
  <1>1. Settled => KeyToldOnce
    <2> SUFFICES ASSUME Settled, NEW k \in Keys
        PROVE  told[k] + (IF k \in unseen THEN 1 ELSE 0)
               + Cardinality({t \in Tabs : /\ request[t].does = "create"
                                           /\ request[t].row = k})
               = IF rows[k] = "absent" THEN 0 ELSE 1
      BY DEF KeyToldOnce
    <2> DEFINE C == {t \in Tabs : /\ request[t].does = "create"
                                  /\ request[t].row = k}
    <2>1. Fate(k)
      BY DEF Settled
    <2>2. CASE \A t \in Tabs : ~Creates(t, k)
      <3>1. C = {}
        BY <2>2 DEF Creates
      <3>2. Cardinality(C) = 0
        BY <3>1, FS_EmptySet
      <3> QED
        BY <2>1, <2>2, <3>2 DEF Fate
    <2>3. ASSUME NEW t \in Tabs, \A u \in Tabs : Creates(u, k) <=> u = t
          PROVE  /\ Cardinality(C) = 1
                 /\ rows[k] # "absent" /\ told[k] = 0 /\ k \notin unseen
      <3>1. C = {t}
        BY <2>3 DEF Creates
      <3>2. Cardinality(C) = 1
        BY <3>1, FS_Singleton
      <3> QED
        BY <2>1, <2>3, <3>2 DEF Fate
    <2> QED
      BY <2>1, <2>2, <2>3 DEF Fate
  <1> QED
    BY SettledAlways, <1>1, PTL

\* Tabs of one browser do not invalidate each other's forms (issueCSRFToken
\* keeps a cookie that came with the request).
THEOREM FormsValid == Spec => FormsStayValid
  <1> DEFINE A == \A t \in Tabs :
          tab'[t].at = "open" /\ tab'[t].token # jar' =>
              \/ tab[t].at = "open" /\ tab[t].token # jar
              \/ jar' = None
              \/ request[t].at = "page" /\ request[t].cookie # jar
              \/ \E u \in Tabs \ {t} :
                    /\ request[u].at = "page" /\ request[u].cookie = None
                    /\ request'[u] = Idle
  <1>1. Settled /\ [Next]_vars => [A]_vars
    <2> SUFFICES ASSUME Settled, Next PROVE A
      BY DEF vars
    <2>0. TypeOK /\ \A t \in Tabs : Placed(t)
      BY DEF Settled
    <2>1. ASSUME NEW u \in Tabs, PageArrives(u) PROVE A
      <3>1. \A t \in Tabs \ {u} : tab'[t] = tab[t]
        BY <2>0, <2>1 DEF PageArrives, TypeOK
      <3>2. tab'[u].token = request[u].token /\ request'[u] = Idle
        BY <2>0, <2>1 DEF PageArrives, Done, TypeOK
      <3>3. jar' = IF request[u].cookie = None THEN request[u].token ELSE jar
        BY <2>1 DEF PageArrives
      <3>4. request[u].at = "page"
            /\ (request[u].cookie # None => request[u].token = request[u].cookie)
        BY <2>0, <2>1 DEF PageArrives, Placed
      <3> QED
        BY <3>1, <3>2, <3>3, <3>4
    <2>2. ASSUME NEW u \in Tabs, Leave(u), UNCHANGED jar PROVE A
      <3>1. \A t \in Tabs : tab'[t] = tab[t] \/ tab'[t].at # "open"
        BY <2>0, <2>2 DEF Leave, Blank, TypeOK
      <3> QED
        BY <2>2, <3>1
    <2>3. CASE UNCHANGED <<tab, jar>>
      BY <2>3
    <2>4. CASE Expire
      BY <2>4 DEF Expire
    <2>5. ASSUME NEW p \in polls, EndPoll(p) PROVE A
      <3>1. \A t \in Tabs : tab'[t].at = tab[t].at /\ tab'[t].token = tab[t].token
        BY <2>0, <2>5 DEF EndPoll, TypeOK, TabType
      <3> QED
        BY <2>5, <3>1 DEF EndPoll
    <2> QED
      BY <2>1, <2>2, <2>3, <2>4, <2>5
      DEF Next, Visit, Submit, Redirect, Refuse, Change, LoadPage, LoadFails, Poll,
          ChangeAlone
  <1> QED
    BY SettledAlways, <1>1, PTL DEF Spec, FormsStayValid

\* What a page shows as revoked never comes back: one poll at a time, and an
\* answer that is late for a page that has gone is dropped (refresh of
\* dashboard.js).
THEOREM RevokedStays == Spec => RevokedStaysRevoked
  <1> DEFINE A == \A t \in Tabs, k \in Keys :
          tab[t].view[k] = "disabled" /\ UNCHANGED request =>
              tab'[t].view[k] # "enabled"
  <1>1. Settled /\ [Next]_vars => [A]_vars
    <2> SUFFICES ASSUME Settled, Next, NEW t \in Tabs, NEW k \in Keys,
                        tab[t].view[k] = "disabled", UNCHANGED request
        PROVE  tab'[t].view[k] # "enabled"
      BY DEF vars
    <2>0. TypeOK /\ Revoked(k) /\ \A u \in Tabs : request[u] \in RequestType
      BY DEF Settled, TypeOK
    <2>1. CASE tab' = tab
      BY <2>1
    <2>2. ASSUME NEW u \in Tabs, Leave(u) PROVE tab'[t].view[k] # "enabled"
      <3>1. tab'[t] = tab[t] \/ tab'[t] = Blank
        BY <2>0, <2>2 DEF Leave, TypeOK
      <3> QED
        BY <3>1 DEF Blank, Nothing
    <2>3. ASSUME NEW u \in Tabs, PageArrives(u) PROVE FALSE
      <3>1. request'[u].at = "idle" /\ request[u].at = "page"
        BY <2>0, <2>3 DEF PageArrives, Done, Idle, TypeOK
      <3> QED
        BY <3>1
    <2>4. ASSUME NEW p \in polls, EndPoll(p) PROVE tab'[t].view[k] # "enabled"
      <3>1. tab'[t].view[k] = tab[t].view[k]
            \/ (t = p.tab /\ tab'[t].view[k] = p.view[k])
        BY <2>0, <2>4, EndPollViews
      <3> QED
        BY <2>0, <3>1 DEF Revoked
    <2> QED
      BY <2>1, <2>2, <2>3, <2>4
      DEF Next, Visit, Submit, Redirect, Refuse, Change, LoadPage, LoadFails, Poll,
          ChangeAlone, Expire
  <1> QED
    BY SettledAlways, <1>1, PTL DEF Spec, RevokedStaysRevoked

=============================================================================
