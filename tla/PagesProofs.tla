----------------------------- MODULE PagesProofs -----------------------------
(* Theorems about the pages, for any teams and queries and any bounds on    *)
(* what the user does.                                                      *)
EXTENDS Pages, TLAPS

----------------------------------------------------------------------------
(* The subscriptions.                                                       *)

\* A follow creates a row, or finds it.
LEMMA CreateRow ==
    ASSUME SubsTypeOK, NEW t \in Team, CreateSubscription(t)
    PROVE  /\ subs' \in [Team -> Rows \cup {Nothing}] /\ lastId' \in Nat
           /\ \A u \in Team : subs'[u] # Nothing => subs'[u].id <= lastId'
           /\ version' \in {version, version + 1}
           /\ subs'[t] # Nothing
           /\ \A u \in Team : subs[u] # Nothing => subs'[u] = subs[u]
<1> USE PagesAssumption DEF SubsTypeOK
<1>1. CASE subs[t] = Nothing
  <2> DEFINE row == [id |-> lastId + 1, on |-> TRUE]
  <2>1. row \in Rows /\ row.id = lastId + 1
    BY DEF Rows
  <2>2. subs' = [subs EXCEPT ![t] = row] /\ lastId' = lastId + 1 /\ version' = version + 1
    BY <1>1 DEF CreateSubscription
  <2>3. \A u \in Team : subs[u] # Nothing => subs[u].id \in Nat
    BY DEF Rows
  <2> HIDE DEF row
  <2> QED
    BY <1>1, <2>1, <2>2, <2>3
<1>2. CASE subs[t] # Nothing
  BY <1>2 DEF CreateSubscription, rowVars
<1> QED
  BY <1>1, <1>2

\* A preference is stored in the row it is for, and nowhere else.
LEMMA UpdateRow ==
    ASSUME SubsTypeOK, NEW t \in Team, NEW id \in Nat, NEW value \in BOOLEAN,
           UpdateSubscription(t, id, value)
    PROVE  /\ subs' \in [Team -> Rows \cup {Nothing}]
           /\ UNCHANGED <<lastId, version>>
           /\ \A u \in Team : subs'[u] # Nothing => subs[u] # Nothing /\ subs'[u].id = subs[u].id
           /\ \A u \in Team : subs[u] # Nothing => subs'[u] # Nothing
           /\ \A u \in Team : u # t => subs'[u] = subs[u]
<1> USE PagesAssumption DEF SubsTypeOK
<1>1. CASE Exists(t, id)
  <2> DEFINE row == [subs[t] EXCEPT !.on = value]
  <2>1. subs[t] \in Rows
    BY <1>1 DEF Exists
  <2>2. row \in Rows /\ row.id = subs[t].id
    BY <2>1 DEF Rows
  <2>3. subs' = [subs EXCEPT ![t] = row] /\ UNCHANGED <<lastId, version>>
    BY <1>1 DEF UpdateSubscription
  <2> HIDE DEF row
  <2> QED
    BY <1>1, <2>1, <2>2, <2>3 DEF Exists
<1>2. CASE ~ Exists(t, id)
  BY <1>2 DEF UpdateSubscription
<1> QED
  BY <1>1, <1>2

\* An unfollow takes one row away.
LEMMA DeleteRow ==
    ASSUME SubsTypeOK, NEW t \in Team, NEW id \in Nat, DeleteSubscription(t, id)
    PROVE  /\ subs' \in [Team -> Rows \cup {Nothing}]
           /\ lastId' = lastId /\ version' \in {version, version + 1}
           /\ \A u \in Team : subs'[u] # Nothing => subs'[u] = subs[u]
           /\ \A u \in Team : u # t => subs'[u] = subs[u]
  BY PagesAssumption DEF SubsTypeOK, DeleteSubscription

\* Another device adds a row, takes one away or changes one.
LEMMA ElsewhereType ==
    ASSUME SubsTypeOK, NEW t \in Team, Elsewhere(t)
    PROVE  SubsTypeOK' /\ version' \in {version, version + 1}
<1> USE PagesAssumption DEF SubsTypeOK
<1>0. kept' \in [Team -> BOOLEAN \cup {Nothing}] /\ elsewhere' \in 0..MaxElsewhere
  BY DEF Elsewhere
<1>1. CASE subs[t] = Nothing
  <2>1. CreateSubscription(t) /\ UNCHANGED gone
    BY <1>1 DEF Elsewhere
  <2> QED
    BY <1>0, <2>1, CreateRow
<1>2. CASE subs[t] # Nothing
  <2>1. subs[t] \in Rows /\ subs[t].id \in Nat
    BY <1>2 DEF Rows
  <2>4. (~subs[t].on) \in BOOLEAN
    OBVIOUS
  <2>2. CASE DeleteSubscription(t, subs[t].id) /\ gone' = gone \cup {t}
    BY <1>0, <2>1, <2>2, DeleteRow
  <2>3. CASE UpdateSubscription(t, subs[t].id, ~subs[t].on) /\ UNCHANGED gone
    BY <1>0, <2>1, <2>3, <2>4, UpdateRow
  <2> QED
    BY <1>2, <2>2, <2>3 DEF Elsewhere
<1> QED
  BY <1>1, <1>2

----------------------------------------------------------------------------
(* The steps, page by page.                                                 *)

Elsewheres == /\ \E t \in Team : Elsewhere(t)
              /\ UNCHANGED <<visits, matchVars, searchVars, settingsVars, dashVars>>

MatchStep == /\ UNCHANGED <<subsVars, searchVars, settingsVars, dashVars>>
             /\ \/ NoPage /\ Open
                \/ (Close \/ Load \/ Toggle \/ MatchServe \/ MuteElsewhere) /\ UNCHANGED visits

SearchStep == /\ UNCHANGED <<matchVars, settingsVars, dashVars>>
              /\ \/ NoPage /\ OpenSearch
                 \/ (SearchNext \/ FollowServe) /\ UNCHANGED visits

SettingsStep == /\ UNCHANGED <<matchVars, searchVars, dashVars>>
                /\ \/ NoPage /\ OpenSettings
                   \/ (SettingsNext \/ SettingsServe) /\ UNCHANGED visits

DashStep == /\ UNCHANGED <<matchVars, searchVars, settingsVars>>
            /\ \/ NoPage /\ OpenDashboard
               \/ DashNext /\ UNCHANGED visits

\* A step is one page's, with the requests it has sent, or another device's.
LEMMA Steps == [Next]_vars => \/ Elsewheres \/ MatchStep \/ SearchStep \/ SettingsStep \/ DashStep
                              \/ UNCHANGED vars
<1> SUFFICES ASSUME [Next]_vars
             PROVE  \/ Elsewheres \/ MatchStep \/ SearchStep \/ SettingsStep \/ DashStep
                    \/ UNCHANGED vars
  OBVIOUS
<1> USE DEF OnMatch, OnSearch, OnSettings, OnDashboard
<1>1. CASE Visit
  BY <1>1 DEF Visit, MatchStep, SearchStep, SettingsStep, DashStep
<1>2. CASE Use
  BY <1>2 DEF Use, MatchStep, SearchStep, SettingsStep, DashStep
<1>3. CASE Serve
  BY <1>3 DEF Serve, MatchStep, SearchStep, SettingsStep
<1>4. CASE OtherDevice
  BY <1>4 DEF OtherDevice, Elsewheres, MatchStep
<1> QED
  BY <1>1, <1>2, <1>3, <1>4 DEF Next

----------------------------------------------------------------------------
(* The dashboard.                                                           *)

\* The latest read brings nothing older than what was seen, and no other read has
\* its number; a page that is closed has none on its way.
DashInv ==
    /\ DashTypeOK /\ version \in Nat
    /\ \A r \in dashReads : /\ r.n <= dashRead
                            /\ LatestRead(r) /\ r.answer # Nothing => r.answer >= seen
    /\ \A r, s \in dashReads : r.n = s.n => r = s
    /\ ~dashOpen => dashReads = {} /\ matches = Nothing
    /\ RefreshingHonest /\ DashboardForward

\* The dashboard's own steps keep it.
LEMMA DashOwn == SubsTypeOK /\ DashInv /\ DashStep => DashInv'
<1> SUFFICES ASSUME SubsTypeOK, DashInv, DashStep PROVE DashInv'
  OBVIOUS
<1> USE PagesAssumption DEF DashTypeOK, SubsTypeOK, RefreshingHonest, DashboardForward, LatestRead
<1>1. CASE OpenDashboard
  <2> DEFINE r == [n |-> 1, answer |-> Nothing]
  <2>1. r \in [n : 1..MaxDashReads, answer : (0..version) \cup {Nothing}] /\ r.n = 1
        /\ r.answer = Nothing
    OBVIOUS
  <2>2. dashReads' = {r}
    BY <1>1 DEF OpenDashboard
  <2> HIDE DEF r
  <2> QED
    BY <1>1, <2>1, <2>2 DEF OpenDashboard, DashInv, rowVars
<1>2. CASE CloseDashboard
  <2>1. /\ dashReads' = {} /\ matches' = Nothing /\ dashRead' = 0 /\ seen' = 0
        /\ dashOpen' = FALSE /\ updating' = FALSE /\ version' = version
    BY <1>2 DEF CloseDashboard, subsVars, rowVars
  <2>3. RefreshingHonest' /\ DashboardForward'
    BY <2>1
  <2>4. dashOpen' \in BOOLEAN /\ updating' \in BOOLEAN
    BY <2>1
  <2>5. 0 \in 0..MaxDashReads /\ 0 \in 0..version
    OBVIOUS
  <2>6. {dashOpen', updating'} \subseteq BOOLEAN
    BY <2>4
  <2>2. DashTypeOK'
    BY <2>1, <2>5, <2>6
  <2> QED
    BY <2>1, <2>2, <2>3 DEF DashInv
<1>3. CASE Refresh
  <2> DEFINE r == [n |-> dashRead + 1, answer |-> Nothing]
  <2>1. r \in [n : 1..MaxDashReads, answer : (0..version) \cup {Nothing}] /\ r.n = dashRead + 1
        /\ r.answer = Nothing
    BY <1>3 DEF Refresh, DashInv
  <2>2. dashReads' = dashReads \cup {r}
    BY <1>3 DEF Refresh
  <2> HIDE DEF r
  <2> QED
    BY <1>3, <2>1, <2>2 DEF Refresh, DashInv, subsVars, rowVars
<1>4. ASSUME NEW r \in dashReads, ServeDashboard(r) PROVE DashInv'
  <2> DEFINE s == [r EXCEPT !.answer = version]
  <2>1. s \in [n : 1..MaxDashReads, answer : (0..version) \cup {Nothing}] /\ s.n = r.n
        /\ s.answer = version
    BY DEF DashInv
  <2>2. dashReads' = (dashReads \ {r}) \cup {s} /\ version' = version
    BY <1>4 DEF ServeDashboard, subsVars, rowVars
  <2> HIDE DEF s
  <2> QED
    BY <1>4, <2>1, <2>2 DEF ServeDashboard, DashInv
<1>5. ASSUME NEW r \in dashReads, EndRefresh(r) PROVE DashInv'
  <2>1. r.answer \in (0..version) \cup {Nothing} /\ version' = version
    BY <1>5 DEF EndRefresh, DashInv, subsVars, rowVars
  <2>2. CASE LatestRead(r)
    <3>1. /\ dashReads' = dashReads \ {r} /\ updating' = FALSE /\ dashRead' = dashRead
          /\ dashOpen' = dashOpen
          /\ matches' \in {matches} \cup ({r.answer} \ {Nothing})
          /\ seen' = IF matches' = Nothing \/ matches' < seen THEN seen ELSE matches'
      BY <1>5, <2>2 DEF EndRefresh
    <3>2. \A s \in dashReads' : ~ LatestRead(s)'
      BY <2>2, <3>1 DEF DashInv
    <3>3. DashboardForward'
      BY <2>1, <2>2, <3>1 DEF DashInv
    <3>4. DashTypeOK'
      BY <2>1, <2>2, <3>1 DEF DashInv
    <3> QED
      BY <2>1, <3>1, <3>2, <3>3, <3>4 DEF DashInv
  <2>3. CASE ~ LatestRead(r)
    BY <1>5, <2>1, <2>3 DEF EndRefresh, DashInv
  <2> QED
    BY <2>2, <2>3
<1> QED
  BY <1>1, <1>2, <1>3, <1>4, <1>5 DEF DashStep, DashNext

\* What happens elsewhere only makes the version larger.
LEMMA DashOther ==
    ASSUME DashInv, UNCHANGED dashVars, version' \in {version, version + 1}
    PROVE  DashInv'
  BY PagesAssumption
  DEF DashInv, DashTypeOK, RefreshingHonest, DashboardForward, LatestRead, dashVars

----------------------------------------------------------------------------
(* The search page: searches.                                               *)

\* Answers come to searches that were started: to the latest one, which is for the
\* query in the field, or to older ones.
TypingInv ==
    /\ \A r \in replies : r.id <= sequence /\ (Latest(r) => r.query = q)
    /\ active # Nothing => Latest(active)
    /\ ~open => replies = {} /\ active = Nothing /\ results = Nothing
    /\ LoadingHonest /\ ResultsAnswerQuery

\* The steps of the search page keep it.
LEMMA TypingOwn == SearchTypeOK /\ TypingInv /\ SearchStep => TypingInv'
<1> SUFFICES ASSUME SearchTypeOK, TypingInv, SearchStep PROVE TypingInv'
  OBVIOUS
<1> USE PagesAssumption DEF Latest, LoadingHonest, ResultsAnswerQuery
<1>0. active # Nothing => q # Nothing
  BY DEF SearchTypeOK, TypingInv, Searches
<1>2. CASE OpenSearch
  BY <1>2 DEF OpenSearch, TypingInv, typing
<1>3. CASE CloseSearch
  BY <1>3 DEF CloseSearch, TypingInv
<1>4. CASE Type
  <2>1. /\ active' = Nothing /\ loading' = FALSE /\ results' = Nothing
        /\ UNCHANGED <<open, replies>> /\ open
    BY <1>0, <1>4 DEF Type, Cancel, TypingInv
  <2>2. \A r \in replies : ~ Latest(r)'
    BY <1>4 DEF Type, Cancel, TypingInv, SearchTypeOK, Searches
  <2>3. \A r \in replies : r.id <= sequence'
    BY <1>4 DEF Type, Cancel, TypingInv, SearchTypeOK, Searches
  <2> QED
    BY <2>1, <2>2, <2>3 DEF TypingInv
<1>5. CASE Start
  <2> DEFINE r == [id |-> sequence + 1, query |-> q]
  <2>1. r \in Searches /\ r.id = sequence + 1 /\ r.query = q
    BY <1>5 DEF Start, SearchTypeOK, Searches
  <2>2. active' = r /\ replies' = replies \cup {r} /\ loading' = TRUE
    BY <1>5 DEF Start
  <2> HIDE DEF r
  <2>3. \A s \in replies : s.id \in Nat /\ s.id <= sequence
    BY DEF TypingInv, SearchTypeOK, Searches
  <2>4. /\ sequence' = sequence + 1 /\ sequence \in Nat
        /\ UNCHANGED <<open, q, results>> /\ open
    BY <1>5 DEF Start, SearchTypeOK
  <2> QED
    BY <2>1, <2>2, <2>3, <2>4 DEF TypingInv
<1>6. CASE TimeOut
  BY <1>6 DEF TimeOut, Finish, TypingInv
<1>7. CASE Select
  <2>1. /\ sequence' = sequence + 1 /\ sequence \in Nat
        /\ active' = Nothing /\ loading' = FALSE
        /\ UNCHANGED <<open, q, replies, results>> /\ open
    BY <1>7 DEF Select, Cancel, SearchTypeOK
  <2>2. \A r \in replies : r.id \in Nat /\ r.id <= sequence
    BY DEF TypingInv, SearchTypeOK, Searches
  <2> QED
    BY <2>1, <2>2 DEF TypingInv
<1>8. ASSUME NEW r \in replies, Answered(r) PROVE TypingInv'
  BY <1>8 DEF Answered, Finish, TypingInv, SearchTypeOK, Searches
<1>9. ASSUME NEW r \in replies, Failed(r) PROVE TypingInv'
  BY <1>9 DEF Failed, Finish, TypingInv
<1>10. CASE UNCHANGED <<open, typing, results>>
  BY <1>10 DEF TypingInv, typing
<1>11. CASE (\E t \in Team : Follow(t)) \/ FollowServe
  BY <1>10, <1>11 DEF Follow, FollowServe, StoreFollow, AckFollow, FailFollow
<1> QED
  BY <1>2, <1>3, <1>4, <1>5, <1>6, <1>7, <1>8, <1>9, <1>11 DEF SearchStep, SearchNext

----------------------------------------------------------------------------
(* The search page: follows.                                                *)

Left(f) == [f EXCEPT !.mine = FALSE]

Stored(f) == [f EXCEPT !.stored = TRUE]

Sent(t) == [n |-> lastFollow + 1, team |-> t, stored |-> FALSE, mine |-> TRUE]

\* A follow is one of a team, and stays so.
LEMMA FollowFields ==
    ASSUME NEW f \in Follows
    PROVE  /\ f.team \in Team
           /\ Left(f) \in Follows /\ Left(f).team = f.team /\ ~Left(f).mine
           /\ Stored(f) \in Follows /\ Stored(f).team = f.team /\ Stored(f).mine = f.mine
  BY DEF Follows, Left, Stored

\* A new follow.
LEMMA NewFollow ==
    ASSUME lastFollow + 1 \in 1..MaxFollows, NEW t \in Team
    PROVE  Sent(t) \in Follows /\ Sent(t).team = t /\ ~Sent(t).stored /\ Sent(t).mine
  BY DEF Follows, Sent

\* The variables of the search page keep their types.
LEMMA SearchType == SearchTypeOK /\ SearchStep => SearchTypeOK'
<1> SUFFICES ASSUME SearchTypeOK, SearchStep PROVE SearchTypeOK'
  OBVIOUS
<1> USE PagesAssumption DEF SearchTypeOK
<1>1. CASE OpenSearch
  BY <1>1 DEF OpenSearch, typing, following
<1>2. CASE CloseSearch
  <2>1. follows' = {Left(f) : f \in {g \in follows : ~g.stored}}
    BY <1>2 DEF CloseSearch, Left
  <2>2. follows' \subseteq Follows
    BY <2>1, FollowFields
  <2>3. open' \in BOOLEAN /\ debounce' \in BOOLEAN /\ loading' \in BOOLEAN
    BY <1>2 DEF CloseSearch
  <2>4. /\ q' = Nothing /\ sequence' = 0 /\ active' = Nothing /\ replies' = {}
        /\ results' = Nothing /\ marked' = {} /\ lastFollow' = lastFollow
    BY <1>2 DEF CloseSearch
  <2> QED
    BY <2>2, <2>3, <2>4
<1>3. CASE Type
  <2>1. debounce' \in BOOLEAN /\ loading' \in BOOLEAN
    BY <1>3 DEF Type
  <2>2. /\ q' \in Query \cup {Nothing} /\ results' = Nothing /\ marked' = {}
        /\ UNCHANGED <<open, replies, following>>
    BY <1>3 DEF Type
  <2>3. sequence' \in 0..MaxSearches /\ active' \in {active, Nothing}
    BY <1>3 DEF Type, Cancel
  <2> QED
    BY <2>1, <2>2, <2>3 DEF following
<1>4. CASE Start
  <2> DEFINE r == [id |-> sequence + 1, query |-> q]
  <2>1. r \in Searches
    BY <1>4 DEF Start, Searches
  <2>2. active' = r /\ replies' = replies \cup {r}
    BY <1>4 DEF Start
  <2> HIDE DEF r
  <2>3. debounce' \in BOOLEAN /\ loading' \in BOOLEAN
    BY <1>4 DEF Start
  <2>4. sequence' \in 0..MaxSearches /\ UNCHANGED <<open, q, results, marked, following>>
    BY <1>4 DEF Start
  <2> QED
    BY <2>1, <2>2, <2>3, <2>4 DEF following
<1>5. CASE TimeOut
  BY <1>5 DEF TimeOut, Finish, following
<1>6. CASE Select
  <2>1. debounce' \in BOOLEAN /\ loading' \in BOOLEAN
    BY <1>6 DEF Select
  <2>2. /\ sequence' \in 0..MaxSearches /\ active' = Nothing
        /\ UNCHANGED <<open, q, replies, results, marked, following>>
    BY <1>6 DEF Select, Cancel
  <2> QED
    BY <2>1, <2>2 DEF following
<1>7. ASSUME NEW r \in replies, Answered(r) \/ Failed(r) PROVE SearchTypeOK'
  BY <1>7 DEF Answered, Failed, Finish, Searches, following
<1>8. ASSUME NEW t \in Team, Follow(t) PROVE SearchTypeOK'
  <2>1. lastFollow' = lastFollow + 1 /\ lastFollow + 1 \in 1..MaxFollows
    BY <1>8 DEF Follow
  <2>2. follows' \subseteq Follows
    BY <1>8, <2>1, NewFollow DEF Follow, Sent
  <2> QED
    BY <1>8, <2>1, <2>2 DEF Follow, typing
<1>9. ASSUME NEW f \in follows, StoreFollow(f) \/ AckFollow(f) \/ FailFollow(f) PROVE SearchTypeOK'
  <2>1. follows' \in {follows \ {f}, (follows \ {f}) \cup {Left(f)}, (follows \ {f}) \cup {Stored(f)}}
    BY <1>9 DEF StoreFollow, AckFollow, FailFollow, Left, Stored
  <2>3. follows' \subseteq Follows
    BY <2>1, FollowFields
  <2>2. marked' \subseteq Team
    BY <1>9 DEF StoreFollow, AckFollow, FailFollow, Rollback
  <2> QED
    BY <1>9, <2>3, <2>2 DEF StoreFollow, AckFollow, FailFollow, typing
<1> QED
  BY <1>1, <1>2, <1>3, <1>4, <1>5, <1>6, <1>7, <1>8, <1>9 DEF SearchStep, SearchNext, FollowServe

\* What the page knows to be stored is stored, until it is seen to go.
FollowInv ==
    /\ \A f \in follows : f.mine /\ f.stored => subs[f.team] # Nothing \/ f.team \in gone
    /\ ~open => marked = {} /\ \A f \in follows : ~f.mine
    /\ FollowHonest

\* The steps of the search page keep it.
LEMMA FollowOwn == SubsTypeOK /\ SearchTypeOK /\ FollowInv /\ SearchStep => FollowInv'
<1> SUFFICES ASSUME SubsTypeOK, SearchTypeOK, FollowInv, SearchStep PROVE FollowInv'
  OBVIOUS
<1> USE PagesAssumption DEF FollowHonest
<1>0. \A f \in follows : f \in Follows /\ f.team \in Team
  BY DEF SearchTypeOK, Follows
<1>1. CASE OpenSearch
  BY <1>1 DEF OpenSearch, FollowInv, rowVars, following
<1>2. CASE CloseSearch
  <2>1. \A f \in follows' : ~f.mine
    <3>1. follows' = {Left(f) : f \in {g \in follows : ~g.stored}}
      BY <1>2 DEF CloseSearch, Left
    <3> QED
      BY <1>0, <3>1, FollowFields
  <2>2. marked' = {} /\ open' = FALSE
    BY <1>2 DEF CloseSearch
  <2> QED
    BY <2>1, <2>2 DEF FollowInv
<1>3. CASE UNCHANGED <<subsVars, following, open>> /\ marked' \in {marked, {}}
  BY <1>3 DEF FollowInv, subsVars, rowVars, following
<1>4. CASE Type \/ Start \/ TimeOut \/ Select \/ \E r \in replies : Answered(r) \/ Failed(r)
  BY <1>3, <1>4 DEF Type, Start, TimeOut, Select, Answered, Failed
<1>5. ASSUME NEW t \in Team, Follow(t) PROVE FollowInv'
  <2>1. PICK g : g.team = t /\ ~g.stored /\ g.mine /\ follows' = follows \cup {g}
    <3>1. lastFollow + 1 \in 1..MaxFollows
      BY <1>5 DEF Follow, SearchTypeOK
    <3> QED
      BY <1>5, <3>1, NewFollow DEF Follow, Sent
  <2>2. UNCHANGED <<subs, gone, open>> /\ open /\ marked' = marked \cup {t}
    BY <1>5 DEF Follow, subsVars, rowVars
  <2> QED
    BY <2>1, <2>2 DEF FollowInv
<1>6. ASSUME NEW f \in follows, StoreFollow(f) PROVE FollowInv'
  <2>1. PICK g : /\ g.team = f.team /\ g.mine = f.mine
                 /\ follows' = (follows \ {f}) \cup (IF f.mine THEN {g} ELSE {})
    BY <1>0, <1>6, FollowFields DEF StoreFollow, Stored
  <2>2. subs'[f.team] # Nothing /\ \A u \in Team : subs[u] # Nothing => subs'[u] = subs[u]
    BY <1>0, <1>6, CreateRow DEF StoreFollow
  <2>3. UNCHANGED <<gone, open, marked>>
    BY <1>6 DEF StoreFollow
  <2> QED
    BY <1>0, <2>1, <2>2, <2>3 DEF FollowInv, SearchTypeOK
<1>7. ASSUME NEW f \in follows, AckFollow(f) PROVE FollowInv'
  BY <1>0, <1>7 DEF AckFollow, FollowInv, subsVars, rowVars
<1>8. ASSUME NEW f \in follows, FailFollow(f) PROVE FollowInv'
  <2>1. PICK g : /\ ~g.mine
                 /\ follows' \in {follows \ {f}, (follows \ {f}) \cup {g}}
    BY <1>0, <1>8, FollowFields DEF FailFollow, Left
  <2>2. /\ UNCHANGED <<subs, gone, open>>
        /\ marked' = IF f.mine THEN marked \ {f.team} ELSE marked
    BY <1>8 DEF FailFollow, Rollback, subsVars, rowVars
  <2> QED
    BY <1>0, <2>1, <2>2 DEF FollowInv
<1> QED
  BY <1>1, <1>2, <1>4, <1>5, <1>6, <1>7, <1>8 DEF SearchStep, SearchNext, FollowServe

\* So do others, if they say which rows they take.
LEMMA FollowOther ==
    ASSUME SearchTypeOK, FollowInv, UNCHANGED searchVars,
           \/ ~open
           \/ /\ gone \subseteq gone'
              /\ \A t \in Team : subs[t] # Nothing => subs'[t] # Nothing \/ t \in gone'
    PROVE  FollowInv'
<1>1. \A f \in follows : f.team \in Team
  BY DEF SearchTypeOK, Follows
<1> QED
  BY <1>1 DEF FollowInv, FollowHonest, SearchTypeOK, searchVars, following

----------------------------------------------------------------------------
(* The settings page.                                                       *)

Detached(s) == [s EXCEPT !.mine = FALSE]

Replied(s) == [s EXCEPT !.state = Served(s)]

Sending(t, change) ==
    [n |-> lastSave + 1, team |-> t, id |-> listed[t].id, change |-> change,
     state |-> "sent", mine |-> TRUE]

\* A change is one of a row, and stays so.
LEMMA SaveFields ==
    ASSUME NEW s \in Saves
    PROVE  /\ s.team \in Team /\ s.id \in Nat /\ s.change \in BOOLEAN \cup {Nothing}
           /\ /\ Detached(s) \in Saves /\ Detached(s).team = s.team /\ ~Detached(s).mine
              /\ Detached(s).state = s.state
           /\ /\ Replied(s) \in Saves /\ Replied(s).team = s.team
              /\ Replied(s).mine = s.mine /\ Replied(s).state # "sent"
  BY DEF Saves, Detached, Replied, Served

\* A new change.
LEMMA NewSave ==
    ASSUME lastSave + 1 \in 1..MaxSaves, NEW t \in Team, NEW change \in BOOLEAN \cup {Nothing},
           listed[t] \in Rows
    PROVE  /\ Sending(t, change) \in Saves /\ Sending(t, change).team = t
           /\ Sending(t, change).mine /\ Sending(t, change).state = "sent"
  BY DEF Saves, Sending, Rows

\* A change that a visit waits for is the only one of its row, which is listed; while a
\* list is on its way none is shown.
SavingInv ==
    /\ ~settingsOpen => listed = Nothing /\ listing = "off" /\ \A s \in saves : ~s.mine
    /\ listed # Nothing => listing = "off"
    /\ listing = "answered" <=> answer # Nothing
    /\ \A s \in saves : s.mine => listed # Nothing /\ listed[s.team] # Nothing
    /\ \A s, t \in saves : s.mine /\ t.mine /\ s.team = t.team => s = t
    /\ \A s \in saves : s.state # "sent" => s.mine

\* A preference is not known to be saved while a change of it is to be acknowledged;
\* until then, the rows, the list on its way and the list shown agree with it.
KeptInv ==
    /\ \A s \in saves : s.state = "done" => kept[s.team] = Nothing
    /\ \A t \in Team : kept[t] # Nothing =>
          (answer # Nothing /\ answer[t] # Nothing => answer[t].on = kept[t])
    /\ SavedPreferenceKept

\* The steps of the settings page keep its types, and the changes apart.
LEMMA SettingsOwn ==
    SubsTypeOK /\ SettingsTypeOK /\ SavingInv /\ SettingsStep => SettingsTypeOK' /\ SavingInv'
<1> SUFFICES ASSUME SubsTypeOK, SettingsTypeOK, SavingInv, SettingsStep
             PROVE  SettingsTypeOK' /\ SavingInv'
  OBVIOUS
<1> DEFINE Kept == SettingsTypeOK' /\ SavingInv'
<1> USE PagesAssumption DEF SettingsTypeOK
<1>0. /\ \A s \in saves : s \in Saves /\ s.team \in Team
      /\ subs \in Lists
  BY DEF Saves, SubsTypeOK, Lists
<1>9. \A s \in saves : /\ Detached(s) \in Saves /\ Detached(s).team = s.team
                        /\ ~Detached(s).mine /\ Detached(s).state = s.state
  BY <1>0, SaveFields
<1>10. \A s \in saves : /\ Replied(s) \in Saves /\ Replied(s).team = s.team
                         /\ Replied(s).mine = s.mine /\ Replied(s).state # "sent"
  BY <1>0, SaveFields
<1>1. CASE OpenSettings
  BY <1>1 DEF OpenSettings, SavingInv
<1>2. CASE CloseSettings
  <2>1. saves' = {Detached(s) : s \in {c \in saves : c.state = "sent"}}
    BY <1>2 DEF CloseSettings, Detached
  <2>2. saves' \subseteq Saves /\ \A s \in saves' : ~s.mine /\ s.state = "sent"
    BY <1>0, <1>9, <2>1
  <2>3. /\ settingsOpen' = FALSE /\ listing' = "off" /\ answer' = Nothing /\ listed' = Nothing
        /\ lastSave' = lastSave
    BY <1>2 DEF CloseSettings
  <2> QED
    BY <2>2, <2>3 DEF SavingInv
<1>3. CASE Reload \/ ServeListing
  BY <1>0, <1>3 DEF Reload, ServeListing, SavingInv, Lists
<1>4. CASE EndListing
  BY <1>4 DEF EndListing, SavingInv
<1>5. ASSUME NEW t \in Team, Change(t) PROVE Kept
  <2>1. PICK change \in BOOLEAN \cup {Nothing} : Save(t, change)
    BY <1>5 DEF Change
  <2>2. listed[t] \in Rows
    BY <2>1 DEF Save, Lists
  <2>3. lastSave + 1 \in 1..MaxSaves /\ lastSave' = lastSave + 1
    BY <2>1 DEF Save
  <2>4. PICK s \in Saves : s.team = t /\ s.mine /\ s.state = "sent" /\ saves' = saves \cup {s}
    BY <2>1, <2>2, <2>3, NewSave DEF Save, Sending
  <2>5. \A c \in saves : c.mine => c.team # t
    BY <2>1 DEF Save, Saving
  <2> QED
    BY <2>1, <2>3, <2>4, <2>5 DEF Save, SavingInv
<1>6. ASSUME NEW s \in saves, ServeSave(s) PROVE Kept
  <2>1. saves' = (saves \ {s}) \cup (IF s.mine THEN {Replied(s)} ELSE {})
    BY <1>6 DEF ServeSave, Replied
  <2>2. UNCHANGED <<settingsOpen, listing, answer, listed, lastSave>>
    BY <1>6 DEF ServeSave
  <2>3. SettingsTypeOK'
    BY <1>10, <2>1, <2>2
  <2>4. CASE s.mine
    BY <1>10, <2>1, <2>2, <2>3, <2>4 DEF SavingInv
  <2>5. CASE ~s.mine
    BY <2>1, <2>2, <2>3, <2>5 DEF SavingInv
  <2> QED
    BY <2>4, <2>5
<1>7. ASSUME NEW s \in saves, EndSave(s) PROVE Kept
  <2>1. /\ s.mine /\ listed # Nothing /\ listed[s.team] # Nothing
        /\ s.team \in Team /\ s.change \in BOOLEAN \cup {Nothing}
    BY <1>0, <1>7, SaveFields DEF EndSave, SavingInv
  <2>2. listed \in Lists /\ listed[s.team] \in Rows
    BY <2>1 DEF Lists
  <2> DEFINE row == IF s.change = Nothing THEN Nothing ELSE [listed[s.team] EXCEPT !.on = s.change]
  <2>3. row \in Rows \cup {Nothing}
    BY <2>1, <2>2 DEF Rows
  <2>4. listed' = [listed EXCEPT ![s.team] = row]
    BY <1>7 DEF EndSave
  <2> HIDE DEF row
  <2>5. listed' \in Lists /\ \A t \in Team : t # s.team => listed'[t] = listed[t]
    BY <2>1, <2>2, <2>3, <2>4 DEF Lists
  <2> QED
    BY <1>0, <1>7, <2>1, <2>5 DEF EndSave, SavingInv
<1>8. ASSUME NEW s \in saves, FailSave(s) PROVE Kept
  <2>1. saves' \in {saves \ {s}, (saves \ {s}) \cup {Detached(s)}}
        /\ (saves' # saves \ {s} => s.state = "sent")
    BY <1>8 DEF FailSave, Detached
  <2>2. UNCHANGED <<settingsOpen, listing, answer, listed, lastSave>>
    BY <1>8 DEF FailSave
  <2>3. SettingsTypeOK'
    BY <1>9, <2>1, <2>2
  <2> QED
    BY <1>9, <2>1, <2>2, <2>3 DEF SavingInv
<1> QED
  BY <1>1, <1>2, <1>3, <1>4, <1>5, <1>6, <1>7, <1>8
  DEF SettingsStep, SettingsNext, SettingsServe

\* They keep what was saved, too.
LEMMA KeptOwn ==
    SubsTypeOK /\ SettingsTypeOK /\ SavingInv /\ KeptInv /\ SettingsStep => KeptInv'
<1> SUFFICES ASSUME SubsTypeOK, SettingsTypeOK, SavingInv, KeptInv, SettingsStep
             PROVE  KeptInv'
  OBVIOUS
<1> USE PagesAssumption DEF SavedPreferenceKept
<1>0. \A s \in saves : /\ s \in Saves /\ s.team \in Team /\ s.id \in Nat
                       /\ s.change \in BOOLEAN \cup {Nothing}
                       /\ Detached(s).team = s.team /\ Detached(s).state = s.state
                       /\ Replied(s).team = s.team
  BY SaveFields DEF SettingsTypeOK
<1>1. CASE OpenSettings
  BY <1>1 DEF OpenSettings, KeptInv, SavingInv, rowVars
<1>2. CASE CloseSettings
  <2>1. saves' = {Detached(s) : s \in {c \in saves : c.state = "sent"}}
    BY <1>2 DEF CloseSettings, Detached
  <2>2. \A s \in saves' : s.state = "sent"
    BY <1>0, <2>1
  <2> QED
    BY <1>2, <2>2 DEF CloseSettings, KeptInv, subsVars, rowVars
<1>3. CASE Reload \/ ServeListing \/ EndListing
  BY <1>3 DEF Reload, ServeListing, EndListing, KeptInv, subsVars, rowVars
<1>4. ASSUME NEW t \in Team, NEW change \in BOOLEAN \cup {Nothing}, Save(t, change) PROVE KeptInv'
  <2>1. PICK s : s.state = "sent" /\ saves' = saves \cup {s}
    BY <1>4 DEF Save
  <2> QED
    BY <1>4, <2>1 DEF Save, KeptInv, subsVars, rowVars
<1>5. ASSUME NEW s \in saves, ServeSave(s) PROVE KeptInv'
  <2>1. kept' = [kept EXCEPT ![s.team] = Nothing] /\ UNCHANGED <<answer, listed>>
    BY <1>5 DEF ServeSave
  <2>2. \A u \in Team : u # s.team => subs'[u] = subs[u]
    <3>1. CASE s.change = Nothing
      BY <1>0, <1>5, <3>1, DeleteRow DEF ServeSave
    <3>2. CASE s.change # Nothing
      BY <1>0, <1>5, <3>2, UpdateRow DEF ServeSave
    <3> QED
      BY <3>1, <3>2
  <2>3. saves' \subseteq (saves \ {s}) \cup {Replied(s)}
    BY <1>5 DEF ServeSave, Replied
  <2> QED
    BY <1>0, <2>1, <2>2, <2>3 DEF KeptInv, SubsTypeOK
<1>6. ASSUME NEW s \in saves, EndSave(s) PROVE KeptInv'
  <2>1. /\ s.mine /\ listed # Nothing /\ answer = Nothing /\ kept[s.team] = Nothing
        /\ listed \in Lists /\ listed[s.team] \in Rows
        /\ \A t \in saves \ {s} : t.state = "done" => t.team # s.team
    BY <1>0, <1>6 DEF EndSave, SavingInv, KeptInv, SettingsTypeOK, Lists
  <2> DEFINE row == IF s.change = Nothing THEN Nothing ELSE [listed[s.team] EXCEPT !.on = s.change]
  <2>2. row = Nothing \/ row.on = s.change
    BY <1>0, <2>1 DEF Rows
  <2>3. listed' = [listed EXCEPT ![s.team] = row]
    BY <1>6 DEF EndSave
  <2> HIDE DEF row
  <2>4. UNCHANGED <<subs, answer>> /\ saves' = saves \ {s}
    BY <1>6 DEF EndSave, rowVars
  <2>5. CASE s.change # Nothing /\ Exists(s.team, s.id) /\ subs[s.team].on = s.change
    <3>1. kept' = [kept EXCEPT ![s.team] = s.change]
      BY <1>6, <2>5 DEF EndSave
    <3> QED
      BY <1>0, <2>1, <2>2, <2>3, <2>4, <2>5, <3>1 DEF KeptInv, SubsTypeOK, Lists, Exists
  <2>6. CASE kept' = kept
    BY <1>0, <2>1, <2>3, <2>4, <2>6 DEF KeptInv, SubsTypeOK, Lists
  <2> QED
    BY <1>6, <2>5, <2>6 DEF EndSave
<1>7. ASSUME NEW s \in saves, FailSave(s) PROVE KeptInv'
  <2>1. saves' \in {saves \ {s}, (saves \ {s}) \cup {Detached(s)}}
        /\ (saves' # saves \ {s} => s.state = "sent")
    BY <1>7 DEF FailSave, Detached
  <2> QED
    BY <1>0, <1>7, <2>1 DEF FailSave, KeptInv, subsVars, rowVars
<1>8. ASSUME NEW t \in Team, Change(t) PROVE KeptInv'
  BY <1>4, <1>8 DEF Change
<1> QED
  BY <1>1, <1>2, <1>3, <1>5, <1>6, <1>7, <1>8 DEF SettingsStep, SettingsNext, SettingsServe

\* What others do to a row that was seen saved makes it unknown.
LEMMA KeptOther ==
    ASSUME SettingsTypeOK, KeptInv, UNCHANGED settingsVars,
           \A t \in Team : \/ kept'[t] = Nothing
                           \/ kept'[t] = kept[t] /\ (subs[t] # Nothing => subs'[t] = subs[t])
    PROVE  KeptInv'
<1>1. \A s \in saves : s.team \in Team
  BY DEF SettingsTypeOK, Saves
<1> QED
  BY <1>1 DEF KeptInv, SavedPreferenceKept, settingsVars

----------------------------------------------------------------------------
(* The match page.                                                          *)

\* Answers come to requests of this visit or of earlier ones; the latest of a kind is
\* told by its number.  While a mutation is on its way no read is awaited, and what was
\* acknowledged is stored, shown, and what a read brings.
MatchInv ==
    /\ MatchTypeOK /\ mount # 0
    /\ \A c \in calls :
          /\ c.mount <= mounts
          /\ c.kind = "read" => c.mount = mount /\ c.version <= read
          /\ c.kind = "mutation" /\ c.mount = mount => c.version <= mutation
    /\ \A c, d \in calls : c.kind = d.kind /\ Current(c) /\ Current(d) => c = d
    /\ mutePending => shown # None
    /\ \A c \in calls :
          /\ c.kind = "mutation" /\ Current(c) => shown = c.value /\ settled = None
          /\ c.kind = "read" /\ Current(c) /\ settled # None => c.answer \in {None, Nothing, settled}
    /\ mutePending => ~refreshing
    /\ settled # None => muted = settled
    /\ WaitingHonest /\ AcknowledgedMuteShown

\* A request on its way is a read or a mutation.
LEMMA CallFields ==
    ASSUME MatchTypeOK, NEW c \in calls
    PROVE  /\ c.kind \in {"read", "mutation"} /\ c.mount \in Nat /\ c.mount # None
           /\ c.mount \in 1..MaxMounts /\ c.version \in Nat
           /\ c.kind = "read" => c \in Reads /\ c.answer \in BOOLEAN \cup {None, Nothing}
           /\ c.kind = "mutation" => c \in Mutations /\ c.value \in BOOLEAN
  BY PagesAssumption DEF MatchTypeOK, Reads, Mutations

ReadWith(c, a) == [c EXCEPT !.answer = a]

MutationIn(c, s) == [c EXCEPT !.state = s]

Muting(v) == [kind |-> "mutation", mount |-> mount, version |-> v, value |-> ~shown, state |-> "sent"]

\* A read is answered, and a mutation served.
LEMMA CallServed ==
    ASSUME NEW c
    PROVE  /\ c \in Reads => \A a \in BOOLEAN \cup {None, Nothing} :
                /\ ReadWith(c, a) \in Reads /\ ReadWith(c, a).kind = "read"
                /\ ReadWith(c, a).mount = c.mount /\ ReadWith(c, a).version = c.version
                /\ ReadWith(c, a).answer = a
           /\ c \in Mutations => \A s \in {"done", "refused"} :
                /\ MutationIn(c, s) \in Mutations /\ MutationIn(c, s).kind = "mutation"
                /\ MutationIn(c, s).mount = c.mount /\ MutationIn(c, s).version = c.version
                /\ MutationIn(c, s).value = c.value
  BY DEF Reads, Mutations, ReadWith, MutationIn

\* A new read, and a new mutation.
LEMMA NewCalls ==
    /\ \A m \in 1..MaxMounts, v \in 1..MaxReads :
          /\ NewRead(m, v) \in Reads /\ NewRead(m, v).kind = "read" /\ NewRead(m, v).mount = m
          /\ NewRead(m, v).version = v /\ NewRead(m, v).answer = None
    /\ mount \in 1..MaxMounts => \A v \in 1..MaxMutations :
          /\ Muting(v) \in Mutations /\ Muting(v).kind = "mutation" /\ Muting(v).mount = mount
          /\ Muting(v).version = v /\ Muting(v).value = ~shown
<1>1. \A m \in 1..MaxMounts, v \in 1..MaxReads :
          /\ NewRead(m, v) \in Reads /\ NewRead(m, v).kind = "read" /\ NewRead(m, v).mount = m
          /\ NewRead(m, v).version = v /\ NewRead(m, v).answer = None
  BY DEF NewRead, Reads
<1>2. ASSUME mount \in 1..MaxMounts, NEW v \in 1..MaxMutations
      PROVE  /\ Muting(v) \in Mutations /\ Muting(v).kind = "mutation" /\ Muting(v).mount = mount
             /\ Muting(v).version = v /\ Muting(v).value = ~shown
  <2>1. (~shown) \in BOOLEAN
    OBVIOUS
  <2> QED
    BY <1>2, <2>1 DEF Muting, Mutations
<1> QED
  BY <1>1, <1>2

\* The steps of the match page keep it.
LEMMA MatchOwn == MatchInv /\ MatchStep => MatchInv'
<1> SUFFICES ASSUME MatchInv, MatchTypeOK, MatchStep PROVE MatchInv'
  BY DEF MatchInv
<1> USE PagesAssumption DEF Current, WaitingHonest, AcknowledgedMuteShown
<1>0. \A c \in calls :
         /\ c.kind \in {"read", "mutation"} /\ c.mount \in Nat /\ c.mount # None
         /\ c.mount \in 1..MaxMounts /\ c.version \in Nat
         /\ c.kind = "read" => c \in Reads /\ c.answer \in BOOLEAN \cup {None, Nothing}
         /\ c.kind = "mutation" => c \in Mutations /\ c.value \in BOOLEAN
  BY CallFields
<1>1. CASE Open
  <2> DEFINE r == NewRead(mounts + 1, 1)
  <2>1. /\ r \in Reads /\ r.kind = "read" /\ r.mount = mounts + 1 /\ r.version = 1
        /\ r.answer = None
    BY <1>1, NewCalls DEF Open, MatchTypeOK
  <2>2. /\ calls' = calls \cup {r} /\ mount' = mounts + 1 /\ mounts' = mounts + 1
        /\ mounts + 1 \in 1..MaxMounts /\ mount = None
        /\ shown' = None /\ mutation' = 0 /\ read' = 1 /\ settled' = None
        /\ UNCHANGED <<muted, foreign>>
    BY <1>1 DEF Open, MatchTypeOK
  <2> HIDE DEF r
  <2>3. refreshing' /\ ~mutePending' /\ refreshing' \in BOOLEAN /\ mutePending' \in BOOLEAN
        /\ notFound' \in BOOLEAN
    BY <1>1 DEF Open
  <2>4. \A c \in calls : c.mount # mounts + 1
    BY <1>0, <2>2 DEF MatchInv, MatchTypeOK
  <2>5. MatchTypeOK'
    BY <2>1, <2>2, <2>3 DEF MatchTypeOK
  <2>6. \A c \in calls : ~ Current(c)'
    BY <2>2, <2>4
  <2>7. \A c \in calls : c.kind = "mutation"
    BY <1>0, <2>2 DEF MatchInv
  <2> QED
    BY <1>0, <2>1, <2>2, <2>3, <2>5, <2>6, <2>7 DEF MatchInv, MatchTypeOK
<1>2. CASE Close
  <2>1. /\ calls' = {c \in calls : c.kind = "mutation"} /\ mount' = None
        /\ shown' = None /\ mutation' = 0 /\ read' = 0 /\ settled' = None
        /\ UNCHANGED <<muted, mounts, foreign>>
    BY <1>2 DEF Close
  <2>2. ~refreshing' /\ ~mutePending' /\ refreshing' \in BOOLEAN /\ mutePending' \in BOOLEAN
        /\ notFound' \in BOOLEAN
    BY <1>2 DEF Close
  <2>3. MatchTypeOK'
    BY <2>1, <2>2 DEF MatchTypeOK
  <2>4. \A c \in calls' : ~ Current(c)' /\ c.kind # "read"
    BY <1>0, <2>1
  <2> QED
    BY <1>0, <2>1, <2>2, <2>3, <2>4 DEF MatchInv
<1>3. CASE Load
  <2> DEFINE r == NewRead(mount, read + 1)
  <2>0. mount = mounts /\ mount \in 1..MaxMounts
    BY <1>3 DEF Load, MatchInv, MatchTypeOK
  <2>1. /\ r \in Reads /\ r.kind = "read" /\ r.mount = mount /\ r.version = read + 1
        /\ r.answer = None
    BY <1>3, <2>0, NewCalls DEF Load, MatchTypeOK
  <2>2. /\ calls' = calls \cup {r} /\ read' = read + 1 /\ read' \in 0..MaxReads
        /\ UNCHANGED <<muted, mount, shown, notFound, mutePending, mutation, mounts, foreign, settled>>
    BY <1>3 DEF Load, MatchTypeOK
  <2>3. refreshing' /\ refreshing' \in BOOLEAN /\ ~mutePending
    BY <1>3 DEF Load, MayLoad
  <2> HIDE DEF r
  <2>4. \A c \in calls : c.kind = "read" => ~ Current(c)'
    BY <1>0, <2>2 DEF MatchInv, MatchTypeOK
  <2>5. \A c \in calls : c.kind = "mutation" => (Current(c)' <=> Current(c))
    BY <2>2
  <2>6. MatchTypeOK'
    BY <2>1, <2>2, <2>3 DEF MatchTypeOK
  <2> QED
    BY <1>0, <2>0, <2>1, <2>2, <2>3, <2>4, <2>5, <2>6 DEF MatchInv, MatchTypeOK
<1>4. CASE Toggle
  <2> DEFINE m == Muting(mutation + 1)
  <2>0. mount = mounts /\ mount \in 1..MaxMounts
    BY <1>4 DEF Toggle, MatchInv, MatchTypeOK
  <2>1. /\ m \in Mutations /\ m.kind = "mutation" /\ m.mount = mount /\ m.version = mutation + 1
        /\ m.value = ~shown
    BY <1>4, <2>0, NewCalls DEF Toggle, MatchTypeOK
  <2>2. /\ calls' = calls \cup {m} /\ read' = read + 1 /\ mutation' = mutation + 1
        /\ read' \in 0..MaxReads /\ mutation' \in 0..MaxMutations
        /\ shown' = ~shown /\ settled' = None
        /\ UNCHANGED <<muted, mount, notFound, mounts, foreign>>
    BY <1>4 DEF Toggle, CancelReads, MatchTypeOK, Muting
  <2>3. ~refreshing' /\ refreshing' \in BOOLEAN /\ mutePending' /\ mutePending' \in BOOLEAN
    BY <1>4 DEF Toggle, CancelReads
  <2>4. shown' \in BOOLEAN /\ shown' # None /\ m.value = shown'
    BY <2>1, <2>2
  <2> HIDE DEF m
  <2>5. \A c \in calls : ~ Current(c)'
    BY <1>0, <2>2 DEF MatchInv, MatchTypeOK
  <2>6. MatchTypeOK'
    BY <2>1, <2>2, <2>3, <2>4 DEF MatchTypeOK
  <2> QED
    BY <1>0, <2>0, <2>1, <2>2, <2>3, <2>4, <2>5, <2>6 DEF MatchInv, MatchTypeOK
<1>5. ASSUME NEW c \in calls, ServeRead(c) PROVE MatchInv'
  <2> DEFINE a == IF Visible THEN muted ELSE Nothing
             r == ReadWith(c, a)
  <2>0. a \in {muted, Nothing} /\ a \in BOOLEAN \cup {None, Nothing}
    BY DEF MatchTypeOK
  <2>1. /\ r \in Reads /\ r.kind = "read" /\ r.mount = c.mount /\ r.version = c.version
        /\ r.answer = a /\ c.kind = "read"
    BY <1>0, <1>5, <2>0, CallServed DEF ServeRead
  <2>2. /\ calls' = (calls \ {c}) \cup {r}
        /\ UNCHANGED <<muted, page, mounts, foreign, settled>>
    BY <1>5 DEF ServeRead, ReadWith
  <2> HIDE DEF r, a
  <2>3. MatchTypeOK'
    BY <2>1, <2>2 DEF MatchTypeOK, page
  <2>4. Current(r) <=> Current(c)
    BY <2>1
  <2>5. \A d \in calls' : Current(d)' <=> Current(d)
    BY <2>2 DEF page
  <2> QED
    BY <1>0, <2>0, <2>1, <2>2, <2>3, <2>4, <2>5 DEF MatchInv, page
<1>6. ASSUME NEW c \in calls, EndRead(c) PROVE MatchInv'
  <2>1. /\ calls' = calls \ {c} /\ c.kind = "read"
        /\ UNCHANGED <<muted, mount, mutePending, mutation, read, mounts, foreign, settled>>
    BY <1>6 DEF EndRead
  <2>2. \A d \in calls : Current(d)' <=> Current(d)
    BY <2>1
  <2>3. CASE Current(c)
    <3>1. /\ ~refreshing' /\ refreshing' \in BOOLEAN /\ notFound' \in BOOLEAN
          /\ shown' = shown \/ (c.answer \notin {None, Nothing} /\ shown' = c.answer)
      BY <1>6, <2>3 DEF EndRead, MatchTypeOK
    <3>2. ~mutePending /\ \A d \in calls : d.kind = "mutation" => ~ Current(d)
      BY <2>1, <2>3 DEF MatchInv
    <3>3. MatchTypeOK'
      BY <1>0, <2>1, <3>1 DEF MatchTypeOK
    <3>4. \A d \in calls' : d.kind = "read" => ~ Current(d)
      BY <2>1, <2>3 DEF MatchInv
    <3> QED
      BY <2>1, <2>2, <2>3, <3>1, <3>2, <3>3, <3>4 DEF MatchInv
  <2>4. CASE ~ Current(c)
    <3>1. UNCHANGED <<refreshing, shown, notFound>>
      BY <1>6, <2>4 DEF EndRead
    <3>2. MatchTypeOK'
      BY <2>1, <3>1 DEF MatchTypeOK
    <3> QED
      BY <2>1, <2>2, <2>4, <3>1, <3>2 DEF MatchInv
  <2> QED
    BY <2>3, <2>4
<1>7. ASSUME NEW c \in calls, ServeMutation(c) PROVE MatchInv'
  <2>1. PICK s \in {"done", "refused"} :
           /\ calls' = (calls \ {c}) \cup {MutationIn(c, s)}
           /\ \/ UNCHANGED <<muted, settled>>
              \/ muted' = c.value /\ settled' = IF Current(c) THEN settled ELSE None
    BY <1>7 DEF ServeMutation, MutationIn
  <2> DEFINE m == MutationIn(c, s)
  <2>2. /\ m \in Mutations /\ m.kind = "mutation" /\ m.mount = c.mount /\ m.version = c.version
        /\ m.value = c.value /\ c.kind = "mutation" /\ c.value \in BOOLEAN
    BY <1>0, <1>7, CallServed DEF ServeMutation
  <2>3. calls' = (calls \ {c}) \cup {m} /\ UNCHANGED <<page, mounts, foreign>>
    BY <1>7, <2>1 DEF ServeMutation
  <2> HIDE DEF m
  <2>4. MatchTypeOK'
    BY <2>1, <2>2, <2>3 DEF MatchTypeOK, page
  <2>5. Current(m) <=> Current(c)
    BY <2>2
  <2>6. \A d \in calls' : Current(d)' <=> Current(d)
    BY <2>3 DEF page
  <2>7. settled' \in {settled, None} /\ (settled' # None => muted' = muted)
    BY <2>1, <2>2 DEF MatchInv
  <2> QED
    BY <1>0, <2>2, <2>3, <2>4, <2>5, <2>6, <2>7 DEF MatchInv, page
<1>8. ASSUME NEW c \in calls, Acknowledge(c) PROVE MatchInv'
  <2>1. /\ calls' = calls \ {c} /\ c.kind = "mutation" /\ c.value \in BOOLEAN
        /\ UNCHANGED <<muted, mount, shown, notFound, refreshing, mutation, read, mounts, foreign>>
    BY <1>0, <1>8 DEF Acknowledge
  <2>2. \A d \in calls : Current(d)' <=> Current(d)
    BY <2>1
  <2>3. CASE Current(c)
    <3>1. /\ ~mutePending' /\ mutePending' \in BOOLEAN
          /\ settled' = IF muted = c.value THEN c.value ELSE None
      BY <1>8, <2>3 DEF Acknowledge
    <3>2. mutePending /\ ~refreshing /\ shown = c.value
          /\ \A d \in calls : d.kind = "read" => ~ Current(d)
      BY <2>1, <2>3 DEF MatchInv
    <3>3. MatchTypeOK'
      BY <2>1, <3>1 DEF MatchTypeOK
    <3>4. \A d \in calls' : ~ Current(d)
      BY <1>0, <2>1, <2>3, <3>2 DEF MatchInv
    <3> QED
      BY <2>1, <2>2, <3>1, <3>2, <3>3, <3>4 DEF MatchInv
  <2>4. CASE ~ Current(c)
    <3>1. UNCHANGED <<mutePending, settled>>
      BY <1>8, <2>4 DEF Acknowledge
    <3>2. MatchTypeOK'
      BY <2>1, <3>1 DEF MatchTypeOK
    <3> QED
      BY <2>1, <2>2, <2>4, <3>1, <3>2 DEF MatchInv
  <2> QED
    BY <2>3, <2>4
<1>9. ASSUME NEW c \in calls, FailMutation(c) PROVE MatchInv'
  <2>1. /\ calls' = calls \ {c} /\ c.kind = "mutation" /\ c.value \in BOOLEAN
        /\ UNCHANGED <<muted, mount, notFound, refreshing, mutation, read, mounts, foreign, settled>>
    BY <1>0, <1>9 DEF FailMutation
  <2>2. \A d \in calls : Current(d)' <=> Current(d)
    BY <2>1
  <2>3. CASE Current(c)
    <3>1. ~mutePending' /\ mutePending' \in BOOLEAN /\ shown' = ~c.value
      BY <1>9, <2>3 DEF FailMutation, Revert
    <3>2. mutePending /\ ~refreshing /\ settled = None
          /\ \A d \in calls : d.kind = "read" => ~ Current(d)
      BY <2>1, <2>3 DEF MatchInv
    <3>5. shown' \in BOOLEAN
      BY <3>1
    <3>3. MatchTypeOK'
      BY <2>1, <3>1, <3>5 DEF MatchTypeOK
    <3>4. \A d \in calls' : ~ Current(d)
      BY <1>0, <2>1, <2>3, <3>2 DEF MatchInv
    <3> QED
      BY <2>1, <2>2, <3>1, <3>2, <3>3, <3>4 DEF MatchInv
  <2>4. CASE ~ Current(c)
    <3>1. UNCHANGED <<shown, mutePending>>
      BY <1>9, <2>4 DEF FailMutation
    <3>2. MatchTypeOK'
      BY <2>1, <3>1 DEF MatchTypeOK
    <3> QED
      BY <2>1, <2>2, <2>4, <3>1, <3>2 DEF MatchInv
  <2> QED
    BY <2>3, <2>4
<1>10. CASE MuteElsewhere
  <2>1. /\ muted' = ~muted /\ settled' = None /\ foreign' \in 0..MaxForeign
        /\ UNCHANGED <<page, calls, mounts>>
    BY <1>10 DEF MuteElsewhere, MatchTypeOK
  <2>2. muted' \in BOOLEAN
    BY <2>1
  <2>3. MatchTypeOK'
    BY <2>1, <2>2 DEF MatchTypeOK, page
  <2>4. \A d \in calls : Current(d)' <=> Current(d)
    BY <2>1 DEF page
  <2> QED
    BY <1>0, <2>1, <2>3, <2>4 DEF MatchInv, page
<1> QED
  BY <1>1, <1>2, <1>3, <1>4, <1>5, <1>6, <1>7, <1>8, <1>9, <1>10 DEF MatchStep, MatchServe

\* It does not speak of the rows.
LEMMA MatchOther == ASSUME MatchInv, UNCHANGED matchVars PROVE MatchInv'
  BY DEF MatchInv, MatchTypeOK, Current, WaitingHonest, AcknowledgedMuteShown, matchVars, page

----------------------------------------------------------------------------
(* All pages.                                                               *)

\* What every step does to the rows.
LEMMA RowsStep ==
    ASSUME SubsTypeOK, SearchTypeOK, SettingsTypeOK, [Next]_vars
    PROVE  SubsTypeOK' /\ version' \in {version, version + 1}
<1> DEFINE Typed == SubsTypeOK' /\ version' \in {version, version + 1}
<1> USE PagesAssumption
<1>0. CASE UNCHANGED subsVars
  BY <1>0 DEF SubsTypeOK, subsVars, rowVars
<1>1. CASE UNCHANGED <<rowVars, kept, elsewhere>> /\ gone' = {}
  BY <1>1 DEF SubsTypeOK, rowVars
<1>2. CASE Elsewheres
  BY <1>2, ElsewhereType DEF Elsewheres
<1>3. ASSUME NEW f \in follows, StoreFollow(f) PROVE Typed
  <2>1. f.team \in Team
    BY DEF SearchTypeOK, Follows
  <2> QED
    BY <1>3, <2>1, CreateRow DEF StoreFollow, SubsTypeOK
<1>4. ASSUME NEW s \in saves, ServeSave(s) PROVE Typed
  <2>1. s.team \in Team /\ s.id \in Nat /\ s.change \in BOOLEAN \cup {Nothing}
    BY SaveFields DEF SettingsTypeOK
  <2>2. kept' \in [Team -> BOOLEAN \cup {Nothing}] /\ gone' \subseteq Team /\ elsewhere' = elsewhere
    BY <1>4, <2>1 DEF ServeSave, SubsTypeOK
  <2>3. CASE s.change = Nothing
    BY <1>4, <2>1, <2>2, <2>3, DeleteRow DEF ServeSave, SubsTypeOK
  <2>4. CASE s.change # Nothing
    BY <1>4, <2>1, <2>2, <2>4, UpdateRow DEF ServeSave, SubsTypeOK
  <2> QED
    BY <2>3, <2>4
<1>5. ASSUME NEW s \in saves, EndSave(s) PROVE Typed
  <2>1. s.team \in Team /\ s.change \in BOOLEAN \cup {Nothing}
    BY SaveFields DEF SettingsTypeOK
  <2>2. kept' \in [Team -> BOOLEAN \cup {Nothing}]
    BY <1>5, <2>1 DEF EndSave, SubsTypeOK
  <2> QED
    BY <1>5, <2>2 DEF EndSave, SubsTypeOK, rowVars
<1>6. CASE SearchStep
  BY <1>0, <1>1, <1>3, <1>6
  DEF SearchStep, SearchNext, FollowServe, OpenSearch, CloseSearch, Type, Start, TimeOut, Select,
      Answered, Failed, Follow, AckFollow, FailFollow
<1>7. CASE SettingsStep
  BY <1>0, <1>1, <1>4, <1>5, <1>7
  DEF SettingsStep, SettingsNext, SettingsServe, OpenSettings, CloseSettings, Reload, EndListing,
      ServeListing, Change, Save, FailSave
<1>8. CASE DashStep
  BY <1>0, <1>1, <1>8
  DEF DashStep, DashNext, OpenDashboard, CloseDashboard, Refresh, ServeDashboard, EndRefresh
<1>9. CASE MatchStep
  BY <1>0, <1>9 DEF MatchStep
<1> QED
  BY <1>0, <1>2, <1>6, <1>7, <1>8, <1>9, Steps DEF vars

\* A row that has gone was seen to go, except where the marks are gone too.
LEMMA FollowKept ==
    ASSUME SubsTypeOK, SearchTypeOK, SettingsTypeOK, FollowInv, [Next]_vars
    PROVE  FollowInv'
<1> DEFINE Rest == /\ gone \subseteq gone'
                   /\ \A t \in Team : subs[t] # Nothing => subs'[t] # Nothing \/ t \in gone'
<1>1. CASE SearchStep
  BY <1>1, FollowOwn
<1>2. CASE UNCHANGED <<searchVars, subs, gone>>
  BY <1>2, FollowOther
<1>3. CASE UNCHANGED searchVars /\ NoPage
  BY <1>3, FollowOther DEF NoPage
<1>4. ASSUME NEW t \in Team, Elsewhere(t) PROVE Rest
  <2>1. CASE subs[t] = Nothing
    BY <1>4, <2>1, CreateRow DEF Elsewhere
  <2>2. CASE subs[t] # Nothing
    <3>1. subs[t].id \in Nat
      BY <2>2 DEF SubsTypeOK, Rows
    <3>2. (~subs[t].on) \in BOOLEAN
      OBVIOUS
    <3>3. CASE DeleteSubscription(t, subs[t].id) /\ gone' = gone \cup {t}
      BY <3>1, <3>3, DeleteRow
    <3>4. CASE UpdateSubscription(t, subs[t].id, ~subs[t].on) /\ UNCHANGED gone
      BY <3>1, <3>2, <3>4, UpdateRow
    <3> QED
      BY <1>4, <2>2, <3>3, <3>4 DEF Elsewhere
  <2> QED
    BY <2>1, <2>2
<1>5. ASSUME NEW s \in saves, ServeSave(s) PROVE Rest
  <2>1. s.team \in Team /\ s.id \in Nat /\ s.change \in BOOLEAN \cup {Nothing}
    BY SaveFields DEF SettingsTypeOK
  <2>2. CASE s.change = Nothing
    BY <1>5, <2>1, <2>2, DeleteRow DEF ServeSave
  <2>3. CASE s.change # Nothing
    BY <1>5, <2>1, <2>3, UpdateRow DEF ServeSave
  <2> QED
    BY <2>2, <2>3
<1>6. CASE Elsewheres
  BY <1>4, <1>6, FollowOther DEF Elsewheres
<1>7. CASE SettingsStep
  <2>1. UNCHANGED searchVars
    BY <1>7 DEF SettingsStep
  <2>2. ASSUME NEW s \in saves, EndSave(s) PROVE UNCHANGED <<subs, gone>>
    BY <2>2 DEF EndSave, rowVars
  <2> QED
    BY <1>2, <1>3, <1>5, <1>7, <2>1, <2>2, FollowOther
    DEF SettingsStep, SettingsNext, SettingsServe, CloseSettings, Reload, EndListing,
        ServeListing, Change, Save, FailSave, subsVars, rowVars
<1>8. CASE DashStep
  BY <1>2, <1>3, <1>8
  DEF DashStep, DashNext, CloseDashboard, Refresh, ServeDashboard, EndRefresh, subsVars, rowVars
<1>9. CASE MatchStep \/ UNCHANGED vars
  BY <1>2, <1>9 DEF MatchStep, vars, subsVars, rowVars
<1> QED
  BY <1>1, <1>6, <1>7, <1>8, <1>9, Steps

\* Only saving makes a preference known, and others change rows that are not.
LEMMA PreferenceKept ==
    ASSUME SubsTypeOK, SearchTypeOK, SettingsTypeOK, SavingInv, KeptInv, [Next]_vars
    PROVE  KeptInv'
<1>1. CASE SettingsStep
  BY <1>1, KeptOwn
<1>2. CASE UNCHANGED <<settingsVars, subs, kept>>
  BY <1>2, KeptOther
<1>3. CASE Elsewheres
  <2>1. PICK t \in Team : Elsewhere(t)
    BY <1>3 DEF Elsewheres
  <2>2. kept' = [kept EXCEPT ![t] = Nothing] /\ UNCHANGED settingsVars
    BY <1>3, <2>1 DEF Elsewhere, Elsewheres
  <2>3. \A u \in Team : u # t => (subs[u] # Nothing => subs'[u] = subs[u])
    <3>1. CASE subs[t] = Nothing
      BY <2>1, <3>1, CreateRow DEF Elsewhere
    <3>2. CASE subs[t] # Nothing
      BY <2>1, <3>2 DEF Elsewhere, DeleteSubscription, UpdateSubscription, SubsTypeOK
    <3> QED
      BY <3>1, <3>2
  <2> QED
    BY <2>2, <2>3, KeptOther DEF SubsTypeOK
<1>4. ASSUME NEW f \in follows, StoreFollow(f), UNCHANGED settingsVars PROVE KeptInv'
  <2>1. f.team \in Team
    BY DEF SearchTypeOK, Follows
  <2> QED
    BY <1>4, <2>1, CreateRow, KeptOther DEF StoreFollow
<1>5. CASE SearchStep
  BY <1>2, <1>4, <1>5
  DEF SearchStep, SearchNext, FollowServe, OpenSearch, CloseSearch, Type, Start, TimeOut, Select,
      Answered, Failed, Follow, AckFollow, FailFollow, subsVars, rowVars
<1>6. CASE DashStep
  BY <1>2, <1>6
  DEF DashStep, DashNext, OpenDashboard, CloseDashboard, Refresh, ServeDashboard, EndRefresh,
      subsVars, rowVars
<1>7. CASE MatchStep \/ UNCHANGED vars
  BY <1>2, <1>7 DEF MatchStep, vars, subsVars, rowVars
<1> QED
  BY <1>1, <1>3, <1>5, <1>6, <1>7, Steps

\* One page at a time is on screen.
OnePage ==
    /\ mount # None => ~(open \/ settingsOpen \/ dashOpen)
    /\ open => ~(settingsOpen \/ dashOpen)
    /\ ~(settingsOpen /\ dashOpen)

\* The router opens a page when the other one has gone.
LEMMA OnePageStep == OnePage /\ visits \in 0..MaxVisits /\ [Next]_vars => OnePage' /\ visits' \in 0..MaxVisits
<1> SUFFICES ASSUME OnePage, visits \in 0..MaxVisits, [Next]_vars
             PROVE  OnePage' /\ visits' \in 0..MaxVisits
  OBVIOUS
<1>1. visits' \in 0..MaxVisits
  BY PagesAssumption DEF Next, Visit, Use, Serve, OtherDevice, vars
<1>2. CASE MatchStep
  <2>1. UNCHANGED <<open, settingsOpen, dashOpen>>
    BY <1>2 DEF MatchStep, searchVars, settingsVars, dashVars
  <2>2. NoPage \/ mount' \in {mount, None}
    BY <1>2
    DEF MatchStep, Close, Load, Toggle, MatchServe, ServeRead, EndRead, ServeMutation, Acknowledge,
        FailMutation, MuteElsewhere, page
  <2> QED
    BY <1>1, <2>1, <2>2 DEF OnePage, NoPage
<1>3. CASE SearchStep
  <2>1. UNCHANGED <<mount, settingsOpen, dashOpen>>
    BY <1>3 DEF SearchStep, matchVars, page, settingsVars, dashVars
  <2>2. NoPage \/ ~open' \/ open' = open
    BY <1>3
    DEF SearchStep, SearchNext, FollowServe, CloseSearch, Type, Start, TimeOut, Select,
        Answered, Failed, Follow, StoreFollow, AckFollow, FailFollow
  <2> QED
    BY <1>1, <2>1, <2>2 DEF OnePage, NoPage
<1>4. CASE SettingsStep
  <2>1. UNCHANGED <<mount, open, dashOpen>>
    BY <1>4 DEF SettingsStep, matchVars, page, searchVars, dashVars
  <2>2. NoPage \/ ~settingsOpen' \/ settingsOpen' = settingsOpen
    BY <1>4
    DEF SettingsStep, SettingsNext, SettingsServe, CloseSettings, Reload, EndListing,
        ServeListing, Change, Save, ServeSave, EndSave, FailSave
  <2> QED
    BY <1>1, <2>1, <2>2 DEF OnePage, NoPage
<1>5. CASE DashStep
  <2>1. UNCHANGED <<mount, open, settingsOpen>>
    BY <1>5 DEF DashStep, matchVars, page, searchVars, settingsVars
  <2>2. NoPage \/ ~dashOpen' \/ dashOpen' = dashOpen
    BY <1>5
    DEF DashStep, DashNext, CloseDashboard, Refresh, ServeDashboard, EndRefresh
  <2> QED
    BY <1>1, <2>1, <2>2 DEF OnePage, NoPage
<1>6. CASE Elsewheres \/ UNCHANGED vars
  BY <1>6 DEF Elsewheres, OnePage, vars, matchVars, page, searchVars, settingsVars, dashVars
<1> QED
  BY <1>1, <1>2, <1>3, <1>4, <1>5, <1>6, Steps

\* The inductive invariant: none of the properties is inductive by itself.
IInv ==
    /\ SubsTypeOK /\ SearchTypeOK /\ SettingsTypeOK
    /\ TypingInv /\ FollowInv /\ SavingInv /\ KeptInv /\ DashInv /\ MatchInv
    /\ OnePage /\ visits \in 0..MaxVisits

\* It holds before any page is opened.
LEMMA InitInv == Init => IInv
<1> SUFFICES ASSUME Init PROVE IInv
  OBVIOUS
<1> USE PagesAssumption
<1>1. SubsTypeOK /\ \A t \in Team : subs[t] # Nothing => kept[t] = subs[t].on
  <2>1. \A b \in BOOLEAN : LET r == [id |-> 1, on |-> b] IN r \in Rows /\ r.id = 1 /\ r.on = b
    BY DEF Rows
  <2> QED
    BY <2>1 DEF Init, SubsInit, SubsTypeOK, Rows
<1>2. SearchTypeOK /\ TypingInv /\ FollowInv
  <2>1. open \in BOOLEAN /\ debounce \in BOOLEAN /\ loading \in BOOLEAN
    BY DEF Init, SearchInit
  <2>2. SearchTypeOK
    BY <2>1 DEF Init, SearchInit, SearchTypeOK
  <2> QED
    BY <2>2
    DEF Init, SearchInit, TypingInv, FollowInv, LoadingHonest, ResultsAnswerQuery, FollowHonest
<1>3. SettingsTypeOK /\ SavingInv /\ KeptInv
  <2>1. settingsOpen \in BOOLEAN
    BY DEF Init, SettingsInit
  <2>2. SettingsTypeOK
    BY <2>1 DEF Init, SettingsInit, SettingsTypeOK
  <2>3. SavingInv
    BY DEF Init, SettingsInit, SavingInv
  <2>4. \A t \in Team : kept[t] # Nothing => subs[t] # Nothing
    BY DEF Init, SubsInit
  <2> QED
    BY <1>1, <2>2, <2>3, <2>4 DEF Init, SettingsInit, KeptInv, SavedPreferenceKept
<1>4. DashInv
  <2>1. {dashOpen, updating} \subseteq BOOLEAN
    BY DEF Init, DashInit
  <2>2. DashTypeOK /\ version \in Nat
    BY <2>1 DEF Init, SubsInit, DashInit, DashTypeOK
  <2> QED
    BY <2>2 DEF Init, DashInit, DashInv, RefreshingHonest, DashboardForward
<1>5. MatchInv
  <2>1. notFound \in BOOLEAN /\ refreshing \in BOOLEAN /\ mutePending \in BOOLEAN
    BY DEF Init, MatchInit
  <2>2. MatchTypeOK /\ mount # 0
    BY <2>1 DEF Init, MatchInit, MatchTypeOK
  <2> QED
    BY <2>2 DEF Init, MatchInit, MatchInv, WaitingHonest, AcknowledgedMuteShown
<1>6. OnePage /\ visits \in 0..MaxVisits
  BY DEF Init, MatchInit, SearchInit, SettingsInit, DashInit, OnePage
<1> QED
  BY <1>1, <1>2, <1>3, <1>4, <1>5, <1>6 DEF IInv

\* Every step of any page keeps it.
LEMMA StepInv == IInv /\ [Next]_vars => IInv'
<1> SUFFICES ASSUME IInv, [Next]_vars PROVE IInv'
  OBVIOUS
<1> USE DEF IInv
<1>1. SubsTypeOK' /\ version' \in {version, version + 1}
  BY RowsStep
<1>2. SearchTypeOK' /\ TypingInv'
  <2>1. CASE SearchStep
    BY <2>1, SearchType, TypingOwn
  <2>2. CASE UNCHANGED searchVars
    BY <2>2
    DEF SearchTypeOK, TypingInv, LoadingHonest, ResultsAnswerQuery, Latest, searchVars, typing, following
  <2> QED
    BY <2>1, <2>2, Steps DEF Elsewheres, MatchStep, SettingsStep, DashStep, vars
<1>3. SettingsTypeOK' /\ SavingInv'
  <2>1. CASE SettingsStep
    BY <2>1, SettingsOwn
  <2>2. CASE UNCHANGED settingsVars
    BY <2>2 DEF SettingsTypeOK, SavingInv, settingsVars
  <2> QED
    BY <2>1, <2>2, Steps DEF Elsewheres, MatchStep, SearchStep, DashStep, vars
<1>4. DashInv'
  <2>1. CASE DashStep
    BY <2>1, DashOwn
  <2>2. CASE UNCHANGED dashVars
    BY <1>1, <2>2, DashOther
  <2> QED
    BY <2>1, <2>2, Steps DEF Elsewheres, MatchStep, SearchStep, SettingsStep, vars
<1>5. MatchInv'
  <2>1. CASE MatchStep
    BY <2>1, MatchOwn
  <2>2. CASE UNCHANGED matchVars
    BY <2>2, MatchOther
  <2> QED
    BY <2>1, <2>2, Steps DEF Elsewheres, SearchStep, SettingsStep, DashStep, vars
<1>6. FollowInv' /\ KeptInv'
  BY FollowKept, PreferenceKept
<1> QED
  BY <1>1, <1>2, <1>3, <1>4, <1>5, <1>6, OnePageStep

\* Every reachable state satisfies it.
LEMMA InvHolds == Spec => []IInv
  BY InitInv, StepInv, PTL DEF Spec

\* Every variable of the pages has its type, and one page is on screen at a time.
THEOREM PagesTypeCorrect == Spec => []TypeOK
<1>1. IInv => TypeOK
  BY DEF IInv, TypeOK, DashInv, MatchInv, OnePage
<1> QED
  BY InvHolds, <1>1, PTL

\* Pages wait for what they would accept, and for nothing else.
THEOREM IndicatorsHonest == Spec => []NoStuckIndicator
<1>1. IInv => NoStuckIndicator
  BY DEF IInv, NoStuckIndicator, DashInv, MatchInv, TypingInv
<1> QED
  BY InvHolds, <1>1, PTL

\* No late answer is shown for another query.
THEOREM ResultsHonest == Spec => []ResultsAnswerQuery
<1>1. IInv => ResultsAnswerQuery
  BY DEF IInv, TypingInv
<1> QED
  BY InvHolds, <1>1, PTL

\* A team marked as followed is stored, or its follow is on its way, or it was unfollowed
\* elsewhere since the page was opened: no failure, late answer or new search leaves a
\* mark that nothing stands behind.
THEOREM MarksHonest == Spec => []FollowHonest
<1>1. IInv => FollowHonest
  BY DEF IInv, FollowInv
<1> QED
  BY InvHolds, <1>1, PTL

\* What was seen to be saved stays saved.
THEOREM PreferencesStay == Spec => []SavedPreferenceKept
<1>1. IInv => SavedPreferenceKept
  BY DEF IInv, KeptInv
<1> QED
  BY InvHolds, <1>1, PTL

\* The dashboard never goes back.
THEOREM DashboardMonotone == Spec => []DashboardForward
<1>1. IInv => DashboardForward
  BY DEF IInv, DashInv
<1> QED
  BY InvHolds, <1>1, PTL

\* A mute that was acknowledged stays shown.
THEOREM MuteStaysShown == Spec => []AcknowledgedMuteShown
<1>1. IInv => AcknowledgedMuteShown
  BY DEF IInv, MatchInv
<1> QED
  BY InvHolds, <1>1, PTL
=============================================================================
