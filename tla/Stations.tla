------------------------------ MODULE Stations ------------------------------
(***************************************************************************)
(* Radio stations (api/user_radio_stations.py, api/radio_stations.py):     *)
(* the list of one account, the catalog of the administrators, and the     *)
(* covers of both in S3 (apply_radio_cover of cover_storage.py).           *)
(*                                                                         *)
(* A handler reads and checks, may await the download of a cover, changes  *)
(* S3, and commits.  Each of these is a step, since another process, or    *)
(* another handler during the await, may commit in between.  A commit can  *)
(* fail: SQLite gives up after five seconds behind another writer.         *)
(*                                                                         *)
(* Bounds of the model: MaxBorn, MaxRadioCalls, MaxRadioKills,             *)
(* MaxPremiumChanges.                                                      *)
(***************************************************************************)
EXTENDS Integers, Sequences, FiniteSets

CONSTANTS
    Desks,         \* requests in progress at a time
    Urls,          \* stream URLs
    NoUrl,         \* an update that leaves the URL alone
    FreeLimit,     \* FREE_STATION_LIMIT
    Payloads,      \* lists for PUT /radio/stations: sequences of [id, url]
    MaxBorn,       \* stations created
    MaxRadioCalls, MaxRadioKills, MaxPremiumChanges

VARIABLES
    stations,    \* per list: id -> [url, path]; path: cover_path is set
    objects,     \* [list, id] of the covers that are in S3
    desk,        \* requests in progress
    born,        \* ids made by uuid4 so far
    premium,     \* users.is_premium of the account
    radioBounds, \* [calls, kills, changes] so far
    wasPremium,  \* history: the account was premium once
    staleCommit, \* history: a commit to a list that changed since its check
                 \* (a request stays fresh until then)
    broken       \* history: a request stopped after it had changed S3

stationVars == <<stations, objects, desk, born, premium, radioBounds,
                 wasPremium, staleCommit, broken>>

Lists == {"account", "catalog"}
NewId == 0         \* an item without an id
Ids == 1..MaxBorn
CoverInputs == {"keep", "clear", "data", "url"}

ASSUME StationsAssumption ==
    /\ FreeLimit \in Nat /\ MaxBorn \in Nat /\ NoUrl \notin Urls
    /\ Payloads \subseteq Seq([id : Ids \cup {NewId}, url : Urls])

Unused == [at |-> "free"]

StationsTypeOK ==
    /\ \A L \in Lists :
          /\ DOMAIN stations[L] \subseteq 1..born
          /\ \A i \in DOMAIN stations[L] :
                stations[L][i].url \in Urls /\ stations[L][i].path \in BOOLEAN
    /\ objects \subseteq Lists \X (1..born)
    /\ born \in 0..MaxBorn

StationsInit ==
    /\ stations = [L \in Lists |-> <<>>] /\ objects = {}
    /\ desk = [d \in Desks |-> Unused] /\ born = 0
    /\ premium \in BOOLEAN /\ wasPremium = premium
    /\ radioBounds = [calls |-> 0, kills |-> 0, changes |-> 0]
    /\ staleCommit = FALSE /\ broken = FALSE

SetDesk(d, k) == desk' = [desk EXCEPT ![d] = k]
DeskAt(d, at) == desk[d].at = at

Called(d) ==
    /\ DeskAt(d, "free") /\ radioBounds.calls < MaxRadioCalls
    /\ radioBounds' = [radioBounds EXCEPT !.calls = @ + 1]
    /\ UNCHANGED <<stations, objects, premium, wasPremium, staleCommit, broken>>

(* _max_stations.                                                          *)
Full(n) == ~premium /\ n >= FreeLimit

UsedBy(rows, url) == {i \in DOMAIN rows : rows[i].url = url}

(* apply_radio_cover: nothing, clear, then a body or a URL to download.    *)
CoverStep(how) ==
    CASE how = "keep" -> "commit" [] how = "url" -> "fetch" [] OTHER -> "drop"

-----------------------------------------------------------------------------
(* POST: the limit and the URL are checked for accounts, not in the        *)
(* catalog.  The row is added after the cover.                             *)
CreateStation(d, L, url, how) ==
    /\ Called(d)
    /\ IF L = "account" /\ (Full(Cardinality(DOMAIN stations[L]))
                            \/ UsedBy(stations[L], url) # {})
       THEN UNCHANGED <<desk, born>>
       ELSE /\ born < MaxBorn /\ born' = born + 1
            /\ SetDesk(d, [at |-> CoverStep(how), do |-> "create", list |-> L,
                           id |-> born + 1, url |-> url, how |-> how,
                           path |-> FALSE, seen |-> stations[L],
                           dropped |-> FALSE, fresh |-> TRUE])

(* PUT of one station.                                                     *)
UpdateStation(d, L, i, url, how) ==
    /\ Called(d) /\ i \in DOMAIN stations[L]
    /\ IF L = "account" /\ UsedBy(stations[L], url) \ {i} # {}
       THEN UNCHANGED desk
       ELSE SetDesk(d, [at |-> CoverStep(how), do |-> "update", list |-> L,
                        id |-> i, url |-> url, how |-> how,
                        path |-> stations[L][i].path, seen |-> stations[L],
                        dropped |-> FALSE, fresh |-> TRUE])
    /\ UNCHANGED born

DeleteStation(d, L, i) ==
    /\ Called(d) /\ i \in DOMAIN stations[L]
    /\ SetDesk(d, [at |-> "drop", do |-> "delete", list |-> L, id |-> i,
                   url |-> NoUrl, how |-> "clear", path |-> stations[L][i].path,
                   seen |-> stations[L], dropped |-> FALSE, fresh |-> TRUE])
    /\ UNCHANGED born

(* Mutant of FirstOfUrl: equal URLs are not skipped.                       *)
FirstOfUrl_All(items) == items

(* The items of a payload, without those whose URL came before.            *)
FirstOfUrl(items) ==
    LET First(n) == \A m \in 1..(n - 1) : items[m].url # items[n].url
        Kept == {n \in DOMAIN items : First(n)}
    IN  [n \in 1..Cardinality(Kept) |->
           items[CHOOSE m \in Kept :
                    Cardinality({l \in Kept : l <= m}) = n]]

NewBefore(items, n) == Cardinality({m \in 1..n : items[m].id = NewId})

(* Items without an id get one from uuid4, in the order of the list.       *)
WithIds(items) ==
    [n \in DOMAIN items |->
       IF items[n].id = NewId
       THEN [items[n] EXCEPT !.id = born + NewBefore(items, n)] ELSE items[n]]

(* PUT of the whole list.  The length of the payload is what is compared   *)
(* with the limit.  Ids are those the client was told.                     *)
ReplaceStations(d, payload) ==
    /\ Called(d)
    /\ \A n \in DOMAIN payload : payload[n].id <= born
    /\ IF Len(payload) > 0 /\ Full(Len(payload) - 1)
       THEN UNCHANGED <<desk, born>>
       ELSE LET items == FirstOfUrl(payload)
                made  == NewBefore(items, Len(items)) IN
            /\ born + made <= MaxBorn /\ born' = born + made
            /\ SetDesk(d, [at |-> "purge", do |-> "replace",
                           list |-> "account", items |-> WithIds(items),
                           seen |-> stations["account"],
                           dropped |-> FALSE, fresh |-> TRUE])

-----------------------------------------------------------------------------
(* The download of a cover, which may fail.                                *)
FetchRadioCover(d) ==
    /\ DeskAt(d, "fetch")
    /\ SetDesk(d, Unused) \/ SetDesk(d, [desk[d] EXCEPT !.at = "drop"])
    /\ UNCHANGED <<stations, objects, born, premium, radioBounds, wasPremium,
                   staleCommit, broken>>

(* delete_cover_from_s3 of the path that was read; errors are swallowed.   *)
DropRadioCover(d) ==
    LET k == desk[d] IN
    /\ DeskAt(d, "drop")
    /\ objects' \in IF k.path THEN {objects, objects \ {<<k.list, k.id>>}}
                    ELSE {objects}
    /\ SetDesk(d, [k EXCEPT !.dropped = k.path,
                            !.path = IF k.how = "clear" THEN FALSE ELSE @,
                            !.at = IF k.how = "clear" THEN "commit" ELSE "put"])
    /\ UNCHANGED <<stations, born, premium, radioBounds, wasPremium,
                   staleCommit, broken>>

PutRadioCover(d) ==
    LET k == desk[d] IN
    /\ DeskAt(d, "put")
    /\ \/ /\ objects' = objects \cup {<<k.list, k.id>>}
          /\ SetDesk(d, [k EXCEPT !.at = "commit", !.path = TRUE,
                                  !.dropped = FALSE])
          /\ UNCHANGED broken
       \/ /\ SetDesk(d, Unused)
          /\ broken' = (broken \/ k.dropped)
          /\ UNCHANGED objects
    /\ UNCHANGED <<stations, born, premium, radioBounds, wasPremium, staleCommit>>

(* The covers of the stations that the new list does not name go first.    *)
PurgeCovers(d) ==
    LET k    == desk[d]
        kept == {k.items[n].id : n \in DOMAIN k.items}
        gone == {<<"account", i>> :
                   i \in {i \in DOMAIN k.seen : k.seen[i].path} \ kept} IN
    /\ DeskAt(d, "purge")
    /\ objects' \in {objects \ g : g \in SUBSET gone}
    /\ SetDesk(d, [k EXCEPT !.at = "commit", !.dropped = gone # {}])
    /\ UNCHANGED <<stations, born, premium, radioBounds, wasPremium,
                   staleCommit, broken>>

(* Rows of the new list; a path is found again by the id it was read at.   *)
ListOf(k) ==
    [i \in {k.items[n].id : n \in DOMAIN k.items} |->
       [url  |-> k.items[CHOOSE n \in DOMAIN k.items : k.items[n].id = i].url,
        path |-> i \in DOMAIN k.seen /\ k.seen[i].path]]

(* Mutant of UpdatedRow: a URL that the payload leaves out is written.     *)
UpdatedRow_AnyUrl(k, row) ==
    [url  |-> IF k.url # k.seen[k.id].url THEN k.url ELSE row.url,
     path |-> IF k.path # k.seen[k.id].path THEN k.path ELSE row.path]

(* The UPDATE writes the columns that differ from what was read.           *)
UpdatedRow(k, row) ==
    [url  |-> IF k.url \notin {NoUrl, k.seen[k.id].url} THEN k.url ELSE row.url,
     path |-> IF k.path # k.seen[k.id].path THEN k.path ELSE row.path]

(* The list after request k.                                               *)
Committed(k, rows) ==
    CASE k.do = "create"  -> [i \in DOMAIN rows \cup {k.id} |->
                                IF i = k.id
                                THEN [url |-> k.url, path |-> k.path]
                                ELSE rows[i]]
      [] k.do = "update"  -> [rows EXCEPT ![k.id] = UpdatedRow(k, @)]
      [] k.do = "delete"  -> [i \in DOMAIN rows \ {k.id} |-> rows[i]]
      [] k.do = "replace" -> ListOf(k)

(* An id that stands twice in the payload, and a row that is gone, make    *)
(* the commit fail.                                                        *)
Valid(k) ==
    /\ k.do = "update" => k.id \in DOMAIN stations[k.list]
    /\ k.do = "replace" => \A m, n \in DOMAIN k.items :
                              m # n => k.items[m].id # k.items[n].id

(* The requests, when list L becomes rows: what they have read of it is    *)
(* out of date, even if the list should become again what it was.          *)
Overtaken(L, rows) ==
    [e \in Desks |->
       IF ~DeskAt(e, "free") /\ desk[e].list = L /\ stations[L] # rows
       THEN [desk[e] EXCEPT !.fresh = FALSE] ELSE desk[e]]

CommitStation(d) ==
    LET k    == desk[d]
        rows == Committed(k, stations[k.list]) IN
    /\ DeskAt(d, "commit")
    /\ \/ /\ Valid(k)
          /\ stations' = [stations EXCEPT ![k.list] = rows]
          /\ desk' = [Overtaken(k.list, rows) EXCEPT ![d] = Unused]
          /\ staleCommit' = (staleCommit \/ ~k.fresh)
          /\ UNCHANGED broken
       \/ /\ SetDesk(d, Unused)
          /\ broken' = (broken \/ k.dropped)
          /\ UNCHANGED <<stations, staleCommit>>
    /\ UNCHANGED <<objects, born, premium, radioBounds, wasPremium>>

-----------------------------------------------------------------------------
(* A purchase, a lapse or an administrator.                                *)
ChangePremium ==
    /\ radioBounds.changes < MaxPremiumChanges
    /\ radioBounds' = [radioBounds EXCEPT !.changes = @ + 1]
    /\ premium' = ~premium /\ wasPremium' = (wasPremium \/ ~premium)
    /\ UNCHANGED <<stations, objects, desk, born, staleCommit, broken>>

RadioKill(d) ==
    /\ ~DeskAt(d, "free") /\ radioBounds.kills < MaxRadioKills
    /\ radioBounds' = [radioBounds EXCEPT !.kills = @ + 1]
    /\ SetDesk(d, Unused)
    /\ broken' = (broken \/ desk[d].dropped)
    /\ UNCHANGED <<stations, objects, born, premium, wasPremium, staleCommit>>

StationsNext ==
    \/ ChangePremium
    \/ \E d \in Desks :
          \/ \E L \in Lists :
                \/ \E url \in Urls, how \in CoverInputs :
                      CreateStation(d, L, url, how)
                \/ \E i \in Ids :
                      \/ \E url \in Urls \cup {NoUrl}, how \in CoverInputs :
                            UpdateStation(d, L, i, url, how)
                      \/ DeleteStation(d, L, i)
          \/ \E payload \in Payloads : ReplaceStations(d, payload)
          \/ FetchRadioCover(d)
          \/ DropRadioCover(d)
          \/ PutRadioCover(d)
          \/ PurgeCovers(d)
          \/ CommitStation(d)
          \/ RadioKill(d)

StationsSpec == StationsInit /\ [][StationsNext]_stationVars

-----------------------------------------------------------------------------
(* The rules of the account's list.  While no request committed to a list  *)
(* that had changed since its check, no URL stands in the list twice, and  *)
(* an account that was never premium keeps to the limit.                   *)
ListRules ==
    LET rows == stations["account"] IN
    ~staleCommit =>
       /\ \A i, j \in DOMAIN rows : rows[i].url = rows[j].url => i = j
       /\ ~wasPremium => Cardinality(DOMAIN rows) <= FreeLimit

(* When, besides, no request stopped between its change of S3 and its      *)
(* commit, a station that has a path has its cover, except while a request *)
(* that replaces or removes this cover is on its way.                      *)
PathsHaveCovers ==
    (~staleCommit /\ ~broken) =>
       \A L \in Lists : \A i \in DOMAIN stations[L] :
          \/ stations[L][i].path => <<L, i>> \in objects
          \/ \E d \in Desks : /\ ~DeskAt(d, "free") /\ desk[d].dropped
                              /\ desk[d].list = L
                              /\ desk[d].do = "replace" \/ desk[d].id = i

(* What the stations of an account and of the catalog can rely on.         *)
StationsKept == ListRules /\ PathsHaveCovers
=============================================================================
