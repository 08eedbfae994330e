-------------------------------- MODULE PublicSite ------------------------------
(***************************************************************************)
(* What others get to see: the public roster, profiles and their pictures, *)
(* the calendar, the gallery, the statistics, the pages for crawlers and   *)
(* the sitemap, and the lists behind the sign-in.                          *)
(*                                                                         *)
(* A page is made by reads with an await between any two; meanwhile people *)
(* are banned, erased and renamed, events and pictures published and       *)
(* withdrawn, settings switched.  Pictures of people go through a cache.   *)
(* What the HTTP caches in front of the pages keep is left out, and so are *)
(* the order, the paging and the wording of what is shown.                 *)
(***************************************************************************)
EXTENDS Integers, Sequences

CONSTANTS
    Folk,       \* members, addressed by their ids
    Handles,    \* the names they may take, addressed by these as well
    Musters,    \* events
    Shots,      \* gallery items
    Visits,     \* requests under way at once, numbered
    Beginning,  \* the world at first: people, events, items and settings
    Themes,     \* what a behaviour may be about: pages, what they are asked for,
                \* kinds of changes; the visits, the changes and the hours in all
    AvatarTtl,  \* CACHE_TTL_MS of the pictures
    FetchTime,  \* FETCH_TIMEOUT_MS, the same hours
    Portraits   \* how many pictures a member may have had

\* Ids of different kinds are told apart, and from the words of the model; a
\* behaviour begins with rows that are in order and with nobody erased yet.
ASSUME PublicSiteAssumption ==
    /\ Visits \subseteq Nat /\ {AvatarTtl, FetchTime} \subseteq Nat
    /\ Portraits \in Nat \ {0}
    /\ LET Words == {"none", "regiment", "calendar", "wall", "seat", "open"}
       IN  /\ Folk \cap (Handles \cup Musters \cup Shots \cup Words) = {}
           /\ Musters \cap (Shots \cup Words) = {}
           /\ (Shots \cup Handles) \cap Words = {}
    /\ \A t \in Themes : {t.visits, t.changes, t.hours} \subseteq Nat
    /\ Beginning.folk \in [Folk -> [standing : {"applicant", "pending", "enrolled"},
                                   banned : BOOLEAN, until : Nat, erased : {FALSE},
                                   handle : Handles \cup {"none"}, pic : {1}]]
    /\ \A m, n \in Folk : LET h == Beginning.folk[m].handle IN
         h # "none" /\ h = Beginning.folk[n].handle => m = n
    /\ Beginning.musters \in [Musters -> [archived : BOOLEAN, deleted : BOOLEAN,
                                          old : BOOLEAN, with : SUBSET Folk,
                                          asked : SUBSET Folk]]
    /\ Beginning.shots \in [Shots -> [status : {"pending", "approved", "declined"},
                                      deleted : BOOLEAN, author : Folk]]
    /\ Beginning.site \in [configured : BOOLEAN, events : BOOLEAN, gallery : BOOLEAN,
                           stats : {TRUE}, dissolved : BOOLEAN]

VARIABLES
    hour,
    folk,      \* [Folk -> what a members row says of its member]
    reserved,  \* [Handles -> the username_reservations row]
    musters,   \* [Musters -> an events row]
    shots,     \* [Shots -> a gallery_items row]
    site,      \* regiment_settings, if there is a row, and the regiment
    faces,     \* the cache of pictures
    dues,      \* invalidations of the cache that follow a save
    notices,   \* reservations that follow a save or an erasure
    visits,    \* [Visits -> a request and what it has read]
    theme,     \* what this behaviour is about
    served, changes,  \* how much of its bounds is spent
    departed,  \* history: the addresses of erased accounts
    replaced   \* history: [Folk -> how each of the earlier pictures was replaced]

world == <<folk, reserved, musters, shots, site, faces, dues, notices, departed,
           replaced>>
siteVars == <<hour, world, visits, theme, served, changes>>

(***************************************************************************)
(* What the services filter by.                                            *)
(***************************************************************************)

\* A predicate that forgets the suspended.
Servable_Suspended == {m \in Folk : /\ ~folk[m].erased
                                    /\ folk[m].standing = "enrolled" /\ ~folk[m].banned}
\* applyPublicPredicate()
Servable == {m \in Folk : /\ ~folk[m].erased
                          /\ folk[m].standing = "enrolled" /\ ~folk[m].banned
                          /\ folk[m].until <= hour}
Addressed(a) == {m \in Folk : a \in {m, folk[m].handle}}
\* profilePathFor(): where the roster and the sitemap link to.
Address(m) == IF folk[m].handle = "none" THEN m ELSE folk[m].handle

\* No write ever makes a draft, so what excludes drafts is left out.
Scheduled == {e \in Musters : ~musters[e].deleted}
ListPublic == {e \in Scheduled : ~musters[e].archived /\ ~musters[e].old}
GetPublic == {e \in Scheduled : ~musters[e].archived}
ListForMember(manages) == {e \in Scheduled : manages \/ ~musters[e].archived}
GetForMember(manages) == {e \in Scheduled : musters[e].archived => manages}
\* The attendances and the answers of a member: the archive is not left out.
ListAttendedByMember(m) ==
    {e \in Musters : ~musters[e].deleted /\ m \in musters[e].with}
ListRsvpsByMember(m) ==
    {e \in Musters : ~musters[e].deleted /\ m \in musters[e].asked}

ListItems(status) == {i \in Shots : shots[i].status = status /\ ~shots[i].deleted}
FindPublicByAuthor(m) == {i \in ListItems("approved") : shots[i].author = m}
FindOnePublic == ListItems("approved")
\* The signed-in see whoever is not erased.
Present == {m \in Folk : ~folk[m].erased}
\* Those of the members a row names who are left once the erased are dropped.
AttendeeList(e) == musters[e].with \cap Present
RsvpRoster(e) == musters[e].asked \cap Present
\* The authors of items: joins leave out the rows that are soft-deleted.
Authors(found) == {shots[i].author : i \in found} \cap Present

(***************************************************************************)
(* Pages: what each reads, in this order.                                  *)
(***************************************************************************)
RenderRoster == <<"regiment", "roster", "name">>
RenderProfile == <<"regiment", "person", "name">>
RenderHome == <<"name">>
RenderEvents == <<"calendar", "musters", "name">>
RenderEvent == <<"calendar", "muster", "name">>
RenderIndex == <<"name", "wall", "shots">>
RenderItem == <<"wall", "shot", "name">>
RenderSitemap == <<"regiment", "refs">>
SitemapEvents == <<"calendar", "musters">>
SitemapGallery == <<"wall", "shots">>
GalleryFor == <<"regiment", "person", "wall", "feed">>
AvatarFor == <<"regiment", "picture", "fetch">>
GetStats == <<"seat", "open", "counts">>
GetProfile == <<"seat", "counts">>
GetDocuments == <<"seat", "papers">>
\* Behind the sign-in.
GetEvents == <<"card", "attended">>
GetRsvps == <<"card", "answered">>
ListAttendees == <<"event", "attendees">>
ListRsvpRoster == <<"event", "roll">>
FindArchive == <<"archive">>
ModerationQueue == <<"queue">>
PendingSummary == <<"queue">>
FindAllMembers == <<"members">>
GetServiceRecord == <<"card", "entries">>
GetCommandInfo == <<"card">>
ExportSelfData == <<"card", "medals", "links", "card", "entries">>

Pages == [roster |-> RenderRoster, profile |-> RenderProfile, home |-> RenderHome,
          events |-> RenderEvents, event |-> RenderEvent, gallery |-> RenderIndex,
          item |-> RenderItem, sitemap |-> RenderSitemap, feed |-> GalleryFor,
          avatar |-> AvatarFor, stats |-> GetStats,
          memberEvents |-> <<"own events">>, managerEvents |-> <<"all events">>,
          memberEvent |-> <<"own event">>, managerEvent |-> <<"any event">>,
          history |-> GetEvents, answers |-> GetRsvps, attendees |-> ListAttendees,
          roll |-> ListRsvpRoster, archive |-> FindArchive, queue |-> ModerationQueue,
          summary |-> PendingSummary, members |-> FindAllMembers,
          about |-> GetProfile, papers |-> GetDocuments, record |-> GetServiceRecord,
          command |-> GetCommandInfo, export |-> ExportSelfData]
PublicPages == {"roster", "profile", "home", "events", "event", "gallery", "item",
                "sitemap", "feed", "avatar", "stats", "about", "papers"}
\* What is asked for by address.
Asks == [p \in DOMAIN Pages |->
           IF p \in {"profile", "feed"} THEN Folk \cup Handles
           ELSE IF p \in {"avatar", "history", "answers", "record", "command", "export"}
                  THEN Folk
           ELSE IF p \in {"event", "memberEvent", "managerEvent", "attendees", "roll"}
                  THEN Musters
           ELSE IF p = "item" THEN Shots ELSE {"none"}]

ASSUME PagesAssumption == \A t \in Themes : t.pages \subseteq DOMAIN Pages

\* A setting closes a page, or there is no regiment yet.
Gate(read) ==
    IF read \in {"regiment", "calendar", "wall"} /\ ~site.configured THEN "missing"
    ELSE IF read = "seat" /\ site.dissolved THEN "missing"
    ELSE IF read = "calendar" /\ ~site.events THEN "private"
    ELSE IF read = "wall" /\ ~site.gallery THEN "private"
    ELSE IF read = "open" /\ site.configured /\ ~site.stats THEN "private"
    ELSE "open"
Gates == {"regiment", "calendar", "wall", "seat", "open"}

\* What a read finds of what was asked for.
Found(read, a) ==
    IF read \in {"roster", "refs"} THEN Servable
    ELSE IF read \in {"person", "picture"} THEN Servable \cap Addressed(a)
    ELSE IF read = "members" THEN Present
    ELSE IF read = "card" THEN Present \cap {a}
    ELSE IF read = "musters" THEN ListPublic
    ELSE IF read = "muster" THEN GetPublic \cap {a}
    ELSE IF read \in {"own events", "all events"}
           THEN ListForMember(read = "all events")
    ELSE IF read \in {"own event", "any event"}
           THEN GetForMember(read = "any event") \cap {a}
    ELSE IF read = "event" THEN {e \in Musters : ~musters[e].deleted} \cap {a}
    ELSE IF read = "attended" THEN ListAttendedByMember(a)
    ELSE IF read = "answered" THEN ListRsvpsByMember(a)
    ELSE IF read \in {"shots", "archive"} THEN ListItems("approved")
    ELSE IF read = "shot" THEN FindOnePublic \cap {a}
    ELSE IF read = "feed" THEN UNION {FindPublicByAuthor(m) : m \in Addressed(a)}
    ELSE IF read = "queue" THEN ListItems("pending")
    ELSE {}
\* Whom it names besides: the authors of items and who attended, by joins that
\* leave out the rows that are soft-deleted.
Credited(read, a, found) ==
    IF read = "attendees" THEN AttendeeList(a)
    ELSE IF read = "roll" THEN RsvpRoster(a)
    ELSE IF found \subseteq Shots THEN Authors(found) ELSE {}
\* Reads that answer 404 when they find nothing.
Single == {"person", "picture", "card", "muster", "own event", "any event", "event",
           "shot"}

(***************************************************************************)
(* What must not be seen, stated from the audience.                        *)
(***************************************************************************)
Unseen == [p \in DOMAIN Pages |->
    LET public == p \in PublicPages
        manager == p \in {"managerEvents", "managerEvent"}
        awaited == IF p \in {"queue", "summary"} THEN "pending" ELSE "approved"
        kept == p \in {"history", "answers", "attendees", "roll"}
    IN  {m \in Folk : \/ folk[m].erased
                      \/ public /\ \/ folk[m].standing # "enrolled"
                                   \/ folk[m].banned
                                   \/ folk[m].until > hour}
        \cup {e \in Musters : \/ musters[e].deleted
                              \/ musters[e].archived /\ ~manager /\ ~kept}
        \cup {i \in Shots : \/ shots[i].deleted
                            \/ shots[i].status # awaited}
        \cup (IF public /\ ~site.events THEN {"calendar"} ELSE {})
        \cup (IF public /\ ~site.gallery THEN {"wall"} ELSE {})
        \cup (IF public /\ ~site.stats THEN {"open"} ELSE {})]

Unasked == [page |-> "none", of |-> "none", todo |-> {}, status |-> "idle",
            shows |-> {}, credits |-> {}, barred |-> {}, gone |-> {}, noIndex |-> FALSE,
            pic |-> 0, late |-> 0]
NoFace == [pic |-> 0, until |-> 0, whole |-> FALSE]

SiteInit ==
    /\ theme \in Themes
    /\ hour = 0 /\ served = 0 /\ changes = 0
    /\ folk = Beginning.folk /\ musters = Beginning.musters
    /\ shots = Beginning.shots
    /\ site \in {[Beginning.site EXCEPT !.configured = c] :
                    c \in IF "switch" \in theme.kinds THEN BOOLEAN ELSE {TRUE}}
    /\ reserved = [h \in Handles |-> "none"]
    /\ faces = [m \in Folk |-> NoFace]
    /\ dues = {} /\ notices = {} /\ departed = {}
    /\ visits = [v \in Visits |-> Unasked]
    /\ replaced = [m \in Folk |-> <<>>]

(***************************************************************************)
(* Requests.                                                               *)
(***************************************************************************)
Reading(v) == visits[v].status = "reading"

OpenPage(v, p, a) ==
    /\ served < theme.visits /\ served' = served + 1
    /\ p \in theme.pages /\ a \in Asks[p] \cap theme.asks
    /\ ~Reading(v) /\ \A u \in Visits : u < v => Reading(u)
    /\ visits' = [visits EXCEPT ![v] =
         [Unasked EXCEPT !.page = p, !.of = a, !.todo = {Pages[p]},
                         !.status = "reading", !.barred = Unseen[p],
                         !.gone = {m \in Folk : folk[m].erased}]]
    /\ UNCHANGED <<hour, world, theme, changes>>

Reply(r, status) == [r EXCEPT !.todo = {}, !.status = status, !.pic = 0, !.late = 0]

\* The request r goes on with rest in place of what is left of c.
GoOn(r, c, rest) ==
    LET left == (r.todo \ {c}) \cup ({rest} \ {<<>>})
    IN  IF left = {} THEN Reply(r, "ok") ELSE [r EXCEPT !.todo = left]

\* Within the sitemap a failure costs its section; the page of an item falls back
\* to a card that is not indexed; a list of an unconfigured gallery is empty.
TurnAway(r, c, answer) ==
    IF r.page = "sitemap" /\ c # RenderSitemap THEN GoOn(r, c, <<>>)
    ELSE IF r.page = "item" THEN GoOn([r EXCEPT !.noIndex = TRUE], c, <<"name">>)
    ELSE IF r.page \in {"gallery", "feed"} /\ Head(c) = "wall" /\ answer = "missing"
           THEN GoOn(r, c, <<>>)
    ELSE Reply(r, answer)

AtGate(r, c) ==
    IF Gate(Head(c)) = "open"
      THEN GoOn([r EXCEPT !.shows = @ \cup {Head(c)}], c, Tail(c))
      ELSE TurnAway(r, c, Gate(Head(c)))

\* fetchFor(): from the cache, after the predicate and with no await in between.
AtPicture(r, c) ==
    LET m == r.of  shown == [r EXCEPT !.shows = @ \cup {m}] IN
    IF m \notin Servable THEN TurnAway(r, c, "missing")
    ELSE IF faces[m].until > hour
           THEN GoOn(shown, c, <<>>)
    ELSE GoOn([shown EXCEPT !.pic = folk[m].pic, !.late = hour + FetchTime], c, Tail(c))

\* assertNotGone()
AtDeparted(r) ==
    LET gone == IF r.of \in Folk THEN folk[r.of].erased ELSE reserved[r.of] = "blocked"
    IN  Reply(r, IF gone THEN "gone" ELSE "missing")

AtRows(r, c) ==
    LET read == Head(c)
        found == Found(read, r.of)
        filled == [r EXCEPT !.shows = @ \cup found,
                            !.credits = @ \cup Credited(read, r.of, found)]
    IN  IF read \in Single /\ found = {}
          THEN IF read = "person" THEN GoOn(r, c, <<"departed">>)
                                  ELSE TurnAway(r, c, "missing")
        ELSE IF read = "refs"
          THEN [filled EXCEPT !.todo = {SitemapEvents, SitemapGallery}]
        ELSE GoOn(filled, c, Tail(c))

\* One read of one request; a fetch has an action of its own.
ReadOn(v) ==
    /\ Reading(v)
    /\ \E c \in visits[v].todo :
         /\ Head(c) # "fetch"
         /\ visits' = [visits EXCEPT ![v] =
              IF Head(c) \in Gates THEN AtGate(@, c)
              ELSE IF Head(c) = "picture" THEN AtPicture(@, c)
              ELSE IF Head(c) = "departed" THEN AtDeparted(@)
              ELSE AtRows(@, c)]
    /\ UNCHANGED <<hour, world, theme, served, changes>>

Fetching(v) == Reading(v) /\ <<"fetch">> \in visits[v].todo

\* remember(): at its limit the cache drops its oldest entry, whosever that is.
Remember(v, dropped) ==
    /\ Fetching(v)
    /\ LET m == visits[v].of IN
       faces' = [n \in Folk |->
                   IF n = m THEN [pic |-> visits[v].pic, until |-> hour + AvatarTtl,
                                  whole |-> visits[v].pic = folk[m].pic]
                   ELSE IF n \in dropped THEN NoFace ELSE faces[n]]
    /\ visits' = [visits EXCEPT ![v] = GoOn(@, <<"fetch">>, <<>>)]
    /\ UNCHANGED <<hour, folk, reserved, musters, shots, site, dues, notices,
                   departed, replaced, theme, served, changes>>

FetchFails(v) ==
    /\ Fetching(v)
    /\ visits' = [visits EXCEPT ![v] = TurnAway(@, <<"fetch">>, "missing")]
    /\ UNCHANGED <<hour, world, theme, served, changes>>

(***************************************************************************)
(* What the other services commit meanwhile, each a write of one row.      *)
(***************************************************************************)

\* What a change lets be seen is barred no longer.
Unbar == visits' = [v \in Visits |->
           IF Reading(v)
             THEN [visits[v] EXCEPT !.barred = @ \cap Unseen'[visits[v].page]]
             ELSE visits[v]]

\* A change of the kind k.
CommitChange(k) ==
    /\ k \in theme.kinds
    /\ changes < theme.changes /\ changes' = changes + 1
    /\ UNCHANGED <<hour, theme, served>>
    /\ Unbar
Only(m, row) == folk' = [folk EXCEPT ![m] = row]
Freed(m, reason) == [handle : {folk[m].handle} \ {"none"}, reason : {reason}]

\* ban(), unban(), suspend(), unsuspend()
Discipline(m) ==
    /\ ~folk[m].erased /\ folk[m].standing = "enrolled"
    /\ \/ Only(m, [folk[m] EXCEPT !.banned = ~@])
       \/ folk[m].until <= hour /\ Only(m, [folk[m] EXCEPT !.until = hour + 1])
       \/ folk[m].until > hour /\ Only(m, [folk[m] EXCEPT !.until = 0])
    /\ UNCHANGED <<reserved, musters, shots, site, faces, dues, notices, departed,
                   replaced>>
    /\ CommitChange("discipline")

Enrol(m) ==
    /\ ~folk[m].erased /\ folk[m].standing # "enrolled"
    /\ Only(m, [folk[m] EXCEPT !.standing = "enrolled"])
    /\ UNCHANGED <<reserved, musters, shots, site, faces, dues, notices, departed,
                   replaced>>
    /\ CommitChange("enrol")

\* executeSelfDeletion(): the row first, the reservation of the handle later.
EraseMember(m) ==
    /\ ~folk[m].erased
    /\ Only(m, [folk[m] EXCEPT !.erased = TRUE, !.handle = "none"])
    /\ departed' = departed \cup ({m, folk[m].handle} \ {"none"})
    /\ notices' = notices \cup Freed(m, "blocked")
    /\ UNCHANGED <<reserved, musters, shots, site, faces, dues, replaced>>
    /\ CommitChange("erase")

\* claimFor() and the save: the probe refuses a blocked name and the index one in
\* use; what a hold refuses, and to whom, is left out.  The old name is held later.
Rename(m, h) ==
    /\ ~folk[m].erased /\ reserved[h] # "blocked"
    /\ \A n \in Folk : folk[n].handle # h
    /\ Only(m, [folk[m] EXCEPT !.handle = h])
    /\ notices' = notices \cup Freed(m, "held")
    /\ UNCHANGED <<reserved, musters, shots, site, faces, dues, departed, replaced>>
    /\ CommitChange("rename")

\* updateSelf(): the cache is told after the save, unless a step between fails.
SavePortrait(m) ==
    /\ ~folk[m].erased /\ folk[m].pic < Portraits
    /\ Only(m, [folk[m] EXCEPT !.pic = @ + 1])
    /\ replaced' = [replaced EXCEPT ![m] = Append(@, [at |-> hour, told |-> TRUE])]
    /\ dues' = dues \cup {<<m, folk[m].pic>>}
    /\ UNCHANGED <<reserved, musters, shots, site, faces, notices, departed>>
    /\ CommitChange("portrait")

\* A picture on Discord, or a row saved whole by somebody who read it earlier, is
\* news to nobody.
PictureDrifts(m) ==
    /\ ~folk[m].erased /\ folk[m].pic < Portraits
    /\ Only(m, [folk[m] EXCEPT !.pic = @ + 1])
    /\ replaced' = [replaced EXCEPT ![m] = Append(@, [at |-> hour, told |-> FALSE])]
    /\ UNCHANGED <<reserved, musters, shots, site, faces, dues, notices, departed>>
    /\ CommitChange("portrait")

AuthorEvent(e) ==
    /\ ~musters[e].deleted
    /\ \E row \in {[musters[e] EXCEPT !.old = TRUE],
                    [musters[e] EXCEPT !.archived = ~@],
                    [musters[e] EXCEPT !.deleted = TRUE]} :
         row # musters[e] /\ musters' = [musters EXCEPT ![e] = row]
    /\ UNCHANGED <<folk, reserved, shots, site, faces, dues, notices, departed,
                   replaced>>
    /\ CommitChange("events")

\* addAttendees() and removeAttendee(): one who was there when the members were read
\* may be gone when the row is inserted.
MarkAttendance(e, m) ==
    /\ ~musters[e].deleted
    /\ \E came \in {musters[e].with \cup {m}, musters[e].with \ {m}} :
         came # musters[e].with /\ musters' = [musters EXCEPT ![e].with = came]
    /\ UNCHANGED <<folk, reserved, shots, site, faces, dues, notices, departed,
                   replaced>>
    /\ CommitChange("attendance")

ModerateShot(i) ==
    /\ ~shots[i].deleted
    /\ \E row \in {[shots[i] EXCEPT !.status = "approved"],
                    [shots[i] EXCEPT !.status = "declined"],
                    [shots[i] EXCEPT !.deleted = TRUE]} :
         row # shots[i] /\ shots' = [shots EXCEPT ![i] = row]
    /\ UNCHANGED <<folk, reserved, musters, site, faces, dues, notices, departed,
                   replaced>>
    /\ CommitChange("shots")

\* updateSettings() and completeSetup()
SwitchSetting ==
    /\ \/ ~site.configured /\ site' = [site EXCEPT !.configured = TRUE]
       \/ /\ site.configured
          /\ site' \in {[site EXCEPT !.events = ~@], [site EXCEPT !.gallery = ~@],
                         [site EXCEPT !.stats = ~@]}
    /\ UNCHANGED <<folk, reserved, musters, shots, faces, dues, notices, departed,
                   replaced>>
    /\ CommitChange("switch")

\* dissolve() marks the regiment and leaves its settings and its members.
Dissolve ==
    /\ ~site.dissolved /\ site' = [site EXCEPT !.dissolved = TRUE]
    /\ UNCHANGED <<folk, reserved, musters, shots, faces, dues, notices, departed,
                   replaced>>
    /\ CommitChange("dissolve")

Reserve(n) ==
    /\ n \in notices /\ notices' = notices \ {n}
    /\ reserved' = [reserved EXCEPT ![n.handle] = n.reason]
    /\ UNCHANGED <<hour, folk, musters, shots, site, faces, dues, departed, replaced,
                   visits, theme, served, changes>>

\* The cache goes on serving what it has until it expires.
InvalidateFace_Lazily(d) ==
    /\ d \in dues /\ dues' = dues \ {d}
    /\ UNCHANGED <<hour, folk, reserved, musters, shots, site, faces, notices, departed,
                   replaced, visits, theme, served, changes>>

InvalidateFace(d) ==
    /\ d \in dues /\ dues' = dues \ {d}
    /\ faces' = [faces EXCEPT ![d[1]] = NoFace]
    /\ UNCHANGED <<hour, folk, reserved, musters, shots, site, notices, departed,
                   replaced, visits, theme, served, changes>>

\* holdAfterRelease() or replaceSocialLinks() fails after the save.
InvalidateLost(d) ==
    /\ d \in dues /\ dues' = dues \ {d}
    /\ replaced' = [replaced EXCEPT ![d[1]][d[2]].told = FALSE]
    /\ UNCHANGED <<hour, folk, reserved, musters, shots, site, faces, notices, departed,
                   visits, theme, served, changes>>

SiteRestart ==
    /\ "restart" \in theme.kinds /\ changes < theme.changes /\ changes' = changes + 1
    /\ faces' = [m \in Folk |-> NoFace] /\ dues' = {} /\ notices' = {}
    /\ visits' = [v \in Visits |-> IF Reading(v) THEN Unasked ELSE visits[v]]
    /\ UNCHANGED <<hour, folk, reserved, musters, shots, site, departed, replaced,
                   theme, served>>

\* Time passes, and no fetch outlasts its timeout; a suspension may lapse.
HourPasses ==
    /\ hour < theme.hours /\ hour' = hour + 1
    /\ \A v \in Visits : Fetching(v) => visits[v].late > hour
    /\ UNCHANGED <<world, theme, served, changes>>
    /\ Unbar

SiteNext ==
    \/ \E v \in Visits : \/ \E p \in theme.pages : \E a \in Asks[p] : OpenPage(v, p, a)
                         \/ ReadOn(v) \/ FetchFails(v)
                         \/ \E dropped \in SUBSET (Folk \ {visits[v].of}) :
                              Remember(v, dropped)
    \/ \E m \in Folk : \/ Discipline(m) \/ Enrol(m) \/ EraseMember(m)
                       \/ SavePortrait(m) \/ PictureDrifts(m)
                       \/ \E h \in Handles : Rename(m, h)
    \/ \E e \in Musters : AuthorEvent(e) \/ \E m \in Folk : MarkAttendance(e, m)
    \/ \E i \in Shots : ModerateShot(i)
    \/ \E n \in notices : Reserve(n)
    \/ \E d \in dues : InvalidateFace(d) \/ InvalidateLost(d)
    \/ SwitchSetting \/ Dissolve \/ SiteRestart \/ HourPasses

SiteSpec == SiteInit /\ [][SiteNext]_siteVars

(***************************************************************************)
(* Properties.                                                             *)
(***************************************************************************)
SiteTypeOK ==
    /\ theme \in Themes /\ hour \in 0 .. theme.hours
    /\ served \in 0 .. theme.visits /\ changes \in 0 .. theme.changes
    /\ folk \in [Folk -> [standing : {"applicant", "pending", "enrolled"},
                         banned : BOOLEAN, until : Nat, erased : BOOLEAN,
                         handle : Handles \cup {"none"}, pic : 1 .. Portraits]]
    /\ reserved \in [Handles -> {"none", "held", "blocked"}]
    /\ musters \in [Musters -> [archived : BOOLEAN, deleted : BOOLEAN,
                               old : BOOLEAN, with : SUBSET Folk, asked : SUBSET Folk]]
    /\ shots \in [Shots -> [status : {"pending", "approved", "declined"},
                           deleted : BOOLEAN, author : Folk]]
    /\ site \in [configured : BOOLEAN, events : BOOLEAN, gallery : BOOLEAN,
                 stats : BOOLEAN, dissolved : BOOLEAN]
    /\ faces \in [Folk -> [pic : 0 .. Portraits, until : Nat, whole : BOOLEAN]]
    /\ dues \subseteq Folk \X (1 .. Portraits)
    /\ notices \subseteq [handle : Handles, reason : {"held", "blocked"}]
    /\ departed \subseteq Folk \cup Handles
    /\ \A m \in Folk : Len(replaced[m]) = folk[m].pic - 1
    /\ \A v \in Visits : visits[v].status \in {"idle", "reading", "ok", "missing",
                                                "private", "gone"}

\* The public site keeps its four promises while the world changes under it.
PublicSiteHolds ==
    \* Nobody is shown what was closed to them all the while they were asking: the
    \* disciplined, applicants, the erased, the archive, items that are not
    \* approved, a calendar, gallery or statistics switched to private; nor who
    \* had been erased before they asked, as an author or attendee.
    /\ \A v \in Visits : /\ visits[v].shows \cap visits[v].barred = {}
                         /\ visits[v].credits \cap visits[v].gone = {}
    \* What a list links to opens, and a member's address leads to that member,
    \* through renames: the lists and the pages filter by predicates of their own.
    /\ \A m \in Servable : Found("person", Address(m)) = {m}
    /\ ListPublic \subseteq GetPublic
    /\ \A manages \in BOOLEAN : ListForMember(manages) \subseteq GetForMember(manages)
    \* Only the address of a deleted account is ever answered with 410 ("ONLY
    \* account deletion earns a 410").
    /\ \A v \in Visits : visits[v].status = "gone" => visits[v].of \in departed
    \* A picture outlives its replacement by no more than the cache's lifetime and
    \* a fetch; one that no fetch overtook is gone once its member's save is over.
    /\ \A m \in Folk : faces[m].until > hour /\ faces[m].pic < folk[m].pic =>
         LET left == replaced[m][faces[m].pic] IN
         /\ hour - left.at < AvatarTtl + FetchTime
         /\ faces[m].whole /\ left.told => <<m, faces[m].pic>> \in dues
================================================================================
