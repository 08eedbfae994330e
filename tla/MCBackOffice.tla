------------------------------- MODULE MCBackOffice -----------------------------
(***************************************************************************)
(* The back office on a small instance.                                    *)
(***************************************************************************)
EXTENDS BackOffice

\* What a behaviour of the account is about: the operations that meet there.
TopicsDef == {{"ban", "unban", "visit", "signin"}, {"suspend", "logout", "visit"},
              {"suspend", "unsuspend", "role"},
              {"edit", "ask", "confirm", "cancel", "execute"},
              {"signin", "execute", "visit"}, {"edit", "claim", "execute"}}

LadderDef == <<"captain", "sergeant", "recruit">>

Concern(kinds, until, most) == [kinds |-> kinds, time |-> until, lookups |-> most]
ConcernsDef == {Concern({"other"}, 5, 4), Concern({"status", "signin"}, 1, 3),
                Concern({"status", "event"}, 2, 2), Concern({"signin", "event"}, 1, 3)}

Grant(cell, granted) == [cell |-> cell, granted |-> granted]
BatchesDef ==
    {<<Grant("owner:settings", FALSE)>>, <<Grant("moderator:gallery", FALSE)>>,
     <<Grant("owner:settings", FALSE), Grant("owner:settings", TRUE)>>,
     <<Grant("moderator:gallery", TRUE)>>, <<Grant("applicant:roles", TRUE)>>}

\* What a behaviour of the console is about: the regiment, its settings, the bound
\* guild, the switches of the notices, and the jobs that fail.
Act(act, ask) == [act |-> act, ask |-> ask]
BotRow(on, auditTo) ==
    [there |-> on, on |-> on, greet |-> TRUE, welcome |-> "none", application |-> "c1",
     audit |-> auditTo, pending |-> "c1", approved |-> "none"]
Agenda(doing, most, botRow) == [acts |-> doing, most |-> most, bot |-> botRow]
AgendasDef ==
    LET unset == BotRow(FALSE, "none") IN
    {Agenda({Act("update", [name |-> 1, limits |-> 1]), Act("bind", [server |-> 1]),
             Act("setup", [setup |-> TRUE]), Act("dissolve", <<>>)}, 2, unset),
     Agenda({Act("update", [limits |-> 1]), Act("present", [look |-> 1]),
             Act("document", [body |-> 1])}, 2, unset),
     Agenda({Act("bind", [server |-> 1]), Act("verify", <<>>),
             Act("configure", [on |-> TRUE, audit |-> "c1"]),
             Act("configure", [pending |-> "c2"])}, 2, unset),
     Agenda({Act("configure", [pending |-> "c2", approved |-> "c1", audit |-> "c2"]),
             Act("configure", [on |-> FALSE, greet |-> FALSE]),
             Act("pending", <<>>), Act("welcome", <<>>), Act("decision", <<>>)},
            2, BotRow(TRUE, "none")),
     Agenda({Act("resolve", <<>>), Act("verify", <<>>)}, 2, BotRow(TRUE, "c1"))}

\* A full staff, and a single moderator beside the owner.
OpeningsDef ==
    {[hal |-> "owner", ada |-> "admin", moe |-> "moderator"],
     [hal |-> "owner", ada |-> "moderator", moe |-> "member"]}

\* A member with a name and an applicant, an event and one in the archive, an item
\* and one that waits for approval.
Person(standing, handle) ==
    [standing |-> standing, banned |-> FALSE, until |-> 0, erased |-> FALSE,
     handle |-> handle, pic |-> 1]
Muster(archived, came, answered) ==
    [archived |-> archived, deleted |-> FALSE, old |-> FALSE,
     with |-> came, asked |-> answered]
Shot(status, author) == [status |-> status, deleted |-> FALSE, author |-> author]
BeginningDef ==
    [folk |-> [m1 |-> Person("enrolled", "h1"), m2 |-> Person("applicant", "none")],
     musters |-> [e1 |-> Muster(FALSE, {"m1"}, {"m1"}), e2 |-> Muster(TRUE, {}, {"m2"})],
     shots |-> [s1 |-> Shot("approved", "m1"), s2 |-> Shot("pending", "m2")],
     site |-> [configured |-> TRUE, events |-> TRUE, gallery |-> TRUE, stats |-> TRUE,
              dissolved |-> FALSE]]

\* What a behaviour of the site is about: who may be seen, how old a picture may
\* be, the calendar, the gallery, and the lists behind the sign-in.
Everything == Folk \cup Handles \cup Musters \cup Shots \cup {"none"}
Theme(pages, asks, kinds, most, until) ==
    [pages |-> pages, asks |-> asks, kinds |-> kinds, visits |-> most[1],
     changes |-> most[2], hours |-> until]
ThemesDef ==
    {Theme({"roster", "profile", "avatar"}, Everything,
           {"discipline", "enrol", "erase", "rename"}, <<1, 2>>, 1),
     Theme({"avatar"}, {"m1"}, {"portrait", "restart"}, <<2, 2>>, 2),
     Theme({"events", "event", "sitemap", "stats", "home",
            "about", "papers"}, Everything,
           {"events", "switch", "dissolve"}, <<1, 2>>, 0),
     Theme({"gallery", "item", "feed", "sitemap"}, Everything,
           {"shots", "switch", "erase", "discipline"}, <<1, 2>>, 0),
     Theme({"memberEvents", "managerEvents", "memberEvent", "managerEvent", "history",
            "answers", "attendees", "roll", "archive", "queue", "summary", "members",
            "record", "command", "export"},
           Everything, {"events", "attendance", "shots", "erase"}, <<1, 2>>, 0)}
================================================================================
