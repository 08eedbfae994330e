--------------------------------- MODULE Gallery --------------------------------
(***************************************************************************)
(* The gallery and the object store behind it: upload tickets and objects, *)
(* submissions, moderation, likes and views, removal and the purge of what *)
(* was stored, the posts in the review and the showcase channel.           *)
(*                                                                         *)
(* The bytes go straight to the store: what the service knows of an object *)
(* is a key in the namespace of its uploader.  Moderators load an item and *)
(* save() the whole row later, deletedAt included.  Titles, captions, tags *)
(* and the sizes of files are left out: no path depends on them once a     *)
(* request is accepted.                                                    *)
(***************************************************************************)
EXTENDS Integers, FiniteSets, Sequences

CONSTANTS
    Members,     \* who submits
    Fans,        \* those of them who like and view
    Moderators,  \* those who hold ModerateGallery
    Trusted,     \* owner and admins
    Items,       \* the rows there may be
    Keys,        \* the keys there may be
    MaxItems,    \* galleryMaxItemsPerSubmission
    Desks,       \* requests under way at once, numbered
    MaxOrders    \* bound: requests, changed settings and crashes in all

ASSUME GalleryAssumption ==
    /\ Moderators \cup Trusted \cup Fans \subseteq Members
    /\ Desks \subseteq Nat /\ MaxItems \in Nat /\ MaxOrders \in Nat

VARIABLES
    tickets,  \* [Keys -> the namespace of the key: uploader and target]
    objects,  \* [Keys -> "absent", "stored" or "purged"]
    items,    \* [Items -> a row of gallery_items with its gallery_files]
    likes,    \* rows of gallery_likes
    views,    \* rows of gallery_views
    setting,  \* of regiment_settings: autoApproveTrustedMembers, publicGallery
    desks,    \* [Desks -> a request and what it has read]
    posts,    \* jobs enqueued: the item and what is said of it
    orders,   \* how much of MaxOrders is spent
    revived   \* history: items that were removed, and saved again by a request
              \* that had loaded them before

galleryVars == <<tickets, objects, items, likes, views, setting, desks, posts,
                 orders, revived>>

NoTicket == [owner |-> "none", target |-> "none"]
NoItem == [status |-> "none", deleted |-> FALSE, author |-> "none", files |-> {},
           poster |-> {}]
NoRequest == [at |-> "idle", todo |-> <<>>, who |-> "none", item |-> 0,
              copy |-> NoItem, keys |-> {}, stage |-> "none"]
Statuses == {"none", "pending", "approved", "declined"}

Exists(i) == items[i].status # "none" /\ ~items[i].deleted
\* What the public feed and the archive list.
Shown(i) == Exists(i) /\ items[i].status = "approved"

GalleryInit ==
    /\ tickets = [k \in Keys |-> NoTicket]
    /\ objects = [k \in Keys |-> "absent"]
    /\ items = [i \in Items |-> NoItem]
    /\ likes = {} /\ views = {}
    /\ setting = [autoApprove |-> TRUE, public |-> TRUE]
    /\ desks = [d \in Desks |-> NoRequest]
    /\ posts = {}
    /\ orders = 0 /\ revived = {}

Spend == orders < MaxOrders /\ orders' = orders + 1
OpenRequest(d, request) ==
    /\ Spend
    /\ \A e \in Desks : e <= d => (desks[e].at = "idle" <=> e = d)
    /\ desks' = [desks EXCEPT ![d] = request]
Close(d) == desks' = [desks EXCEPT ![d] = NoRequest]
OnlyDesks == UNCHANGED <<tickets, objects, items, likes, views, setting, posts, revived>>

(***************************************************************************)
(* The object store.                                                       *)
(***************************************************************************)

\* createUploadTicket(): the key is new, and in the namespace of the caller.
CreateUploadTicket(k, m) ==
    /\ tickets[k] = NoTicket
    /\ \E target \in {"gallery", "poster"} :
         tickets' = [tickets EXCEPT ![k] = [owner |-> m, target |-> target]]
    /\ UNCHANGED <<objects, items, likes, views, setting, desks, posts, orders, revived>>

\* The browser PUTs the object, or never does; as often as it likes until the
\* URL expires.
PutObject(k) ==
    /\ tickets[k] # NoTicket /\ objects[k] # "stored"
    /\ objects' = [objects EXCEPT ![k] = "stored"]
    /\ UNCHANGED <<tickets, items, likes, views, setting, desks, posts, orders, revived>>

\* Whether it is the caller's key is not asked.
Resolves_AnyOwner(m, k, target) == tickets[k].target = target

\* resolveKeyToPublicUrl(): the shape of the key is all that is looked at, not
\* whether the object is there, nor whether another item has it.
Resolves(m, k, target) == tickets[k] = [owner |-> m, target |-> target]

(***************************************************************************)
(* Submission: settings and keys first, then a transaction, then the post. *)
(***************************************************************************)

\* assertWithinLimits(): of the sizes and types only the number is kept here.
WithinLimits(files) == Cardinality(files) <= MaxItems

\* Who skips the review.
AutoApproved(m) == setting.autoApprove /\ m \in Trusted

Submit(d, m) ==
    /\ \E files \in SUBSET Keys, poster \in SUBSET Keys :
         /\ WithinLimits(files) /\ Cardinality(poster) <= 1
         /\ \A k \in files : Resolves(m, k, "gallery")
         /\ \A k \in poster : Resolves(m, k, "poster")
         /\ OpenRequest(d, [NoRequest EXCEPT !.at = "insert", !.who = m,
              !.copy = [NoItem EXCEPT !.author = m, !.files = files, !.poster = poster,
                          !.status = IF AutoApproved(m) THEN "approved" ELSE "pending"]])
    /\ OnlyDesks

InsertItem(d, i) ==
    /\ desks[d].at = "insert"
    /\ items[i].status = "none" /\ \A j \in Items : j < i => items[j].status # "none"
    /\ items' = [items EXCEPT ![i] = desks[d].copy]
    /\ desks' = [desks EXCEPT ![d].at = "post", ![d].item = i,
                              ![d].stage = desks[d].copy.status]
    /\ UNCHANGED <<tickets, objects, likes, views, setting, posts, orders, revived>>

\* A decline is a message to its author, about an item that need not be there.
Messaged(stage) == stage = "declined"

\* postToGalleryChannel() loads the item again, whatever has become of it but
\* removal.
Post(d) ==
    LET i == desks[d].item
    IN /\ desks[d].at = "post"
       /\ posts' = IF Exists(i) \/ Messaged(desks[d].stage)
                     THEN posts \cup {<<i, desks[d].stage>>} ELSE posts
       /\ Close(d)
       /\ UNCHANGED <<tickets, objects, items, likes, views, setting, orders, revived>>

(***************************************************************************)
(* Moderation: the row is loaded, changed and saved; what it said about    *)
(* its status before decides whether the showcase hears of it.             *)
(***************************************************************************)
ModerateItem(d, m, i) ==
    /\ m \in Moderators /\ Exists(i)
    /\ \/ \E status \in {"approved", "declined"} :
            OpenRequest(d, [NoRequest EXCEPT !.at = "save", !.who = m, !.item = i,
              !.copy = [items[i] EXCEPT !.status = status],
              !.stage = IF status = "approved" /\ items[i].status = "approved"
                          THEN "none" ELSE status])
       \/ \* update(): title, caption and tags
          OpenRequest(d, [NoRequest EXCEPT !.at = "save", !.who = m, !.item = i,
                                    !.copy = items[i]])
    /\ OnlyDesks

SaveItem(d) ==
    LET i == desks[d].item
    IN /\ desks[d].at = "save"
       /\ items' = [items EXCEPT ![i] = desks[d].copy]
       /\ revived' = IF items[i].deleted THEN revived \cup {i} ELSE revived
       /\ IF desks[d].stage = "none" THEN Close(d)
          ELSE desks' = [desks EXCEPT ![d].at = "post"]
       /\ UNCHANGED <<tickets, objects, likes, views, setting, posts, orders>>

(***************************************************************************)
(* Removal, by the author or a moderator: the files are read, the row is   *)
(* marked, then the objects are deleted, one after another.                *)
(***************************************************************************)

\* The objects go first.
Steps_PurgeFirst == <<"purge", "mark">>

Steps == <<"mark", "purge">>

RemoveItem(d, m, i) ==
    /\ Exists(i) /\ (items[i].author = m \/ m \in Moderators)
    /\ OpenRequest(d, [NoRequest EXCEPT !.at = Head(Steps), !.todo = Tail(Steps), !.who = m,
                  !.item = i, !.keys = items[i].files \cup items[i].poster])
    /\ OnlyDesks

\* On to the next step; after the last the request is done.
Proceed(d) ==
    LET request == desks[d]
    IN desks' = [desks EXCEPT ![d] = IF request.todo = <<>> THEN NoRequest
                   ELSE [request EXCEPT !.at = Head(request.todo), !.todo = <<>>]]

SoftRemove(d) ==
    /\ desks[d].at = "mark"
    /\ items' = [items EXCEPT ![desks[d].item].deleted = TRUE]
    /\ Proceed(d)
    /\ UNCHANGED <<tickets, objects, likes, views, setting, posts, orders, revived>>

\* deleteObject(): a store that does not answer is passed over.
DeleteObject(d) ==
    /\ desks[d].at = "purge" /\ desks[d].keys # {}
    /\ \E k \in desks[d].keys :
         /\ objects' = [objects EXCEPT ![k] = IF @ = "stored" THEN "purged" ELSE @]
            \/ UNCHANGED objects
         /\ desks' = [desks EXCEPT ![d].keys = @ \ {k}]
    /\ UNCHANGED <<tickets, items, likes, views, setting, posts, orders, revived>>

Purged(d) ==
    /\ desks[d].at = "purge" /\ desks[d].keys = {}
    /\ Proceed(d)
    /\ UNCHANGED <<tickets, objects, items, likes, views, setting, posts, orders, revived>>

(***************************************************************************)
(* Likes and views; the settings; crashes.                                 *)
(***************************************************************************)

\* The item is found approved; the row, if there is none yet, written later.
Like(d, m, i) ==
    /\ m \in Fans /\ Shown(i)
    /\ OpenRequest(d, [NoRequest EXCEPT !.at = "like", !.who = m, !.item = i])
    /\ OnlyDesks

InsertLike(d) ==
    /\ desks[d].at = "like"
    /\ likes' = likes \cup {<<desks[d].item, desks[d].who>>}
    /\ Close(d)
    /\ UNCHANGED <<tickets, objects, items, views, setting, posts, orders, revived>>

Unlike(m, i) ==
    /\ Shown(i) /\ <<i, m>> \in likes
    /\ likes' = likes \ {<<i, m>>}
    /\ UNCHANGED <<tickets, objects, items, views, setting, desks, posts, orders, revived>>

\* One row for each address, however often it comes.
RecordView(m, i) ==
    /\ m \in Fans /\ setting.public /\ Shown(i)
    /\ views' = views \cup {<<i, m>>}
    /\ UNCHANGED <<tickets, objects, items, likes, setting, desks, posts, orders, revived>>

ChangeSettings ==
    /\ Spend
    /\ \E name \in DOMAIN setting : setting' = [setting EXCEPT ![name] = ~@]
    /\ UNCHANGED <<tickets, objects, items, likes, views, desks, posts, revived>>

GalleryCrash ==
    /\ \E d \in Desks : desks[d].at # "idle"
    /\ Spend
    /\ desks' = [d \in Desks |-> NoRequest]
    /\ OnlyDesks

GalleryNext ==
    \/ \E m \in Members :
         \/ \E k \in Keys : CreateUploadTicket(k, m)
         \/ \E d \in Desks : Submit(d, m)
         \/ \E d \in Desks, i \in Items :
              ModerateItem(d, m, i) \/ RemoveItem(d, m, i) \/ Like(d, m, i)
         \/ \E i \in Items : Unlike(m, i) \/ RecordView(m, i)
    \/ \E k \in Keys : PutObject(k)
    \/ \E d \in Desks :
         \/ \E i \in Items : InsertItem(d, i)
         \/ Post(d) \/ SaveItem(d) \/ SoftRemove(d) \/ DeleteObject(d) \/ Purged(d)
         \/ InsertLike(d)
    \/ ChangeSettings \/ GalleryCrash

GallerySpec == GalleryInit /\ [][GalleryNext]_galleryVars

(***************************************************************************)
(* Properties.                                                             *)
(***************************************************************************)
GalleryTypeOK ==
    /\ tickets \in [Keys -> [owner : Members \cup {"none"},
                             target : {"none", "gallery", "poster"}]]
    /\ objects \in [Keys -> {"absent", "stored", "purged"}]
    /\ items \in [Items -> [status : Statuses, deleted : BOOLEAN, files : SUBSET Keys,
                            author : Members \cup {"none"}, poster : SUBSET Keys]]
    /\ likes \cup views \subseteq Items \X Fans
    /\ posts \subseteq Items \X Statuses
    /\ orders \in 0 .. MaxOrders /\ revived \subseteq Items

Media(i) == items[i].files \cup items[i].poster
\* The author has put one key into two submissions.
Reused(k, i) == \E j \in Items \ {i} : items[j].author = items[i].author /\ k \in Media(j)

\* Nothing is shown whose picture the service itself has deleted: whoever
\* removes what, in whatever order requests overlap, fail or crash, the objects
\* of an item that is still up are left alone.  Two ways around it are in the
\* code: a moderator who had loaded the item saves it back to life, and an
\* author may submit one key twice, which no check notices.
ShownIsWhole ==
    \A i \in Items : Shown(i) =>
        \A k \in Media(i) : \/ objects[k] # "purged"
                            \/ i \in revived \/ Reused(k, i)
================================================================================
